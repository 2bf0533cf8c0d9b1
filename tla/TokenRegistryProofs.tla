------------------------- MODULE TokenRegistryProofs -------------------------
(***************************************************************************)
(* Theorems about TokenRegistry, for any sets of tokens, users and calls.  *)
(***************************************************************************)
EXTENDS TokenRegistry, TLAPS

-----------------------------------------------------------------------------
(* The shape of a step, for the proofs below. *)

\* The row of token t after a step: a deleted row never changes, and no row
\* becomes absent.
RowStep ==
    \A t \in Tokens :
        /\ row[t].state = "deleted" => row'[t] = row[t]
        /\ row[t].state # "absent" => row'[t].state # "absent"

LEMMA TypeInit == Init => TypeOK
BY DEF Init, TypeOK, Rows

\* Every step keeps the types of the variables.
LEMMA TypeStep == TypeOK /\ [Next]_vars => TypeOK'
<1> SUFFICES ASSUME TypeOK, [Next]_vars PROVE TypeOK'
  OBVIOUS
<1> USE DEF TypeOK, Rows, Registering, NoCall
<1>1. ASSUME NEW c \in Calls, NEW t \in Tokens, NEW u \in Users, Register(c, t, u)
      PROVE  TypeOK'
  BY <1>1 DEF Register, Call
<1>2. ASSUME NEW c \in Calls, FindByToken(c) PROVE TypeOK'
  BY <1>2 DEF FindByToken, Goto
<1>3. ASSUME NEW c \in Calls, Create(c) PROVE TypeOK'
  <2>1. call[c] \in Registering
    BY <1>3 DEF Create
  <2>2. row' \in [Tokens -> Rows]
    BY <1>3, <2>1 DEF Create, WriteOwner, WriteFails
  <2>3. [call EXCEPT ![c].pc = "failed"] \in [Calls -> {NoCall} \union Registering]
    BY <2>1
  <2>4. [call EXCEPT ![c].pc = "ok", ![c].answer = call[c].user]
           \in [Calls -> {NoCall} \union Registering]
    <3>1. [call[c] EXCEPT !.pc = "ok", !.answer = call[c].user] \in Registering
      BY <2>1
    <3>2. QED
      BY <3>1
  <2>5. call' \in [Calls -> {NoCall} \union Registering]
    BY <1>3, <2>3, <2>4 DEF Create, Goto, WriteFails
  <2>6. disturbed' \subseteq Calls
    BY <1>3 DEF Create, WriteOwner, WriteFails, On
  <2>7. QED
    BY <2>2, <2>5, <2>6
<1>4. ASSUME NEW c \in Calls, Update(c) PROVE TypeOK'
  <2>1. call[c] \in Registering
    BY <1>4 DEF Update
  <2>2. QED
    BY <1>4, <2>1 DEF Update, Goto, WriteOwner, WriteFails, On
<1>5. ASSUME NEW c \in Calls, FindOneById(c) PROVE TypeOK'
  <2>1. call[c] \in Registering
    BY <1>5 DEF FindOneById
  <2>2. QED
    BY <1>5, <2>1 DEF FindOneById, Goto
<1>6. ASSUME NEW c \in Calls, Reply(c) \/ Abandon(c) PROVE TypeOK'
  BY <1>6 DEF Reply, Abandon, Goto
<1>7. ASSUME NEW t \in Tokens, NEW u \in Users, DeleteForUser(t, u) PROVE TypeOK'
  BY <1>7 DEF DeleteForUser, On
<1>8. CASE UNCHANGED vars
  BY <1>8 DEF vars
<1>9. QED
  BY <1>1, <1>2, <1>3, <1>4, <1>5, <1>6, <1>7, <1>8 DEF Next

-----------------------------------------------------------------------------
(* TypeOK is an invariant: calls are typed whatever step they have reached   *)
(* (UserFCMTokenSvc.Register, DeleteForUser).                                *)
THEOREM RegistryTypeCorrect == Spec => []TypeOK
<1>1. Init => TypeOK
  BY TypeInit
<1>2. TypeOK /\ [Next]_vars => TypeOK'
  BY TypeStep
<1>3. QED
  BY <1>1, <1>2, PTL DEF Spec

-----------------------------------------------------------------------------

\* Where a call that nothing has disturbed finds the row of its token.
Expected(k) ==
    CASE k.pc = "insert" -> {"absent", "deleted"}
      [] k.pc \in {"update", "readback"} -> {"live"}
      [] k.pc = "failed" -> {"deleted"}
      [] OTHER -> {"absent", "live", "deleted"}

Undisturbed ==
    \A c \in Calls \ disturbed :
        call[c] # NoCall => row[call[c].token].state \in Expected(call[c])

\* A call has affected a row only after its UPDATE, which it issues for a row
\* that exists; one whose UPDATE found no row will not find one: it is deleted
\* for good.
AffectedAfterUpdate(c) ==
    /\ call[c].pc = "update" => row[call[c].token].state # "absent"
    /\ call[c].pc \in {"find", "insert", "update"} => ~call[c].affected
    /\ call[c].pc = "readback" /\ ~call[c].affected
          => row[call[c].token].state = "deleted"

UnaffectedIsDeleted == \A c \in Calls : AffectedAfterUpdate(c)

LEMMA RowStepHolds == TypeOK /\ [Next]_vars => RowStep
<1> SUFFICES ASSUME TypeOK, [Next]_vars PROVE RowStep
  OBVIOUS
<1> USE DEF TypeOK, Rows, Registering, NoCall, RowStep
<1>1. ASSUME NEW c \in Calls, Create(c) PROVE RowStep
  BY <1>1 DEF Create, Goto, WriteOwner, WriteFails
<1>2. ASSUME NEW c \in Calls, Update(c) PROVE RowStep
  BY <1>2 DEF Update, Live, Goto, WriteOwner, WriteFails
<1>3. ASSUME NEW t \in Tokens, NEW u \in Users, DeleteForUser(t, u) PROVE RowStep
  BY <1>3 DEF DeleteForUser, Live
<1>4. CASE row' = row
  BY <1>4
<1>5. QED
  BY <1>1, <1>2, <1>3, <1>4
     DEF Next, vars, Register, FindByToken, FindOneById, Reply, Abandon

-----------------------------------------------------------------------------

LEMMA UndisturbedStep ==
    TypeOK /\ Undisturbed /\ [Next]_vars => Undisturbed'
<1> SUFFICES ASSUME TypeOK, Undisturbed, [Next]_vars,
                    NEW k \in Calls \ disturbed', call'[k] # NoCall
             PROVE  row'[call'[k].token].state \in Expected(call[k])'
  BY DEF Undisturbed
<1> USE DEF TypeOK, Rows, Registering, NoCall, Undisturbed, Expected
<1>1. ASSUME NEW c \in Calls, NEW t \in Tokens, NEW u \in Users, Register(c, t, u)
      PROVE  row'[call'[k].token].state \in Expected(call[k])'
  BY <1>1 DEF Register, Call
<1>2. ASSUME NEW c \in Calls, FindByToken(c)
      PROVE  row'[call'[k].token].state \in Expected(call[k])'
  BY <1>2 DEF FindByToken, Goto, Live
<1>3. ASSUME NEW c \in Calls, Create(c)
      PROVE  row'[call'[k].token].state \in Expected(call[k])'
  BY <1>3 DEF Create, Goto, WriteOwner, WriteFails, On
<1>4. ASSUME NEW c \in Calls, Update(c)
      PROVE  row'[call'[k].token].state \in Expected(call[k])'
  BY <1>4 DEF Update, Goto, Live, WriteOwner, WriteFails, On
<1>5. ASSUME NEW c \in Calls, FindOneById(c)
      PROVE  row'[call'[k].token].state \in Expected(call[k])'
  BY <1>5 DEF FindOneById, Goto, Live
<1>6. ASSUME NEW c \in Calls, Reply(c) \/ Abandon(c)
      PROVE  row'[call'[k].token].state \in Expected(call[k])'
  BY <1>6 DEF Reply, Abandon, Goto
<1>7. ASSUME NEW t \in Tokens, NEW u \in Users, DeleteForUser(t, u)
      PROVE  row'[call'[k].token].state \in Expected(call[k])'
  BY <1>7 DEF DeleteForUser, Live, On
<1>8. CASE UNCHANGED vars
  BY <1>8 DEF vars
<1>9. QED
  BY <1>1, <1>2, <1>3, <1>4, <1>5, <1>6, <1>7, <1>8 DEF Next

\* Between its UPDATE and its reply a call that nothing has disturbed is the
\* owner of its token.
NamesUser(c) ==
    /\ call[c].pc = "readback" => row[call[c].token].owner = call[c].user
    /\ call[c].pc = "ok" => call[c].answer = call[c].user

UndisturbedNamesUser == \A c \in Calls \ disturbed : NamesUser(c)

LEMMA UndisturbedNamesUserStep ==
    TypeOK /\ Undisturbed /\ UndisturbedNamesUser /\ [Next]_vars
        => UndisturbedNamesUser'
<1> SUFFICES ASSUME TypeOK, Undisturbed, UndisturbedNamesUser, [Next]_vars,
                    NEW k \in Calls \ disturbed'
             PROVE  NamesUser(k)'
  BY DEF UndisturbedNamesUser
<1> USE DEF TypeOK, Rows, Registering, NoCall, Undisturbed, UndisturbedNamesUser,
            Expected, NamesUser
<1>1. ASSUME NEW c \in Calls, NEW t \in Tokens, NEW u \in Users, Register(c, t, u)
      PROVE  NamesUser(k)'
  BY <1>1 DEF Register, Call
<1>2. ASSUME NEW c \in Calls, FindByToken(c)
      PROVE  NamesUser(k)'
  BY <1>2 DEF FindByToken, Goto, Live
<1>3. ASSUME NEW c \in Calls, Create(c)
      PROVE  NamesUser(k)'
  <2>1. CASE k = c
    <3>1. call[c].pc = "insert" /\ call[c] \in Registering
      BY <1>3 DEF Create
    <3>2. \/ call' = [call EXCEPT ![c].pc = "ok", ![c].answer = call[c].user]
          \/ Goto(c, "failed")
      BY <1>3 DEF Create, WriteFails
    <3>3. QED
      BY <2>1, <3>1, <3>2 DEF Goto
  <2>2. CASE k # c
    <3>1. call'[k] = call[k]
      BY <1>3, <2>2 DEF Create, Goto, WriteFails
    <3>2. CASE row'[call[k].token] = row[call[k].token] /\ k \notin disturbed
      BY <3>1, <3>2
    <3>3. CASE call[k].pc \notin {"readback", "ok"}
      BY <3>1, <3>3
    <3>4. CASE call[k].pc \in {"readback", "ok"}
      <4>1. /\ k \notin disturbed
            /\ k \notin On(call[c].token) \/ row' = row
        BY <1>3, <2>2 DEF Create, WriteOwner, WriteFails
      <4>2. call[k].token # call[c].token \/ row' = row
        BY <3>4, <4>1 DEF On
      <4>3. row'[call[k].token] = row[call[k].token]
        BY <1>3, <3>4, <4>2 DEF Create, WriteOwner, WriteFails
      <4>4. QED
        BY <3>2, <4>1, <4>3
    <3>5. QED
      BY <3>3, <3>4
  <2>3. QED
    BY <2>1, <2>2
<1>4. ASSUME NEW c \in Calls, Update(c)
      PROVE  NamesUser(k)'
  BY <1>4 DEF Update, Goto, Live, WriteOwner, WriteFails, On
<1>5. ASSUME NEW c \in Calls, FindOneById(c)
      PROVE  NamesUser(k)'
  BY <1>5 DEF FindOneById, Goto, Live
<1>6. ASSUME NEW c \in Calls, Reply(c) \/ Abandon(c)
      PROVE  NamesUser(k)'
  BY <1>6 DEF Reply, Abandon, Goto
<1>7. ASSUME NEW t \in Tokens, NEW u \in Users, DeleteForUser(t, u)
      PROVE  NamesUser(k)'
  BY <1>7 DEF DeleteForUser, Live, On
<1>8. CASE UNCHANGED vars
  BY <1>8 DEF vars
<1>9. QED
  BY <1>1, <1>2, <1>3, <1>4, <1>5, <1>6, <1>7, <1>8 DEF Next

(* The reply to a registration that nothing disturbs names its user, and is  *)
(* an error only for a token that had been deleted (Register, its read-back  *)
(* and the unique index on the token).                                       *)
THEOREM UndisturbedReplies == Spec => []UndisturbedReplyIsRight
<1>1. Init => TypeOK /\ Undisturbed /\ UndisturbedNamesUser
  BY TypeInit DEF Init, NoCall, Undisturbed, UndisturbedNamesUser, NamesUser
<1>2. TypeOK /\ Undisturbed /\ UndisturbedNamesUser /\ [Next]_vars
         => TypeOK' /\ Undisturbed' /\ UndisturbedNamesUser'
  BY TypeStep, UndisturbedStep, UndisturbedNamesUserStep
<1>3. TypeOK /\ Undisturbed /\ UndisturbedNamesUser => UndisturbedReplyIsRight
  BY DEF Undisturbed, UndisturbedNamesUser, NamesUser,
         UndisturbedReplyIsRight, Expected, NoCall
<1>4. QED
  BY <1>1, <1>2, <1>3, PTL DEF Spec

-----------------------------------------------------------------------------

LEMMA UnaffectedStep ==
    TypeOK /\ UnaffectedIsDeleted /\ [Next]_vars => UnaffectedIsDeleted'
<1> SUFFICES ASSUME TypeOK, UnaffectedIsDeleted, [Next]_vars, NEW k \in Calls
             PROVE  AffectedAfterUpdate(k)'
  BY DEF UnaffectedIsDeleted
<1> USE DEF TypeOK, Rows, Registering, NoCall, UnaffectedIsDeleted, AffectedAfterUpdate
<1>0. RowStep
  BY RowStepHolds
<1>1. ASSUME NEW c \in Calls, NEW t \in Tokens, NEW u \in Users, Register(c, t, u)
      PROVE  AffectedAfterUpdate(k)'
  BY <1>1 DEF Register, Call
<1>2. ASSUME NEW c \in Calls, FindByToken(c) PROVE AffectedAfterUpdate(k)'
  BY <1>2 DEF FindByToken, Goto, Live
<1>3. ASSUME NEW c \in Calls, Create(c) PROVE AffectedAfterUpdate(k)'
  <2>1. CASE k = c
    <3>1. call'[k].pc \in {"ok", "failed"}
      BY <1>3, <2>1 DEF Create, Goto, WriteFails
    <3>2. QED
      BY <3>1
  <2>2. CASE k # c
    <3>1. call'[k] = call[k]
      BY <1>3, <2>2 DEF Create, Goto, WriteFails
    <3>2. QED
      BY <1>0, <3>1 DEF RowStep
  <2>3. QED
    BY <2>1, <2>2
<1>4. ASSUME NEW c \in Calls, Update(c) PROVE AffectedAfterUpdate(k)'
  <2>1. CASE k = c
    <3>1. call[c] \in Registering
      BY <1>4 DEF Update
    <3>2. CASE Live(call[c].token) /\ WriteOwner(c)
               /\ call' = [call EXCEPT ![c].pc = "readback", ![c].affected = TRUE]
      BY <2>1, <3>1, <3>2
    <3>3. CASE ~Live(call[c].token) /\ Goto(c, "readback") /\ row' = row
      BY <1>4, <2>1, <3>1, <3>3 DEF Update, Goto, Live
    <3>4. CASE WriteFails(c)
      BY <2>1, <3>1, <3>4 DEF Goto, WriteFails
    <3>5. QED
      BY <1>4, <3>2, <3>3, <3>4 DEF Update
  <2>2. CASE k # c
    <3>1. call'[k] = call[k]
      BY <1>4, <2>2 DEF Update, Goto, WriteFails
    <3>2. QED
      BY <1>0, <3>1 DEF RowStep
  <2>3. QED
    BY <2>1, <2>2
<1>5. ASSUME NEW c \in Calls, FindOneById(c) PROVE AffectedAfterUpdate(k)'
  BY <1>5 DEF FindOneById, Goto
<1>6. ASSUME NEW c \in Calls, Reply(c) \/ Abandon(c) PROVE AffectedAfterUpdate(k)'
  BY <1>6 DEF Reply, Abandon, Goto
<1>7. ASSUME NEW t \in Tokens, NEW u \in Users, DeleteForUser(t, u)
      PROVE  AffectedAfterUpdate(k)'
  BY <1>0, <1>7 DEF RowStep, DeleteForUser
<1>8. CASE UNCHANGED vars
  BY <1>8 DEF vars
<1>9. QED
  BY <1>1, <1>2, <1>3, <1>4, <1>5, <1>6, <1>7, <1>8 DEF Next

-----------------------------------------------------------------------------
(* The refinement. *)

OwnerNow == [t \in Tokens |-> IF Live(t) THEN row[t].owner ELSE NoOne]
AskerNow == [c \in Calls |-> AskerOf(call[c])]

\* A step that leaves a row live with an owner, or touches no row, shows so in
\* the directory.
LEMMA OwnerOfWrite ==
    ASSUME TypeOK, NEW t \in Tokens, NEW u \in Users,
           row' = [row EXCEPT ![t] = [state |-> "live", owner |-> u]]
    PROVE  OwnerNow' = [OwnerNow EXCEPT ![t] = u]
BY DEF TypeOK, Rows, OwnerNow, Live

LEMMA OwnerUnchanged == row' = row => OwnerNow' = OwnerNow
BY DEF OwnerNow, Live

\* A step of one call shows in the directory as a step of that caller.
LEMMA AskerOfStep ==
    ASSUME NEW c \in Calls, call \in [Calls -> {NoCall} \union Registering],
           NEW k \in {NoCall} \union Registering, call' = [call EXCEPT ![c] = k]
    PROVE  AskerNow' = [AskerNow EXCEPT ![c] = AskerOf(k)]
BY DEF AskerNow

\* What the directory knows of a call that has ended, or has affected its row.
LEMMA AskerOfEnded ==
    ASSUME NEW k \in Registering
    PROVE  /\ k.pc = "ok" => AskerOf(k).pc = "ok"
           /\ k.pc = "failed" => AskerOf(k).pc = "failed"
           /\ k.pc = "readback" /\ k.affected => AskerOf(k).pc = "ok"
BY DEF AskerOf, Registering, NoCall

LEMMA AskerOfRegistering ==
    ASSUME NEW k \in Registering
    PROVE  AskerOf(k) = [pc |-> AskerOf(k).pc, token |-> k.token, user |-> k.user]
BY DEF AskerOf, Registering, NoCall

\* Two moments of one call differ in the directory by what is known of its end.
LEMMA AskerOfSameCall ==
    ASSUME NEW c \in Calls, call[c] \in Registering, NEW k \in Registering,
           k.token = call[c].token, k.user = call[c].user
    PROVE  [AskerNow EXCEPT ![c] = AskerOf(k)]
              = [AskerNow EXCEPT ![c].pc = AskerOf(k).pc]
<1>1. AskerNow[c] = [pc |-> AskerOf(call[c]).pc, token |-> k.token, user |-> k.user]
  BY AskerOfRegistering DEF AskerNow
<1>2. [AskerNow[c] EXCEPT !.pc = AskerOf(k).pc]
         = [pc |-> AskerOf(k).pc, token |-> k.token, user |-> k.user]
  BY <1>1
<1>3. AskerOf(k) = [pc |-> AskerOf(k).pc, token |-> k.token, user |-> k.user]
  BY AskerOfRegistering
<1>4. QED
  BY <1>2, <1>3

LEMMA AskerUnchanged == call' = call => AskerNow' = AskerNow
BY DEF AskerNow

LEMMA RefinementStep ==
    TypeOK /\ UnaffectedIsDeleted /\ [Next]_vars
        => [Directory!Next]_(Directory!vars)
<1> SUFFICES ASSUME TypeOK, UnaffectedIsDeleted, [Next]_vars
             PROVE  [Directory!Next]_<<OwnerNow, AskerNow>>
  BY DEF Directory!vars, OwnerNow, AskerNow
<1> USE DEF TypeOK, Registering, NoCall
<1>f. ASSUME NEW c \in Calls, call[c] \in Registering, Goto(c, "failed"), row' = row,
             call[c].pc # "failed"
      PROVE  Directory!Fail(c)
  <2>1. AskerNow' = [AskerNow EXCEPT ![c] = AskerOf([call[c] EXCEPT !.pc = "failed"])]
    BY <1>f, AskerOfStep DEF Goto
  <2>2. AskerNow' = [AskerNow EXCEPT ![c].pc = "failed"]
    <3> DEFINE failed == [call[c] EXCEPT !.pc = "failed"]
    <3>1. failed \in Registering /\ failed.pc = "failed"
      BY <1>f
    <3>2. AskerOf(failed).pc = "failed"
      BY <3>1, AskerOfEnded
    <3>3. failed.token = call[c].token /\ failed.user = call[c].user
      BY <1>f
    <3>4. QED
      BY <1>f, <2>1, <3>1, <3>2, <3>3, AskerOfSameCall
  <2>3. AskerNow[c].pc \in {"asked", "ok"}
    BY <1>f DEF AskerNow, AskerOf
  <2>4. QED
    BY <1>f, <2>2, <2>3, OwnerUnchanged DEF Directory!Fail, OwnerNow, AskerNow
<1>w. ASSUME NEW c \in Calls, call[c] \in Registering,
             call[c].pc \in {"insert", "update"},
             NEW k \in Registering, call' = [call EXCEPT ![c] = k],
             k.token = call[c].token, k.user = call[c].user,
             AskerOf(k).pc \in {"ok", "failed"},
             row' = [row EXCEPT ![call[c].token] =
                        [state |-> "live", owner |-> call[c].user]]
      PROVE  Directory!Take(c)
  <2>1. AskerNow' = [AskerNow EXCEPT ![c] = AskerOf(k)]
    BY <1>w, AskerOfStep
  <2>2. AskerNow' = [AskerNow EXCEPT ![c].pc = AskerOf(k).pc]
    BY <1>w, <2>1, AskerOfSameCall
  <2>3. AskerNow[c].pc = "asked" /\ AskerNow[c].token = call[c].token
           /\ AskerNow[c].user = call[c].user
    BY <1>w DEF AskerNow, AskerOf
  <2>4. OwnerNow' = [OwnerNow EXCEPT ![call[c].token] = call[c].user]
    BY <1>w, OwnerOfWrite
  <2>5. QED
    BY <1>w, <2>2, <2>3, <2>4 DEF Directory!Take, OwnerNow, AskerNow
<1>1. ASSUME NEW c \in Calls, NEW t \in Tokens, NEW u \in Users, Register(c, t, u)
      PROVE  Directory!Ask(c, t, u)
  <2>1. Call("find", t, u, FALSE, NoOne) \in Registering
    BY DEF Call
  <2>2. AskerNow' = [AskerNow EXCEPT ![c] = Directory!Asking("asked", t, u)]
    BY <1>1, <2>1, AskerOfStep DEF Register, Call, AskerOf, Directory!Asking
  <2>3. AskerNow[c] = Directory!NotAsking
    BY <1>1 DEF Register, AskerNow, AskerOf, Directory!NotAsking
  <2>4. QED
    BY <1>1, <2>2, <2>3, OwnerUnchanged
       DEF Register, Directory!Ask, OwnerNow, AskerNow
<1>2. ASSUME NEW c \in Calls, FindByToken(c)
      PROVE  UNCHANGED <<OwnerNow, AskerNow>>
  <2>1. call[c] \in Registering
    BY <1>2 DEF FindByToken
  <2>2. PICK pc \in {"insert", "update"} : Goto(c, pc)
    BY <1>2 DEF FindByToken
  <2>3. AskerNow' = [AskerNow EXCEPT ![c] = AskerOf([call[c] EXCEPT !.pc = pc])]
    BY <2>1, <2>2, AskerOfStep DEF Goto
  <2>4. AskerOf([call[c] EXCEPT !.pc = pc]) = AskerNow[c]
    BY <1>2, <2>1 DEF FindByToken, AskerOf, AskerNow
  <2>5. QED
    BY <1>2, <2>3, <2>4, OwnerUnchanged DEF FindByToken, AskerNow
<1>3. ASSUME NEW c \in Calls, Create(c)
      PROVE  Directory!Take(c) \/ Directory!Fail(c)
  <2>1. call[c] \in Registering /\ call[c].pc = "insert"
    BY <1>3 DEF Create
  <2> DEFINE ok == [call[c] EXCEPT !.pc = "ok", !.answer = call[c].user]
             failed == [call[c] EXCEPT !.pc = "failed"]
  <2>2. ok \in Registering /\ failed \in Registering
    BY <2>1
  <2>3. AskerOf(ok).pc = "ok" /\ AskerOf(failed).pc = "failed"
    BY <2>1 DEF AskerOf
  <2>4. CASE WriteOwner(c) /\ call' = [call EXCEPT ![c] = ok]
    BY <1>w, <2>1, <2>2, <2>3, <2>4 DEF WriteOwner
  <2>5. CASE Goto(c, "failed") /\ row' = row
    BY <1>f, <2>1, <2>5
  <2>6. CASE WriteFails(c) /\ row' # row
    BY <1>w, <2>1, <2>2, <2>3, <2>6 DEF WriteFails, Goto
  <2>7. QED
    BY <1>3, <2>4, <2>5, <2>6 DEF Create, WriteFails
<1>4. ASSUME NEW c \in Calls, Update(c)
      PROVE  Directory!Take(c) \/ Directory!Fail(c) \/ UNCHANGED <<OwnerNow, AskerNow>>
  <2>1. call[c] \in Registering /\ call[c].pc = "update"
    BY <1>4 DEF Update
  <2> DEFINE done == [call[c] EXCEPT !.pc = "readback", !.affected = TRUE]
             missed == [call[c] EXCEPT !.pc = "readback"]
             failed == [call[c] EXCEPT !.pc = "failed"]
  <2>2. done \in Registering /\ missed \in Registering /\ failed \in Registering
    BY <2>1
  <2>3. AskerOf(done).pc = "ok" /\ AskerOf(failed).pc = "failed"
    BY <2>1 DEF AskerOf
  <2>4. CASE WriteOwner(c) /\ call' = [call EXCEPT ![c] = done]
    BY <1>w, <2>1, <2>2, <2>3, <2>4 DEF WriteOwner
  <2>5. CASE Goto(c, "readback") /\ row' = row
    <3>1. ~call[c].affected
      BY <2>1 DEF UnaffectedIsDeleted, AffectedAfterUpdate
    <3>2. AskerOf(missed) = AskerNow[c]
      BY <2>1, <3>1 DEF AskerOf, AskerNow
    <3>3. AskerNow' = [AskerNow EXCEPT ![c] = AskerOf(missed)]
      BY <2>2, <2>5, AskerOfStep DEF Goto
    <3>4. QED
      BY <2>5, <3>2, <3>3, OwnerUnchanged DEF AskerNow
  <2>6. CASE Goto(c, "failed") /\ row' = row
    BY <1>f, <2>1, <2>6
  <2>7. CASE WriteFails(c) /\ row' # row
    BY <1>w, <2>1, <2>2, <2>3, <2>7 DEF WriteFails, Goto
  <2>8. QED
    BY <1>4, <2>4, <2>5, <2>6, <2>7 DEF Update, WriteFails
<1>5. ASSUME NEW c \in Calls, FindOneById(c)
      PROVE  Directory!Fail(c) \/ UNCHANGED <<OwnerNow, AskerNow>>
  <2>1. call[c] \in Registering /\ call[c].pc = "readback"
    BY <1>5 DEF FindOneById
  <2> DEFINE ok == [call[c] EXCEPT !.pc = "ok", !.answer = row[call[c].token].owner]
  <2>2. CASE Live(call[c].token) /\ call' = [call EXCEPT ![c] = ok]
    <3>1. ok \in Registering
      BY <2>1 DEF Rows
    <3>2. call[c].affected
      BY <2>1, <2>2 DEF UnaffectedIsDeleted, AffectedAfterUpdate, Live
    <3>3. AskerOf(ok) = AskerNow[c]
      <4>1. AskerOf(ok).pc = "ok" /\ AskerOf(call[c]).pc = "ok"
        BY <2>1, <3>1, <3>2, AskerOfEnded
      <4>2. ok.token = call[c].token /\ ok.user = call[c].user
        BY <2>1
      <4>3. AskerOf(call[c])
               = [pc |-> "ok", token |-> call[c].token, user |-> call[c].user]
        BY <2>1, <4>1, AskerOfRegistering
      <4> HIDE DEF ok
      <4>4. AskerOf(ok)
               = [pc |-> "ok", token |-> call[c].token, user |-> call[c].user]
        BY <3>1, <4>1, <4>2, AskerOfRegistering
      <4>5. QED
        BY <4>3, <4>4 DEF AskerNow
    <3>4. AskerNow' = [AskerNow EXCEPT ![c] = AskerOf(ok)]
      BY <2>2, <3>1, AskerOfStep
    <3>5. QED
      BY <1>5, <3>3, <3>4, OwnerUnchanged DEF FindOneById, AskerNow
  <2>3. CASE Goto(c, "failed")
    BY <1>5, <1>f, <2>1, <2>3 DEF FindOneById
  <2>4. QED
    BY <1>5, <2>2, <2>3 DEF FindOneById
<1>6. ASSUME NEW c \in Calls, Reply(c) PROVE Directory!Reply(c)
  <2>1. call[c] \in Registering
    BY <1>6 DEF Reply
  <2>2. AskerNow' = [AskerNow EXCEPT ![c] = Directory!NotAsking]
    BY <1>6, AskerOfStep DEF Reply, AskerOf, Directory!NotAsking
  <2>3. AskerNow[c].pc \in {"ok", "failed"}
    BY <1>6, <2>1 DEF Reply, AskerOf, AskerNow
  <2>4. QED
    BY <1>6, <2>2, <2>3, OwnerUnchanged DEF Reply, Directory!Reply, OwnerNow, AskerNow
<1>7. ASSUME NEW c \in Calls, Abandon(c) PROVE Directory!Fail(c)
  BY <1>7, <1>f DEF Abandon
<1>8. ASSUME NEW t \in Tokens, NEW u \in Users, DeleteForUser(t, u)
      PROVE  Directory!GiveUp(t)
  <2>1. OwnerNow[t] # NoOne
    BY <1>8, NoOneAssumption DEF DeleteForUser, OwnerNow
  <2>2. OwnerNow' = [OwnerNow EXCEPT ![t] = NoOne]
    BY <1>8 DEF DeleteForUser, OwnerNow, Live, Rows
  <2>3. QED
    BY <1>8, <2>1, <2>2, AskerUnchanged
       DEF DeleteForUser, Directory!GiveUp, OwnerNow, AskerNow
<1>9. CASE UNCHANGED vars
  BY <1>9, OwnerUnchanged, AskerUnchanged DEF vars
<1>10. QED
  BY <1>1, <1>2, <1>3, <1>4, <1>5, <1>6, <1>7, <1>8, <1>9 DEF Next, Directory!Next

(* Register and DeleteForUser implement a directory whose operations act at  *)
(* one instant, for any number of tokens, users and concurrent calls.        *)
THEOREM RegistryImplementsDirectory == Spec => ImplementsDirectory
<1>1. Init => TypeOK /\ UnaffectedIsDeleted
  BY TypeInit DEF Init, UnaffectedIsDeleted, AffectedAfterUpdate, NoCall
<1>2. TypeOK /\ UnaffectedIsDeleted /\ [Next]_vars
         => TypeOK' /\ UnaffectedIsDeleted'
  BY TypeStep, UnaffectedStep
<1>3. Init => Directory!Init
  BY DEF Init, Directory!Init, Live, AskerOf, NoCall, Directory!NotAsking
<1>4. QED
  BY <1>1, <1>2, <1>3, RefinementStep, PTL DEF Spec, ImplementsDirectory, Directory!Spec

=============================================================================
