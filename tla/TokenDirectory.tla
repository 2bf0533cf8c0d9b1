--------------------------- MODULE TokenDirectory ---------------------------
(***************************************************************************)
(* What the registry of FCM tokens promises: a directory from tokens to    *)
(* their owners.  A registration takes the token at one instant, at most   *)
(* once; a caller that is answered "ok" has taken it.  An owner changes    *)
(* only so, or when the owner gives the token up.                          *)
(***************************************************************************)
CONSTANTS Tokens, Users, Calls, NoOne

VARIABLES
    owner,      \* owner[t]: the user that push messages to t are for
    asker       \* asker[c]: the registration c

vars == <<owner, asker>>

NotAsking == [pc |-> "idle"]
Asking(pc, t, u) == [pc |-> pc, token |-> t, user |-> u]

Init ==
    /\ owner = [t \in Tokens |-> NoOne]
    /\ asker = [c \in Calls |-> NotAsking]

Ask(c, t, u) ==
    /\ asker[c] = NotAsking
    /\ asker' = [asker EXCEPT ![c] = Asking("asked", t, u)]
    /\ UNCHANGED owner

\* The registration takes effect; its caller may learn of it or not.
Take(c) ==
    /\ asker[c].pc = "asked"
    /\ owner' = [owner EXCEPT ![asker[c].token] = asker[c].user]
    /\ \E reply \in {"ok", "failed"} : asker' = [asker EXCEPT ![c].pc = reply]

Fail(c) ==
    /\ asker[c].pc \in {"asked", "ok"}
    /\ asker' = [asker EXCEPT ![c].pc = "failed"]
    /\ UNCHANGED owner

Reply(c) ==
    /\ asker[c].pc \in {"ok", "failed"}
    /\ asker' = [asker EXCEPT ![c] = NotAsking]
    /\ UNCHANGED owner

GiveUp(t) ==
    /\ owner[t] # NoOne
    /\ owner' = [owner EXCEPT ![t] = NoOne]
    /\ UNCHANGED asker

Next ==
    \/ \E c \in Calls : Take(c) \/ Fail(c) \/ Reply(c)
    \/ \E c \in Calls, t \in Tokens, u \in Users : Ask(c, t, u)
    \/ \E t \in Tokens : GiveUp(t)

Spec == Init /\ [][Next]_vars

=============================================================================
