----------------------------- MODULE PrimarySend -----------------------------
(***************************************************************************)
(* The primary path: EnqueueNotification on the pod that serves the        *)
(* request, and ProcessNotificationFromQueue on the pod that consumes      *)
(* notifications.send.                                                     *)
(***************************************************************************)
EXTENDS Environment

VARIABLES
    request,     \* request[n]: what the client of n has been told, or
                 \* "broken" if the pod died before it answered
    serving,     \* serving[p]: requests at p between Create and Publish
    sender       \* sender[p]: the consumer of notifications.send at p

primaryVars == <<request, serving, sender>>

PrimaryTypeOK ==
    /\ request \in [Notif -> {"none", "open", "accepted", "rejected", "broken"}]
    /\ serving \in [Pods -> SUBSET Notif]
    /\ sender \in [Pods -> {Idle} \union Jobs]

PrimaryInit ==
    /\ request = [n \in Notif |-> "none"]
    /\ serving = [p \in Pods |-> {}]
    /\ sender = [p \in Pods |-> Idle]

-----------------------------------------------------------------------------
(* EnqueueNotification. *)

\* Create.  The unique index admits one row for an idempotency key.  A Create
\* that commits and still returns an error ends the request there.
CreateRow(p, n, s) ==
    /\ row[n].status = "ABSENT"
    /\ row' = [row EXCEPT ![n] = NewRow(s)]
    /\ \/ /\ NoFault
          /\ request' = [request EXCEPT ![n] = "open"]
          /\ serving' = [serving EXCEPT ![p] = @ \union {n}]
       \/ /\ Fault("db")
          /\ request' = [request EXCEPT ![n] = "rejected"]
          /\ UNCHANGED serving
    /\ UNCHANGED <<locked, sendQ, retryQ, sent, sender>>

Answer(p, n, reply) ==
    /\ request' = [request EXCEPT ![n] = reply]
    /\ serving' = [serving EXCEPT ![p] = @ \ {n}]

\* Variant with a bug: a scheduled request is published like any other.
FinishRequestAtOnce(p, n) ==
    /\ n \in serving[p]
    /\ \/ sendQ' = Plus(sendQ, n) /\ NoFault /\ Answer(p, n, "accepted")
       \/ sendQ' = sendQ /\ Fault("publish") /\ Answer(p, n, "rejected")
       \/ sendQ' = sendQ /\ Fault("lose") /\ Answer(p, n, "accepted")
    /\ UNCHANGED <<row, locked, retryQ, sent, sender>>

\* A request whose time has not come when it is looked at is left to the
\* scheduled worker; every other one is published.
FinishRequest(p, n) ==
    /\ n \in serving[p]
    /\ \/ /\ row[n].scheduledIn > 0
          /\ sendQ' = sendQ /\ NoFault /\ Answer(p, n, "accepted")
       \/ /\ row[n].scheduledIn <= 0
          /\ \/ sendQ' = Plus(sendQ, n) /\ NoFault /\ Answer(p, n, "accepted")
             \/ /\ sendQ' \in {sendQ, Plus(sendQ, n)}
                /\ Fault("publish") /\ Answer(p, n, "rejected")
             \/ sendQ' = sendQ /\ Fault("lose") /\ Answer(p, n, "accepted")
    /\ UNCHANGED <<row, locked, retryQ, sent, sender>>

-----------------------------------------------------------------------------
(* ProcessNotificationFromQueue.  The row is not read before the send. *)

SendPrimary(p, n) ==
    /\ sender[p] = Idle
    /\ sendQ[n] > 0
    /\ sendQ' = Minus(sendQ, n)
    /\ \E outcome \in {"sent", "failed"} :
          Attempt(n, outcome) /\ sender' = [sender EXCEPT ![p] = Job(outcome, n)]
    /\ UNCHANGED <<row, locked, retryQ, request, serving>>

\* Variant with a bug: a failed send leaves no trace in the row.
RecordPrimarySuccessOnly(p) ==
    /\ sender[p].pc \in {"sent", "failed"}
    /\ LET n == sender[p].n IN
        /\ sender' = [sender EXCEPT ![p] = Job("acking", n)]
        /\ \/ /\ n \notin locked /\ NoFault
              /\ row' = IF sender[p].pc = "sent"
                        THEN [row EXCEPT ![n] = AfterFirstSuccess(@)] ELSE row
           \/ Fault("db") /\ row' = row
    /\ UNCHANGED <<locked, sendQ, retryQ, sent, request, serving>>

\* The write waits for the lock of a claim; its error is only logged.
RecordPrimary(p) ==
    /\ sender[p].pc \in {"sent", "failed"}
    /\ LET n == sender[p].n IN
        /\ sender' = [sender EXCEPT ![p] = Job("acking", n)]
        /\ \/ /\ n \notin locked /\ NoFault
              /\ row' = [row EXCEPT ![n] =
                            IF sender[p].pc = "sent" THEN AfterFirstSuccess(@)
                                                     ELSE AfterSendFailure(@)]
           \/ Fault("db") /\ row' = row
    /\ UNCHANGED <<locked, sendQ, retryQ, sent, request, serving>>

\* The handler always returns nil: the message is acknowledged.
AckPrimary(p) ==
    /\ sender[p].pc = "acking"
    /\ sender' = [sender EXCEPT ![p] = Idle]
    /\ UNCHANGED <<row, locked, envVars, request, serving>>

=============================================================================
