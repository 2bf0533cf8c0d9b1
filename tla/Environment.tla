----------------------------- MODULE Environment -----------------------------
(***************************************************************************)
(* What surrounds the pods: the two RabbitMQ queues, the providers that    *)
(* accept messages, and the faults that may strike.                        *)
(*                                                                         *)
(* A queue is a bag: the broker requeues the unacknowledged messages of a  *)
(* consumer that dies, so no order is promised.  A message that a consumer *)
(* holds is not in the bag; it returns to it when the pod crashes.         *)
(***************************************************************************)
EXTENDS NotificationStore, FiniteSets

CONSTANTS
    Pods,        \* replicas of the service
    Faults,      \* the kinds of fault that may strike, see FaultKinds
    MaxFaults    \* how many faults strike in one behaviour

(***************************************************************************)
(* "crash"    a pod dies and restarts                                      *)
(* "stop"     a pod is asked to terminate, as in a rolling deployment      *)
(* "db"       a statement returns an error to the pod                      *)
(* "redis"    SetNX returns an error to the pod                            *)
(* "publish"  Publish returns an error; the message may have gone out      *)
(* "lose"     Publish returns no error and the message is lost: the        *)
(*            publisher runs without confirmations                         *)
(* "partial"  the provider accepts the message and the send still returns  *)
(*            an error (a timeout, or a later recipient that fails)        *)
(* "late"     a timer runs out under work that it was meant to outlast     *)
(***************************************************************************)
FaultKinds ==
    {"crash", "stop", "db", "redis", "publish", "lose", "partial", "late"}

ASSUME PodsAssumption == IsFiniteSet(Pods)
ASSUME FaultsAssumption == Faults \subseteq FaultKinds /\ MaxFaults \in Nat

VARIABLES
    sendQ,       \* sendQ[n]: messages for n ready in notifications.send
    retryQ,      \* retryQ[n]: messages for n ready in notifications.retry
    sent,        \* sent[n]: how often a provider accepted n
    faults,      \* how many faults have struck
    struck       \* of which kinds

envVars == <<sendQ, retryQ, sent, faults, struck>>

FaultsOK == faults \in 0 .. MaxFaults /\ struck \subseteq Faults

EnvTypeOK ==
    /\ sendQ \in [Notif -> Nat]
    /\ retryQ \in [Notif -> Nat]
    /\ sent \in [Notif -> Nat]
    /\ FaultsOK

EnvInit ==
    /\ sendQ = [n \in Notif |-> 0]
    /\ retryQ = [n \in Notif |-> 0]
    /\ sent = [n \in Notif |-> 0]
    /\ faults = 0
    /\ struck = {}

Fault(kind) ==
    /\ kind \in Faults /\ faults < MaxFaults
    /\ faults' = faults + 1
    /\ struck' = struck \union {kind}

NoFault == UNCHANGED <<faults, struck>>

\* The message never reaches a queue.
PublishFails == Fault("publish") \/ Fault("lose")

\* What a query with this LIMIT may return when the rows of S match.
LimitedTo(limit, S) ==
    {T \in SUBSET S : IF Cardinality(S) <= limit THEN T = S
                                                 ELSE Cardinality(T) = limit}

Plus(bag, n) == [bag EXCEPT ![n] = @ + 1]
Minus(bag, n) == [bag EXCEPT ![n] = @ - 1]

(***************************************************************************)
(* A consumer of a queue holds at most one message (the subscription has a *)
(* prefetch of one and the handler acknowledges when it returns): "loaded" *)
(* before the send, "sent" and "failed" after it and before the row is     *)
(* written, "acking" once the handler is done with the row.                *)
(***************************************************************************)
Job(pc, n) == [pc |-> pc, n |-> n]
Jobs == [pc : {"loaded", "sent", "failed", "acking"}, n : Notif]
Idle == [pc |-> "idle"]

\* The message the consumer holds is one for n.
Holds(consumer, n) == consumer # Idle /\ consumer.n = n

\* The consumer has still to write the row of n.
Handles(consumer, n) == Holds(consumer, n) /\ consumer.pc # "acking"

(***************************************************************************)
(* What one pass of SendNotification does to the world and what it tells   *)
(* its caller: outcome is the state the consumer goes to.                  *)
(***************************************************************************)
Attempt(n, outcome) ==
    \/ outcome = "sent" /\ sent' = Plus(sent, n) /\ NoFault
    \/ outcome = "failed" /\ sent' = sent /\ NoFault
    \/ outcome = "failed" /\ sent' = Plus(sent, n) /\ Fault("partial")

=============================================================================
