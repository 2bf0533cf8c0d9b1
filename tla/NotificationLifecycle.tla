------------------------ MODULE NotificationLifecycle ------------------------
(***************************************************************************)
(* What the pipeline promises for each notification until something fails: *)
(* it is delivered at most once, attempts that fail are counted, a         *)
(* delivered notification ends COMPLETED and no other does, and one whose  *)
(* MaxAttempts attempts all failed ends FAILED.  A decided notification is *)
(* left alone.  No queue, pod, lease or key appears here.                  *)
(***************************************************************************)
EXTENDS Integers

CONSTANTS Notif, MaxAttempts

VARIABLES
    status,      \* status[n]: "ABSENT" until a client asks for n
    attempts,    \* attempts[n]: attempts on record
    delivered,   \* delivered[n]: how often a provider accepted n
    faulty       \* something has failed, and nothing is promised any more

vars == <<status, attempts, delivered, faulty>>

Init ==
    /\ status = [n \in Notif |-> "ABSENT"]
    /\ attempts = [n \in Notif |-> 0]
    /\ delivered = [n \in Notif |-> 0]
    /\ faulty = FALSE

Ask(n) ==
    /\ status[n] = "ABSENT"
    /\ status' = [status EXCEPT ![n] = "PENDING"]
    /\ UNCHANGED <<attempts, delivered>>

Deliver(n) ==
    /\ status[n] = "PENDING"
    /\ delivered[n] = 0
    /\ delivered' = [delivered EXCEPT ![n] = 1]
    /\ UNCHANGED <<status, attempts>>

\* A success counts as an attempt only when it is the first.
Complete(n) ==
    /\ status[n] = "PENDING"
    /\ delivered[n] = 1
    /\ status' = [status EXCEPT ![n] = "COMPLETED"]
    /\ attempts' = [attempts EXCEPT ![n] = IF @ = 0 THEN 1 ELSE @]
    /\ UNCHANGED delivered

Miss(n) ==
    /\ status[n] = "PENDING"
    /\ delivered[n] = 0
    /\ attempts' = [attempts EXCEPT ![n] = @ + 1]
    /\ status' = [status EXCEPT ![n] = IF attempts[n] + 1 = MaxAttempts
                                       THEN "FAILED" ELSE "PENDING"]
    /\ UNCHANGED delivered

Step(n) == Ask(n) \/ Deliver(n) \/ Complete(n) \/ Miss(n)

Next ==
    \/ faulty' = TRUE
    \/ faulty' = faulty /\ \E n \in Notif : Step(n)

Spec == Init /\ [][Next]_vars

=============================================================================
