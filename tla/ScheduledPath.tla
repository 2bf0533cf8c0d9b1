---------------------------- MODULE ScheduledPath ----------------------------
(***************************************************************************)
(* EnqueueDueScheduledNotifications, which each pod's ticker runs, and the *)
(* Redis keys (appCache.SetNX) by which the pods keep out of each other's  *)
(* way.                                                                    *)
(***************************************************************************)
EXTENDS Environment

CONSTANTS
    DedupTTL,         \* ScheduledDedupTTLSec, in ticks
    ScheduledBatch    \* ScheduledBatchSize

ASSUME DedupAssumption == DedupTTL \in Nat \ {0}
ASSUME ScheduledBatchAssumption == ScheduledBatch \in Nat \ {0}

VARIABLES
    dedup,       \* dedup[n]: ticks the key scheduled_enqueue:n lives on, 0 if none
    poll         \* poll[p]: the pass of EnqueueDueScheduledNotifications at p

scheduledVars == <<dedup, poll>>

\* rows: found by the query and not yet through the loop.
\* marked: the row whose key this pass has set and that it is publishing.
\* fired: the ticker has fired since the last pass began.  Its channel keeps
\* one firing; without it passes could follow each other with no time between.
Polls == [rows : SUBSET Notif, marked : SUBSET Notif, fired : BOOLEAN]
NoPoll == [rows |-> {}, marked |-> {}, fired |-> FALSE]

ScheduledTypeOK == dedup \in [Notif -> Nat] /\ poll \in [Pods -> Polls]

ScheduledInit ==
    /\ dedup = [n \in Notif |-> 0]
    /\ poll = [p \in Pods |-> NoPoll]

ScheduledDue == {n \in Notif : IsScheduledDue(row[n])}

\* The query orders by scheduled_at, which two past instants no longer tell
\* here: the oldest rows are any rows.
PollScheduled(p) ==
    /\ poll[p] = [NoPoll EXCEPT !.fired = TRUE]
    /\ ScheduledDue # {}
    /\ \E S \in LimitedTo(ScheduledBatch, ScheduledDue) :
          poll' = [poll EXCEPT ![p] = [NoPoll EXCEPT !.rows = S]]
    /\ UNCHANGED <<storeVars, envVars, dedup>>

\* The loop at p is through with n, or goes on to publish the rows of marked.
Looked(p, n, marked) ==
    [poll EXCEPT ![p] = [rows |-> poll[p].rows \ {n}, marked |-> marked,
                         fired |-> poll[p].fired]]

\* Variants with a bug: the key is set without looking whether it exists; the
\* key is set without an expiry (-1).
MarkScheduledAlways(p, n) ==
    /\ poll[p].marked = {}
    /\ n \in poll[p].rows
    /\ NoFault
    /\ dedup' = [dedup EXCEPT ![n] = DedupTTL]
    /\ poll' = Looked(p, n, {n})
    /\ UNCHANGED <<storeVars, sendQ, retryQ, sent>>

MarkScheduledForever(p, n) ==
    /\ poll[p].marked = {}
    /\ n \in poll[p].rows
    /\ NoFault
    /\ dedup' = [dedup EXCEPT ![n] = -1]
    /\ poll' = Looked(p, n, IF dedup[n] = 0 THEN {n} ELSE {})
    /\ UNCHANGED <<storeVars, sendQ, retryQ, sent>>

\* SetNX.  A key that exists, or an error, skips the row; an error may come
\* back from a Redis that has set the key.
MarkScheduled(p, n) ==
    /\ poll[p].marked = {}
    /\ n \in poll[p].rows
    /\ \/ /\ dedup[n] = 0 /\ NoFault
          /\ dedup' = [dedup EXCEPT ![n] = DedupTTL]
          /\ poll' = Looked(p, n, {n})
       \/ /\ dedup[n] > 0 /\ NoFault
          /\ dedup' = dedup
          /\ poll' = Looked(p, n, {})
       \/ /\ dedup[n] = 0 /\ Fault("redis")
          /\ dedup' \in {dedup, [dedup EXCEPT ![n] = DedupTTL]}
          /\ poll' = Looked(p, n, {})
    /\ UNCHANGED <<storeVars, sendQ, retryQ, sent>>

\* A failed Publish is only logged: the key stays and the row waits for it.
PublishScheduled(p, n) ==
    /\ n \in poll[p].marked
    /\ \/ sendQ' = Plus(sendQ, n) /\ NoFault
       \/ sendQ' = sendQ /\ PublishFails
    /\ poll' = [poll EXCEPT ![p].marked = {}]
    /\ UNCHANGED <<storeVars, retryQ, sent, dedup>>

=============================================================================
