------------------------------ MODULE RetryPath ------------------------------
(***************************************************************************)
(* The retry path: EnqueuePendingRetries, which each pod's ticker runs, and*)
(* ProcessNotificationRetryFromQueue, the consumer of notifications.retry. *)
(***************************************************************************)
EXTENDS Environment

CONSTANTS
    PublishLease,     \* RetryPublishLeaseSec, in ticks
    RetryBatch        \* RetryBatchSize

ASSUME LeaseAssumption == PublishLease \in Nat \ {0}
ASSUME RetryBatchAssumption == RetryBatch \in Nat \ {0}

VARIABLES
    claim,       \* claim[p]: the pass of EnqueuePendingRetries at p
    retrier      \* retrier[p]: the consumer of notifications.retry at p

retryVars == <<claim, retrier>>

\* A pass first holds rows in a transaction ("tx"), then publishes them.
\* leaseIn is the instant leaseUntil, computed before the transaction and of
\* no more use after it.
Claims == [pc : {"idle", "tx", "publish"}, rows : SUBSET Notif, leaseIn : Nat]
NoClaim == [pc |-> "idle", rows |-> {}, leaseIn |-> 0]

RetryTypeOK ==
    /\ claim \in [Pods -> Claims]
    /\ retrier \in [Pods -> {Idle} \union Jobs]

RetryInit ==
    /\ claim = [p \in Pods |-> NoClaim]
    /\ retrier = [p \in Pods |-> Idle]

-----------------------------------------------------------------------------
(* EnqueuePendingRetries. *)

\* Variant with a bug: the query neither skips nor waits for locked rows.
ClaimableLockedToo == {n \in Notif : IsRetryDue(row[n])}

\* The rows SKIP LOCKED leaves to this transaction.
Claimable == {n \in Notif \ locked : IsRetryDue(row[n])}

ClaimRetries(p) ==
    /\ claim[p].pc = "idle"
    /\ Claimable # {}
    /\ \E S \in LimitedTo(RetryBatch, Claimable) :
        /\ locked' = locked \union S
        /\ claim' = [claim EXCEPT ![p] =
                        [pc |-> "tx", rows |-> S, leaseIn |-> PublishLease]]
    /\ UNCHANGED <<row, envVars, retrier>>

LeaseRows(S, lease) ==
    row' = [n \in Notif |-> IF n \in S THEN Leased(row[n], lease) ELSE row[n]]

CommitClaim(p) ==
    /\ claim[p].pc = "tx"
    /\ LeaseRows(claim[p].rows, claim[p].leaseIn)
    /\ locked' = locked \ claim[p].rows
    /\ claim' = [claim EXCEPT ![p] =
                    [pc |-> "publish", rows |-> claim[p].rows, leaseIn |-> 0]]
    /\ UNCHANGED <<envVars, retrier>>

\* The transaction returns an error, rolled back or committed all the same.
AbortClaim(p) ==
    /\ claim[p].pc = "tx"
    /\ Fault("db")
    /\ row' = row \/ LeaseRows(claim[p].rows, claim[p].leaseIn)
    /\ locked' = locked \ claim[p].rows
    /\ claim' = [claim EXCEPT ![p] = NoClaim]
    /\ UNCHANGED <<sendQ, retryQ, sent, retrier>>

\* The pass is over when its last row is out of the way.
Without(c, n) ==
    IF c.rows = {n} THEN NoClaim ELSE [c EXCEPT !.rows = @ \ {n}]

\* One iteration of the publishing loop; a failed Publish is only logged.
PublishRetry(p, n) ==
    /\ claim[p].pc = "publish"
    /\ n \in claim[p].rows
    /\ \/ retryQ' = Plus(retryQ, n) /\ NoFault
       \/ retryQ' = retryQ /\ PublishFails
    /\ claim' = [claim EXCEPT ![p] = Without(claim[p], n)]
    /\ UNCHANGED <<storeVars, sendQ, sent, retrier>>

-----------------------------------------------------------------------------
(* ProcessNotificationRetryFromQueue. *)

\* FindOneById and the checks on the row.  FindOneById returns nil for an
\* error as well as for a missing row, and the message is dropped.
LoadRetry(p, n) ==
    /\ retrier[p] = Idle
    /\ retryQ[n] > 0
    /\ retryQ' = Minus(retryQ, n)
    /\ \/ /\ IsRetryTarget(row[n]) /\ NoFault
          /\ retrier' = [retrier EXCEPT ![p] = Job("loaded", n)]
       \/ /\ ~IsRetryTarget(row[n]) /\ NoFault
          /\ retrier' = [retrier EXCEPT ![p] = Job("acking", n)]
       \/ /\ Fault("db")
          /\ retrier' = [retrier EXCEPT ![p] = Job("acking", n)]
    /\ UNCHANGED <<storeVars, sendQ, sent, claim>>

SendRetry(p) ==
    /\ retrier[p].pc = "loaded"
    /\ \E outcome \in {"sent", "failed"} :
        /\ Attempt(retrier[p].n, outcome)
        /\ retrier' = [retrier EXCEPT ![p].pc = outcome]
    /\ UNCHANGED <<storeVars, sendQ, retryQ, claim>>

\* Variant with a bug: the error of the send is not looked at.
RecordRetryAsSuccess(p) ==
    /\ retrier[p].pc \in {"sent", "failed"}
    /\ LET n == retrier[p].n IN
        \/ /\ n \notin locked /\ NoFault
           /\ row' = [row EXCEPT ![n] = AfterRetrySuccess(@)]
        \/ Fault("db") /\ row' = row
    /\ retrier' = [retrier EXCEPT ![p].pc = "acking"]
    /\ UNCHANGED <<locked, sendQ, retryQ, sent, claim>>

\* The row may have changed since LoadRetry; the write does not look at it.
RecordRetry(p) ==
    /\ retrier[p].pc \in {"sent", "failed"}
    /\ LET n == retrier[p].n IN
        \/ /\ n \notin locked /\ NoFault
           /\ row' = [row EXCEPT ![n] =
                        IF retrier[p].pc = "sent" THEN AfterRetrySuccess(@)
                                                  ELSE AfterSendFailure(@)]
        \/ Fault("db") /\ row' = row
    /\ retrier' = [retrier EXCEPT ![p].pc = "acking"]
    /\ UNCHANGED <<locked, sendQ, retryQ, sent, claim>>

AckRetry(p) ==
    /\ retrier[p].pc = "acking"
    /\ retrier' = [retrier EXCEPT ![p] = Idle]
    /\ UNCHANGED <<storeVars, envVars, claim>>

=============================================================================
