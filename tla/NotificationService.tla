------------------------- MODULE NotificationService -------------------------
(***************************************************************************)
(* The delivery pipeline: several pods that share one notifications table, *)
(* one broker and one Redis, each running the primary path, the retry path *)
(* and the scheduled path at once.                                         *)
(***************************************************************************)
EXTENDS PrimarySend, RetryPath, ScheduledPath

VARIABLE
    stopping     \* the pods that were asked to terminate and have not yet exited

vars == <<storeVars, envVars, primaryVars, retryVars, scheduledVars, stopping>>

TypeOK ==
    /\ StoreTypeOK
    /\ EnvTypeOK
    /\ PrimaryTypeOK
    /\ RetryTypeOK
    /\ ScheduledTypeOK
    /\ stopping \subseteq Pods

Init ==
    /\ StoreInit
    /\ EnvInit
    /\ PrimaryInit
    /\ RetryInit
    /\ ScheduledInit
    /\ stopping = {}

-----------------------------------------------------------------------------
(* Where a notification is. *)

\* A message for n is queued, or with a consumer that will write the row and
\* whose message the broker keeps for another if it does not.
AwaitsSend(n) ==
    \/ sendQ[n] > 0
    \/ \E p \in Pods \ stopping : Handles(sender[p], n)

\* A primary message for n, or the intent of a scheduled pass to publish one.
SendAt(p, n) == Holds(sender[p], n) \/ n \in poll[p].marked
SendOnItsWay(n) == sendQ[n] > 0 \/ \E p \in Pods : SendAt(p, n)

\* A retry of n whose claim has committed.
RetryToPublish(p, n) == claim[p].pc = "publish" /\ n \in claim[p].rows
RetryAt(p, n) == RetryToPublish(p, n) \/ Holds(retrier[p], n)
RetryOnItsWay(n) == retryQ[n] > 0 \/ \E p \in Pods : RetryAt(p, n)

\* At most one of them at any moment.
SingleSend(n) ==
    /\ sendQ[n] <= 1
    /\ \A p \in Pods : SendAt(p, n) => sendQ[n] = 0
    /\ \A p, q \in Pods : SendAt(p, n) /\ SendAt(q, n) => p = q
    /\ \A p \in Pods : ~(Holds(sender[p], n) /\ n \in poll[p].marked)

SingleRetry(n) ==
    /\ retryQ[n] <= 1
    /\ \A p \in Pods : RetryAt(p, n) => retryQ[n] = 0
    /\ \A p, q \in Pods : RetryAt(p, n) /\ RetryAt(q, n) => p = q
    /\ \A p \in Pods : ~(RetryToPublish(p, n) /\ Holds(retrier[p], n))

-----------------------------------------------------------------------------
(* Time. *)

(***************************************************************************)
(* Not a translation but an assumption on the timing, which no code makes  *)
(* true: work keeps ahead of the timer that was set to cover it.  The      *)
(* request of a scheduled notification is answered before its time comes,  *)
(* a claim commits within its own lease, a retry is over before its lease  *)
(* runs out, and a scheduled send is over before its key expires.  A short *)
(* backoff that a duplicate writes over a lease counts as a lease that ran *)
(* out.  A tick that breaks the assumption is the fault "late".            *)
(***************************************************************************)
Timely ==
    /\ \A p \in Pods :
        /\ \A n \in serving[p] : row[n].scheduledIn # 1
        /\ claim[p].pc = "tx" => claim[p].leaseIn # 1
    /\ \A n \in Notif :
        /\ RetryOnItsWay(n) => row[n].retryIn # 1
        /\ SendOnItsWay(n) \/ (\E p \in Pods : n \in poll[p].rows)
              => dedup[n] # 1

SomeTimerToCome ==
    \/ \E n \in Notif :
          row[n].retryIn > 0 \/ row[n].scheduledIn > 0 \/ dedup[n] > 0
    \/ \E p \in Pods : claim[p].leaseIn > 0 \/ ~poll[p].fired

Tick ==
    /\ SomeTimerToCome
    /\ \/ Timely /\ NoFault
       \/ ~Timely /\ Fault("late")
    /\ row' = [n \in Notif |-> AgeRow(row[n])]
    /\ dedup' = [n \in Notif |-> Earlier(dedup[n])]
    /\ claim' = [p \in Pods |-> [claim[p] EXCEPT !.leaseIn = Earlier(@)]]
    /\ poll' = [p \in Pods |-> [poll[p] EXCEPT !.fired = TRUE]]
    /\ UNCHANGED <<locked, sendQ, retryQ, sent, primaryVars, retrier, stopping>>

-----------------------------------------------------------------------------
(* Pods that stop and pods that die. *)

Busy(p) ==
    \/ serving[p] # {}
    \/ sender[p] # Idle
    \/ claim[p] # NoClaim
    \/ retrier[p] # Idle
    \/ poll[p] # NoPoll

\* The broker requeues a message that is not acknowledged.
Requeue(bag, consumer) ==
    [n \in Notif |-> IF Holds(consumer, n) THEN bag[n] + 1 ELSE bag[n]]

\* The locks after the database has rolled back the transaction of p.
RollBack(p) == IF claim[p].pc = "tx" THEN locked \ claim[p].rows ELSE locked

(***************************************************************************)
(* The OnStop hooks.  The worker contexts are cancelled: an open           *)
(* transaction is rolled back and SetNX fails for the rows left, while     *)
(* Publish takes no context.  Closing the router puts the messages in hand *)
(* back on their queues at once, while their handlers, which have contexts *)
(* of their own, go on to the end.  The servers go on until they are idle. *)
(***************************************************************************)
Stop(p) ==
    /\ p \notin stopping
    /\ Fault("stop")
    /\ stopping' = stopping \union {p}
    /\ sendQ' = Requeue(sendQ, sender[p])
    /\ retryQ' = Requeue(retryQ, retrier[p])
    /\ locked' = RollBack(p)
    /\ claim' = [claim EXCEPT ![p] = IF claim[p].pc = "tx" THEN NoClaim ELSE claim[p]]
    /\ poll' = [poll EXCEPT ![p] = [NoPoll EXCEPT !.marked = poll[p].marked]]
    /\ UNCHANGED <<row, sent, primaryVars, retrier, dedup>>

PlusEach(bag, S) == [n \in Notif |-> IF n \in S THEN bag[n] + 1 ELSE bag[n]]

\* The process of p ends and another takes its place.  Everything p was doing
\* is forgotten; the database rolls its transaction back, and the clients it
\* was serving get no answer.  What it was about to publish for them may just
\* have gone out.  The messages in hand return to their queues, unless they
\* did so when p was asked to stop.
Vanish(p) ==
    /\ request' = [n \in Notif |-> IF n \in serving[p] THEN "broken"
                                                       ELSE request[n]]
    /\ serving' = [serving EXCEPT ![p] = {}]
    /\ \E S \in SUBSET {n \in serving[p] : row[n].scheduledIn <= 0} :
          sendQ' = PlusEach(IF p \in stopping THEN sendQ ELSE Requeue(sendQ, sender[p]), S)
    /\ sender' = [sender EXCEPT ![p] = Idle]
    /\ locked' = RollBack(p)
    /\ claim' = [claim EXCEPT ![p] = NoClaim]
    /\ retryQ' = IF p \in stopping THEN retryQ ELSE Requeue(retryQ, retrier[p])
    /\ retrier' = [retrier EXCEPT ![p] = Idle]
    /\ poll' = [poll EXCEPT ![p] = NoPoll]
    /\ stopping' = stopping \ {p}
    /\ UNCHANGED <<row, sent, dedup>>

\* The hooks are over.  Closing the router waits for the handlers, the servers
\* wait for their requests only so long, and the workers' hooks for nothing:
\* a pass, and a request that takes too long, end where they are.
Exit(p) ==
    /\ p \in stopping
    /\ sender[p] = Idle /\ retrier[p] = Idle
    /\ NoFault
    /\ Vanish(p)

Crash(p) ==
    /\ Busy(p)
    /\ Fault("crash")
    /\ Vanish(p)

-----------------------------------------------------------------------------
(* What a pod does.  One that stops takes no message and begins no pass. *)

Creating(p) ==
    /\ \E n \in Notif, s \in Schedules : CreateRow(p, n, s)
    /\ UNCHANGED <<retryVars, scheduledVars, stopping>>

Answering(p) ==
    /\ \E n \in Notif : FinishRequest(p, n)
    /\ UNCHANGED <<retryVars, scheduledVars, stopping>>

Sending(p) ==
    /\ \/ RecordPrimary(p) \/ AckPrimary(p)
       \/ p \notin stopping /\ \E n \in Notif : SendPrimary(p, n)
    /\ UNCHANGED <<retryVars, scheduledVars, stopping>>

Claiming(p) ==
    /\ \/ p \notin stopping /\ ClaimRetries(p)
       \/ CommitClaim(p) \/ AbortClaim(p)
       \/ \E n \in Notif : PublishRetry(p, n)
    /\ UNCHANGED <<primaryVars, scheduledVars, stopping>>

Retrying(p) ==
    /\ \/ SendRetry(p) \/ RecordRetry(p) \/ AckRetry(p)
       \/ p \notin stopping /\ \E n \in Notif : LoadRetry(p, n)
    /\ UNCHANGED <<primaryVars, scheduledVars, stopping>>

Polling(p) ==
    /\ \/ p \notin stopping /\ PollScheduled(p)
       \/ \E n \in Notif : MarkScheduled(p, n) \/ PublishScheduled(p, n)
    /\ UNCHANGED <<primaryVars, retryVars, stopping>>

PodStep(p) ==
    \/ Creating(p) \/ Answering(p) \/ Sending(p)
    \/ Claiming(p) \/ Retrying(p) \/ Polling(p)
    \/ Stop(p) \/ Exit(p) \/ Crash(p)

Next == Tick \/ \E p \in Pods : PodStep(p)

Spec == Init /\ [][Next]_vars

(***************************************************************************)
(* A pod that has work goes on with it, one that was asked to terminate    *)
(* exits when its handlers are done, tickers fire, and time passes.        *)
(* Nothing makes a client send a request.  Consumers are given strong      *)
(* fairness: a row lock may come and go while they wait to write, and the  *)
(* database serves those who wait in turn.                                 *)
(***************************************************************************)
FairSpec ==
    /\ Spec
    /\ WF_vars(Tick)
    /\ \A p \in Pods :
        /\ WF_vars(Answering(p))
        /\ SF_vars(Sending(p))
        /\ WF_vars(Claiming(p))
        /\ SF_vars(Retrying(p))
        /\ WF_vars(Polling(p))
        /\ WF_vars(Exit(p))

-----------------------------------------------------------------------------
(* Safety under every fault. *)

\* The claim protocol: a transaction holds locks on rows no other transaction
\* holds, and those rows are still due when it writes their lease, whatever
\* the consumers of other pods do meanwhile (EnqueuePendingRetries).
ClaimsAreExclusive ==
    /\ \A p \in Pods : claim[p].pc = "tx" =>
          \A n \in claim[p].rows : n \in locked /\ IsRetryDue(row[n])
    /\ \A p, q \in Pods :
          p # q /\ claim[p].pc = "tx" /\ claim[q].pc = "tx"
             => claim[p].rows \cap claim[q].rows = {}

\* A row is marked COMPLETED only for a notification a provider accepted,
\* however often its messages are duplicated, redelivered or lost.
CompletedWasSent ==
    \A n \in Notif : row[n].status = "COMPLETED" => sent[n] > 0

\* A row that is still PENDING has attempts left, so that a retry can still
\* find it, and a row is FAILED only when its attempts are spent.
StatusMatchesAttempts ==
    \A n \in Notif :
        /\ row[n].status = "PENDING" => row[n].attempts < MaxAttempts
        /\ row[n].status = "FAILED" => row[n].attempts >= MaxAttempts

-----------------------------------------------------------------------------
(* Safety until a fault of certain kinds has struck. *)

Spared(kinds) == struck \cap kinds = {}

Decided(n) == row[n].status \in {"COMPLETED", "FAILED"}

\* What the lease promises: while a retry is on its way, from the commit of
\* its claim to its acknowledgement, no pod finds the row due, and the row
\* never has a second retry on its way.  Crashes, failed statements and lost
\* messages do not break it; a timer that is late does, and so does a pod
\* asked to stop, whose message is delivered again while its handler goes on.
LeaseCoversRetry ==
    Spared({"late", "stop"}) =>
        \A n \in Notif :
            /\ SingleRetry(n)
            /\ RetryOnItsWay(n) => ~IsRetryDue(row[n])

\* What the dedup key and the division of labour between the request and the
\* scheduled worker promise to clients who do not ask for the past: one
\* primary message for a notification at a time.
SingleSendInFlight ==
    0 \notin Schedules /\ Spared({"late", "stop"}) =>
        \A n \in Notif : SingleSend(n)

\* The client of n was told that n is accepted, and no attempt was made yet
\* although n is to be sent at once.
ToBeSent(n) ==
    /\ request[n] = "accepted"
    /\ row[n].status = "PENDING" /\ row[n].attempts = 0
    /\ row[n].scheduledIn = NoTime

\* A notification that was accepted is not forgotten.  The row of a request
\* whose Publish failed may well be, but its client was told of an error.
NoAcceptedLoss ==
    Spared({"db", "lose"}) => \A n \in Notif : ToBeSent(n) => AwaitsSend(n)

\* A request for an immediate notification that is refused, because Create
\* returned an error though it committed, leaves a PENDING row behind; no
\* query ever picks that row up, so what the client was told stays true.
RefusedIsNotSent ==
    Spared({"publish"}) =>
        \A n \in Notif :
            request[n] = "rejected" /\ row[n].scheduledIn = NoTime
                => sent[n] = 0

\* Each delivery of a notification beyond the first is paid for by a fault.
DuplicatesCostFaults == 0 \notin Schedules => \A n \in Notif : sent[n] <= 1 + 2 * faults

\* RecordSendFailure and the updates after a success look at nothing: what
\* keeps them from moving a row that was decided meanwhile is that at most one
\* message for it is about, of the kind the row calls for.  Failures of the
\* database, of Redis, of Publish and of a provider do not change that.  A
\* crash does, whose message is delivered again, and so do a stop, a timer
\* that is late, and a schedule in the past.
DecidedIsFinal ==
    [][0 \notin Schedules /\ Spared({"crash", "stop", "late"}) =>
        \A n \in Notif : Decided(n) => /\ row'[n].status = row[n].status
                                      /\ row'[n].attempts = row[n].attempts]_vars

-----------------------------------------------------------------------------
(* What holds until something fails. *)

Lifecycle == INSTANCE NotificationLifecycle WITH
    status <- [n \in Notif |-> row[n].status],
    attempts <- [n \in Notif |-> row[n].attempts],
    delivered <- sent,
    faulty <- struck # {}

\* Until the first fault, and as long as nobody asks for the past, the whole
\* pipeline does for each notification what NotificationLifecycle says: one
\* delivery at the most, every failed attempt on record, and no change once
\* it is decided.
ImplementsLifecycle == Lifecycle!Spec

-----------------------------------------------------------------------------
(* Liveness. *)

\* Whatever strikes, finitely often, a row that has failed once and has
\* attempts left is retried until it is COMPLETED or FAILED: a retry that is
\* lost on the way comes back when its lease has run out.
RetryableIsDecided ==
    \A n \in Notif : IsRetryTarget(row[n]) ~> Decided(n)

\* Whatever strikes, finitely often, a scheduled notification is decided in
\* the end: a send that is lost comes back when its dedup key has expired.
ScheduledIsDecided ==
    \A n \in Notif :
        (row[n].status = "PENDING" /\ row[n].scheduledIn # NoTime) ~> Decided(n)

\* A notification that was accepted from its client is decided in the end,
\* unless a message or the record of a failed attempt is lost.
AcceptedIsDecided ==
    \A n \in Notif :
        request[n] = "accepted" ~> Decided(n) \/ ~Spared({"db", "lose"})

-----------------------------------------------------------------------------
(* What a comment and the README say. *)

\* A provider is handed a notification only while its row is PENDING: repeated
\* messages do no harm because the state in the database is looked at.
SendsOnlyWhilePending ==
    [][\A n \in Notif : sent'[n] > sent[n] => row[n].status = "PENDING"]_vars

\* A failed send is committed for later handling: whatever fails, something is
\* left that will send an accepted notification.
FailureIsHandledLater == \A n \in Notif : ToBeSent(n) => AwaitsSend(n)

=============================================================================
