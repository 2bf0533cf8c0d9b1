---------------------------- MODULE InFlightProofs ----------------------------
(***************************************************************************)
(* Proofs about the messages of NotificationService: which notifications   *)
(* have one on its way, how many, and how many deliveries they can still   *)
(* lead to, for every number of pods and of notifications, every           *)
(* configuration and any number of faults.                                 *)
(***************************************************************************)
EXTENDS NotificationServiceProofs, FiniteSetTheorems

-----------------------------------------------------------------------------
(* Notifications that nothing is under way for. *)

Unserved(n) == \A p \in Pods : n \notin serving[p]

\* No message for n exists and no pass or consumer has it in hand.
Quiet(n) ==
    /\ sent[n] = 0 /\ sendQ[n] = 0 /\ retryQ[n] = 0
    /\ row[n].attempts = 0 /\ row[n].scheduledIn = NoTime
    /\ Unserved(n)
    /\ \A p \in Pods :
        /\ ~Holds(sender[p], n) /\ ~Holds(retrier[p], n)
        /\ n \notin claim[p].rows
        /\ n \notin poll[p].rows /\ n \notin poll[p].marked

Created(n) ==
    /\ \E p \in Pods, s \in Schedules : CreateRow(p, n, s)
    /\ UNCHANGED <<retryVars, scheduledVars, stopping>>

LEMMA QuietStays ==
    ASSUME TypeOK, NEW n \in Notif, Quiet(n), [Next]_vars, ~Created(n)
    PROVE  Quiet(n)'
  <1>0. /\ row \in [Notif -> Rows] /\ locked \subseteq Notif
        /\ sent \in [Notif -> Nat] /\ sendQ \in [Notif -> Nat]
        /\ retryQ \in [Notif -> Nat]
        /\ serving \in [Pods -> SUBSET Notif]
        /\ sender \in [Pods -> {Idle} \union Jobs]
        /\ retrier \in [Pods -> {Idle} \union Jobs]
        /\ claim \in [Pods -> Claims] /\ poll \in [Pods -> Polls]
    BY DEF TypeOK, StoreTypeOK, EnvTypeOK, PrimaryTypeOK, RetryTypeOK, ScheduledTypeOK
  <1>1. ASSUME NEW p \in Pods, Creating(p)
        PROVE  Quiet(n)'
    <2>1. PICK m \in Notif, s \in Schedules : CreateRow(p, m, s)
      BY <1>1 DEF Creating
    <2>2. m # n
      BY <1>1, <2>1 DEF Creating, Created
    <2>3. /\ row'[n] = row[n]
          /\ Unserved(n)'
          /\ UNCHANGED <<sendQ, retryQ, sent, sender, retryVars, scheduledVars>>
      BY <1>0, <1>1, <2>1, <2>2 DEF Creating, CreateRow, Quiet, Unserved
    <2> QED
      BY <2>3 DEF Quiet, retryVars, scheduledVars
  <1>2. ASSUME NEW p \in Pods, Answering(p)
        PROVE  Quiet(n)'
    <2>1. PICK m \in Notif : FinishRequest(p, m)
      BY <1>2 DEF Answering
    <2>2. m # n
      BY <2>1 DEF FinishRequest, Quiet, Unserved
    <2>3. sendQ'[n] = sendQ[n] /\ Unserved(n)'
      BY <1>0, <2>1, <2>2 DEF FinishRequest, Plus, Answer, Quiet, Unserved
    <2> QED
      BY <1>2, <2>1, <2>3 DEF Answering, FinishRequest, Quiet, retryVars, scheduledVars
  <1>3. ASSUME NEW p \in Pods, Sending(p)
        PROVE  Quiet(n)'
    <2>1. ASSUME NEW m \in Notif, SendPrimary(p, m)
          PROVE  /\ sent'[n] = sent[n] /\ sendQ'[n] = sendQ[n] /\ row' = row
                 /\ \A q \in Pods : ~Holds(sender'[q], n)
      <3>1. m # n
        BY <2>1 DEF SendPrimary, Quiet
      <3>2. PICK outcome \in {"sent", "failed"} :
               Attempt(m, outcome) /\ sender' = [sender EXCEPT ![p] = Job(outcome, m)]
        BY <2>1 DEF SendPrimary
      <3>3. sent'[n] = sent[n]
        BY <1>0, <3>1, <3>2 DEF Attempt, Plus
      <3>4. \A q \in Pods : ~Holds(sender'[q], n)
        BY <1>0, <3>1, <3>2 DEF Quiet, Holds, Job
      <3> QED
        BY <1>0, <2>1, <3>1, <3>3, <3>4 DEF SendPrimary, Minus
    <2>2. ASSUME RecordPrimary(p) \/ AckPrimary(p)
          PROVE  /\ sent'[n] = sent[n] /\ sendQ'[n] = sendQ[n] /\ row'[n] = row[n]
                 /\ \A q \in Pods : ~Holds(sender'[q], n)
      <3>1. sender[p] # Idle /\ sender[p].n # n
        BY <2>2 DEF RecordPrimary, AckPrimary, Quiet, Holds, Idle
      <3> QED
        BY <1>0, <2>2, <3>1
        DEF RecordPrimary, AckPrimary, Quiet, Holds, Job, envVars
    <2> QED
      BY <1>3, <2>1, <2>2
      DEF Sending, SendPrimary, RecordPrimary, AckPrimary, Quiet, Unserved, envVars,
          retryVars, scheduledVars
  <1>4. ASSUME NEW p \in Pods, Claiming(p)
        PROVE  Quiet(n)'
    <2>1. CASE ClaimRetries(p)
      <3>1. PICK S \in LimitedTo(RetryBatch, Claimable) :
               claim' = [claim EXCEPT ![p] =
                            [pc |-> "tx", rows |-> S, leaseIn |-> PublishLease]]
        BY <2>1 DEF ClaimRetries
      <3>2. n \notin S
        BY DEF LimitedTo, Claimable, IsRetryDue, IsRetryTarget, Quiet
      <3>3. \A q \in Pods : n \notin claim'[q].rows
        BY <1>0, <3>1, <3>2 DEF Quiet
      <3> QED
        BY <1>4, <2>1, <3>3
        DEF Claiming, ClaimRetries, Quiet, Unserved, envVars, primaryVars, scheduledVars
    <2>2. CASE CommitClaim(p) \/ AbortClaim(p)
      <3>1. row'[n] = row[n]
        BY <1>0, <2>2 DEF CommitClaim, AbortClaim, LeaseRows, Quiet
      <3>2. \A q \in Pods : n \notin claim'[q].rows
        BY <1>0, <2>2 DEF CommitClaim, AbortClaim, NoClaim, Quiet
      <3> QED
        BY <1>4, <2>2, <3>1, <3>2
        DEF Claiming, CommitClaim, AbortClaim, Quiet, Unserved, envVars, primaryVars,
            scheduledVars
    <2>3. ASSUME NEW m \in Notif, PublishRetry(p, m)
          PROVE  Quiet(n)'
      <3>1. m # n
        BY <2>3 DEF PublishRetry, Quiet
      <3>2. retryQ'[n] = retryQ[n]
        BY <1>0, <2>3, <3>1 DEF PublishRetry, Plus
      <3>3. \A q \in Pods : n \notin claim'[q].rows
        BY <1>0, <2>3 DEF PublishRetry, Without, NoClaim, Claims, Quiet
      <3> QED
        BY <1>4, <2>3, <3>2, <3>3
        DEF Claiming, PublishRetry, Quiet, Unserved, storeVars, primaryVars, scheduledVars
    <2> QED
      BY <1>4, <2>1, <2>2, <2>3 DEF Claiming
  <1>5. ASSUME NEW p \in Pods, Retrying(p)
        PROVE  Quiet(n)'
    <2>1. ASSUME NEW m \in Notif, LoadRetry(p, m)
          PROVE  Quiet(n)'
      <3>1. m # n
        BY <2>1 DEF LoadRetry, Quiet
      <3>2. retryQ'[n] = retryQ[n]
        BY <1>0, <2>1, <3>1 DEF LoadRetry, Minus
      <3>3. \A q \in Pods : ~Holds(retrier'[q], n)
        BY <1>0, <2>1, <3>1 DEF LoadRetry, Job, Holds, Quiet
      <3> QED
        BY <1>5, <2>1, <3>2, <3>3
        DEF Retrying, LoadRetry, Quiet, Unserved, storeVars, primaryVars, scheduledVars
    <2>2. CASE SendRetry(p) \/ RecordRetry(p) \/ AckRetry(p)
      <3>1. retrier[p] \in Jobs /\ retrier[p].n # n
        BY <1>0, <2>2 DEF SendRetry, RecordRetry, AckRetry, Idle, Quiet, Holds
      <3>2. \A q \in Pods : ~Holds(retrier'[q], n)
        BY <1>0, <2>2, <3>1
        DEF SendRetry, RecordRetry, AckRetry, Jobs, Holds, Quiet
      <3>3. row'[n] = row[n]
        BY <1>0, <2>2, <3>1 DEF SendRetry, RecordRetry, AckRetry, storeVars
      <3>4. sent'[n] = sent[n]
        BY <1>0, <2>2, <3>1
        DEF SendRetry, RecordRetry, AckRetry, Attempt, Plus, Jobs, envVars
      <3> QED
        BY <1>5, <2>2, <3>2, <3>3, <3>4
        DEF Retrying, SendRetry, RecordRetry, AckRetry, Quiet, Unserved, envVars,
            primaryVars, scheduledVars
    <2> QED
      BY <1>5, <2>1, <2>2 DEF Retrying
  <1>6. ASSUME NEW p \in Pods, Polling(p)
        PROVE  Quiet(n)'
    <2>1. CASE PollScheduled(p)
      <3>1. PICK S \in LimitedTo(ScheduledBatch, ScheduledDue) :
               poll' = [poll EXCEPT ![p] = [NoPoll EXCEPT !.rows = S]]
        BY <2>1 DEF PollScheduled
      <3>2. n \notin S
        BY DEF LimitedTo, ScheduledDue, IsScheduledDue, Quiet, NoTime
      <3>3. \A q \in Pods : n \notin poll'[q].rows /\ n \notin poll'[q].marked
        BY <1>0, <3>1, <3>2 DEF Quiet, NoPoll
      <3> QED
        BY <1>6, <2>1, <3>3
        DEF Polling, PollScheduled, Quiet, Unserved, storeVars, envVars, primaryVars,
            retryVars
    <2>2. ASSUME NEW m \in Notif, MarkScheduled(p, m) \/ PublishScheduled(p, m)
          PROVE  Quiet(n)'
      <3>1. m # n
        BY <2>2 DEF MarkScheduled, PublishScheduled, Quiet
      <3>2. sendQ'[n] = sendQ[n]
        BY <1>0, <2>2, <3>1 DEF MarkScheduled, PublishScheduled, Plus
      <3>3. \A q \in Pods : n \notin poll'[q].rows /\ n \notin poll'[q].marked
        BY <1>0, <2>2, <3>1 DEF MarkScheduled, Looked, PublishScheduled, Polls, Quiet
      <3> QED
        BY <1>6, <2>2, <3>2, <3>3
        DEF Polling, MarkScheduled, PublishScheduled, Quiet, Unserved, storeVars,
            primaryVars, retryVars
    <2> QED
      BY <1>6, <2>1, <2>2 DEF Polling
  <1>7. CASE Tick
    <2>1. row'[n].attempts = 0 /\ row'[n].scheduledIn = NoTime
      BY <1>0, <1>7, AgedRow DEF Tick, Earlier, Quiet, NoTime
    <2>2. \A q \in Pods : /\ claim'[q].rows = claim[q].rows
                          /\ poll'[q].rows = poll[q].rows
                          /\ poll'[q].marked = poll[q].marked
      BY <1>0, <1>7 DEF Tick, Claims, Polls
    <2> QED
      BY <1>7, <2>1, <2>2 DEF Tick, Quiet, Unserved, primaryVars
  <1>8. ASSUME NEW p \in Pods, Stop(p)
        PROVE  Quiet(n)'
    <2>1. sendQ'[n] = sendQ[n] /\ retryQ'[n] = retryQ[n]
      BY <1>0, <1>8 DEF Stop, Requeue, Quiet
    <2>2. \A q \in Pods : n \notin claim'[q].rows
      BY <1>0, <1>8 DEF Stop, NoClaim, Quiet
    <2>3. \A q \in Pods : n \notin poll'[q].rows /\ n \notin poll'[q].marked
      BY <1>0, <1>8 DEF Stop, NoPoll, Quiet
    <2> QED
      BY <1>8, <2>1, <2>2, <2>3 DEF Stop, Quiet, Unserved, primaryVars
  <1>9. ASSUME NEW p \in Pods, Vanish(p)
        PROVE  Quiet(n)'
    <2>1. sendQ'[n] = sendQ[n] /\ retryQ'[n] = retryQ[n]
      BY <1>0, <1>9 DEF Vanish, Requeue, PlusEach, Quiet, Unserved
    <2>2. \A q \in Pods : n \notin claim'[q].rows
      BY <1>0, <1>9 DEF Vanish, NoClaim, Quiet
    <2>3. \A q \in Pods : n \notin poll'[q].rows /\ n \notin poll'[q].marked
      BY <1>0, <1>9 DEF Vanish, NoPoll, Quiet
    <2>4. \A q \in Pods : ~Holds(sender'[q], n) /\ ~Holds(retrier'[q], n)
      BY <1>0, <1>9 DEF Vanish, Holds, Quiet
    <2>5. Unserved(n)'
      BY <1>0, <1>9 DEF Vanish, Quiet, Unserved
    <2> QED
      BY <1>9, <2>1, <2>2, <2>3, <2>4, <2>5 DEF Vanish, Quiet
  <1>10. CASE UNCHANGED vars
    BY <1>10
    DEF vars, Quiet, Unserved, storeVars, envVars, primaryVars, retryVars,
        scheduledVars
  <1> QED
    BY <1>1, <1>2, <1>3, <1>4, <1>5, <1>6, <1>7, <1>8, <1>9, <1>10
    DEF Next, PodStep, Exit, Crash

-----------------------------------------------------------------------------
(* What steps do to rows, requests and the record of faults. *)

LEMMA RowHistory ==
    ASSUME TypeOK, [Next]_vars, NEW n \in Notif, row[n].status # "ABSENT"
    PROVE  /\ row'[n].status # "ABSENT"
           /\ row'[n].status = "PENDING" => row[n].status = "PENDING"
           /\ row[n].attempts >= 1 => row'[n].attempts >= 1
           /\ row'[n].scheduledIn \in {row[n].scheduledIn, Earlier(row[n].scheduledIn)}
  <1>0. row[n] \in Rows
    BY DEF TypeOK, StoreTypeOK
  <1>1. CASE RowKept(n)
    BY <1>1 DEF RowKept
  <1>2. CASE RowAged(n)
    BY <1>0, <1>2, AgedRow DEF RowAged
  <1>3. CASE RowLeased(n)
    BY <1>0, <1>3 DEF RowLeased, Leased, Rows
  <1>4. CASE RowFailed(n)
    BY <1>0, <1>4 DEF RowFailed, AfterSendFailure, Rows
  <1>5. CASE RowCompleted(n)
    BY <1>0, <1>5, WrittenRow DEF RowCompleted
  <1> QED
    BY <1>1, <1>2, <1>3, <1>4, <1>5, RowChanges DEF RowChange, RowCreated

LEMMA AbsentBefore ==
    ASSUME TypeOK, [Next]_vars, NEW n \in Notif, row'[n].status = "ABSENT"
    PROVE  row[n].status = "ABSENT" /\ ~Created(n)
  <1>1. row[n].status = "ABSENT"
    BY RowHistory
  <1>2. ASSUME NEW p \in Pods, NEW s \in Schedules, CreateRow(p, n, s)
        PROVE  FALSE
    <2>1. row'[n] = NewRow(s)
      BY <1>2 DEF CreateRow, TypeOK, StoreTypeOK
    <2> QED
      BY <2>1 DEF NewRow, NoRow
  <1> QED
    BY <1>1, <1>2 DEF Created

LEMMA RequestHistory ==
    ASSUME TypeOK, [Next]_vars, NEW n \in Notif
    PROVE  \/ request'[n] = request[n]
           \/ request'[n] = "broken" /\ ~Unserved(n)
           \/ Created(n) \/ \E p \in Pods : FinishRequest(p, n)
  <1>0. request \in [Notif -> {"none", "open", "accepted", "rejected", "broken"}]
    BY DEF TypeOK, PrimaryTypeOK
  <1>1. ASSUME NEW p \in Pods, Creating(p)
        PROVE  request'[n] = request[n] \/ Created(n)
    BY <1>0, <1>1 DEF Creating, CreateRow, Created
  <1>2. ASSUME NEW p \in Pods, Answering(p)
        PROVE  request'[n] = request[n] \/ FinishRequest(p, n)
    <2>1. PICK m \in Notif : FinishRequest(p, m)
      BY <1>2 DEF Answering
    <2>2. CASE m # n
      BY <1>0, <2>1, <2>2 DEF FinishRequest, Answer
    <2> QED
      BY <2>1, <2>2
  <1>3. ASSUME NEW p \in Pods, Sending(p) \/ Claiming(p) \/ Retrying(p) \/ Polling(p)
        PROVE  request' = request
    BY <1>3
    DEF Sending, SendPrimary, RecordPrimary, AckPrimary, Claiming, Retrying, Polling,
        primaryVars
  <1>4. ASSUME NEW p \in Pods, Stop(p)
        PROVE  request' = request
    BY <1>4 DEF Stop, primaryVars
  <1>5. ASSUME NEW p \in Pods, Vanish(p)
        PROVE  \/ request'[n] = request[n]
               \/ request'[n] = "broken" /\ ~Unserved(n)
    <2>1. CASE n \in serving[p]
      BY <1>5, <2>1 DEF Vanish, Unserved
    <2>2. CASE n \notin serving[p]
      BY <1>5, <2>2 DEF Vanish
    <2> QED
      BY <2>1, <2>2
  <1>6. CASE Tick \/ UNCHANGED vars
    BY <1>6 DEF Tick, vars, primaryVars
  <1> QED
    BY <1>1, <1>2, <1>3, <1>4, <1>5, <1>6 DEF Next, PodStep, Exit, Crash

LEMMA StruckGrows ==
    ASSUME [Next]_vars
    PROVE  struck \subseteq struck'
  <1> USE DEF Fault, NoFault
  <1>1. CASE Tick \/ UNCHANGED vars
    BY <1>1 DEF Tick, vars, envVars
  <1>2. ASSUME NEW p \in Pods, Creating(p) \/ Answering(p) \/ Sending(p)
        PROVE  struck \subseteq struck'
    BY <1>2
    DEF Creating, Answering, Sending, CreateRow, FinishRequest, SendPrimary,
        RecordPrimary, AckPrimary, Attempt, envVars
  <1>3. ASSUME NEW p \in Pods, Claiming(p)
        PROVE  struck \subseteq struck'
    BY <1>3
    DEF Claiming, ClaimRetries, CommitClaim, AbortClaim, PublishRetry, PublishFails,
        envVars
  <1>4. ASSUME NEW p \in Pods, Retrying(p)
        PROVE  struck \subseteq struck'
    BY <1>4
    DEF Retrying, LoadRetry, SendRetry, RecordRetry, AckRetry, Attempt, envVars
  <1>5. ASSUME NEW p \in Pods, Polling(p)
        PROVE  struck \subseteq struck'
    BY <1>5
    DEF Polling, PollScheduled, MarkScheduled, PublishScheduled, PublishFails, envVars
  <1>6. ASSUME NEW p \in Pods, Stop(p) \/ Exit(p) \/ Crash(p)
        PROVE  struck \subseteq struck'
    BY <1>6 DEF Stop, Exit, Crash, Vanish, envVars
  <1> QED
    BY <1>1, <1>2, <1>3, <1>4, <1>5, <1>6 DEF Next, PodStep

\* What has been spared is spared before, and no fault of the kind strikes.
LEMMA SparedBefore ==
    ASSUME [Next]_vars, NEW kinds, Spared(kinds)'
    PROVE  Spared(kinds) /\ \A k \in kinds : ~Fault(k)
  BY StruckGrows DEF Spared, Fault

-----------------------------------------------------------------------------
(* Refused requests. *)

\* The inductive invariant behind RefusedIsNotSent: nothing is under way for a
\* notification that does not exist or was refused.
FreshInv ==
    \A n \in Notif :
        /\ row[n].status = "ABSENT" => Quiet(n) /\ request[n] = "none"
        /\ /\ Spared({"publish"})
           /\ request[n] = "rejected" /\ row[n].scheduledIn = NoTime
           => Quiet(n)

LEMMA InitFresh == Init => FreshInv
  <1> SUFFICES ASSUME Init, NEW n \in Notif
               PROVE  Quiet(n) /\ request[n] = "none"
    BY DEF FreshInv
  <1>1. /\ row[n].attempts = 0 /\ row[n].scheduledIn = NoTime
        /\ sent[n] = 0 /\ sendQ[n] = 0 /\ retryQ[n] = 0 /\ request[n] = "none"
    BY DEF Init, StoreInit, EnvInit, PrimaryInit, NoRow
  <1>2. ASSUME NEW p \in Pods
        PROVE  /\ serving[p] = {} /\ sender[p] = Idle /\ retrier[p] = Idle
               /\ claim[p].rows = {} /\ poll[p].rows = {} /\ poll[p].marked = {}
    BY DEF Init, PrimaryInit, RetryInit, ScheduledInit, NoClaim, NoPoll
  <1> QED
    BY <1>1, <1>2 DEF Quiet, Unserved, Holds

LEMMA AbsentStep ==
    ASSUME TypeOK, FreshInv, [Next]_vars, NEW n \in Notif, row'[n].status = "ABSENT"
    PROVE  Quiet(n)' /\ request'[n] = "none"
  <1>1. row[n].status = "ABSENT" /\ ~Created(n)
    BY AbsentBefore
  <1>2. Quiet(n) /\ request[n] = "none"
    BY <1>1 DEF FreshInv
  <1>3. ASSUME NEW p \in Pods, FinishRequest(p, n)
        PROVE  FALSE
    BY <1>2, <1>3 DEF FinishRequest, Quiet, Unserved
  <1> QED
    BY <1>1, <1>2, <1>3, QuietStays, RequestHistory DEF Quiet

LEMMA RefusedStep ==
    ASSUME TypeOK, FreshInv, [Next]_vars, NEW n \in Notif,
           Spared({"publish"})', request'[n] = "rejected", row'[n].scheduledIn = NoTime
    PROVE  Quiet(n)'
  <1>0. /\ row \in [Notif -> Rows]
        /\ request \in [Notif -> {"none", "open", "accepted", "rejected", "broken"}]
    BY DEF TypeOK, StoreTypeOK, PrimaryTypeOK
  <1>a. Spared({"publish"}) /\ ~Fault("publish")
    BY SparedBefore
  <1>1. CASE request[n] = "rejected"
    <2>1. row[n].status # "ABSENT"
      BY <1>1 DEF FreshInv
    <2>2. ~Created(n)
      BY <2>1 DEF Created, CreateRow
    <2>3. row[n].scheduledIn = NoTime
      BY <1>0, <2>1, RowHistory DEF Rows, Times, Earlier, NoTime
    <2> QED
      BY <1>1, <1>a, <2>2, <2>3, QuietStays DEF FreshInv
  <1>2. ASSUME NEW p \in Pods, NEW s \in Schedules, CreateRow(p, n, s), Created(n)
        PROVE  Quiet(n)'
    <2>1. Quiet(n)
      BY <1>2 DEF CreateRow, FreshInv
    <2>2. row'[n].attempts = 0 /\ UNCHANGED serving
      BY <1>0, <1>2 DEF CreateRow, NewRow, NoRow
    <2> QED
      BY <1>2, <2>1, <2>2
      DEF Created, CreateRow, Quiet, Unserved, retryVars, scheduledVars
  <1>3. ASSUME NEW p \in Pods, FinishRequest(p, n), request[n] # "rejected"
        PROVE  FALSE
    BY <1>0, <1>a, <1>3 DEF FinishRequest, Answer
  <1>4. ASSUME Created(n)
        PROVE  Quiet(n)'
    BY <1>2, <1>4 DEF Created
  <1> QED
    BY <1>1, <1>3, <1>4, RequestHistory

\* As long as Publish returns no error for a message that goes out, a client
\* who was told that an immediate notification failed is told the truth, even
\* when Create committed the row: no query, consumer or retry ever sends it.
THEOREM RefusedStaysUnsent == Spec => []RefusedIsNotSent
  <1>1. TypeOK /\ FreshInv /\ [Next]_vars => FreshInv'
    BY AbsentStep, RefusedStep DEF FreshInv
  <1>2. FreshInv => RefusedIsNotSent
    BY DEF FreshInv, RefusedIsNotSent, Quiet
  <1> QED
    BY InitFresh, <1>1, <1>2, TypeCorrect, PTL DEF Spec
-----------------------------------------------------------------------------
(* Accepted requests. *)

LEMMA AwaitsSendStays ==
    ASSUME TypeOK, [Next]_vars, Spared({"db", "lose"})',
           NEW n \in Notif, AwaitsSend(n), ToBeSent(n)'
    PROVE  AwaitsSend(n)'
  <1>0. /\ row \in [Notif -> Rows]
        /\ sendQ \in [Notif -> Nat]
        /\ sender \in [Pods -> {Idle} \union Jobs]
    BY DEF TypeOK, StoreTypeOK, EnvTypeOK, PrimaryTypeOK
  <1>a. ~Fault("db") /\ ~Fault("lose")
    BY SparedBefore
  <1>1. ASSUME sender' = sender, stopping' \subseteq stopping,
               sendQ[n] > 0 => sendQ'[n] > 0
        PROVE  AwaitsSend(n)'
    BY <1>1 DEF AwaitsSend
  <1>2. ASSUME NEW p \in Pods, Creating(p) \/ Answering(p) \/ Polling(p)
        PROVE  AwaitsSend(n)'
    <2>1. sender' = sender /\ stopping' = stopping
      BY <1>2
      DEF Creating, Answering, Polling, CreateRow, FinishRequest, primaryVars
    <2>2. sendQ' = sendQ \/ \E m \in Notif : sendQ' = Plus(sendQ, m)
      BY <1>2
      DEF Creating, Answering, Polling, CreateRow, FinishRequest, PollScheduled,
          MarkScheduled, PublishScheduled, envVars
    <2>3. sendQ[n] > 0 => sendQ'[n] > 0
      BY <1>0, <2>2 DEF Plus
    <2> QED
      BY <1>1, <2>1, <2>3
  <1>3. ASSUME NEW p \in Pods, Claiming(p) \/ Retrying(p)
        PROVE  AwaitsSend(n)'
    <2>1. sender' = sender /\ stopping' \subseteq stopping
      BY <1>3 DEF Claiming, Retrying, primaryVars
    <2>2. sendQ' = sendQ
      BY <1>3
      DEF Claiming, ClaimRetries, CommitClaim, AbortClaim, PublishRetry, Retrying,
          LoadRetry, SendRetry, RecordRetry, AckRetry, envVars
    <2> QED
      BY <1>0, <1>1, <2>1, <2>2
  <1>4. CASE Tick \/ UNCHANGED vars
    BY <1>0, <1>1, <1>4 DEF Tick, vars, envVars, primaryVars
  <1>5. ASSUME NEW p \in Pods, NEW m \in Notif, SendPrimary(p, m),
               p \notin stopping, stopping' = stopping
        PROVE  AwaitsSend(n)'
    <2>1. PICK outcome \in {"sent", "failed"} : sender' = [sender EXCEPT ![p] = Job(outcome, m)]
      BY <1>5 DEF SendPrimary
    <2>2. CASE m = n
      <3>1. Handles(sender'[p], n)
        BY <1>0, <2>1, <2>2 DEF Handles, Holds, Job, Idle
      <3> QED
        BY <1>5, <3>1 DEF AwaitsSend
    <2>3. CASE m # n
      <3>1. sendQ'[n] = sendQ[n]
        BY <1>0, <1>5, <2>3 DEF SendPrimary, Minus
      <3>2. \A q \in Pods : Handles(sender[q], n) => Handles(sender'[q], n)
        BY <1>0, <1>5, <2>1 DEF SendPrimary, Handles, Holds
      <3> QED
        BY <1>5, <3>1, <3>2 DEF AwaitsSend
    <2> QED
      BY <2>2, <2>3
  <1>6. ASSUME NEW p \in Pods, RecordPrimary(p), stopping' = stopping
        PROVE  AwaitsSend(n)'
    <2>1. CASE sender[p].n = n
      <3>1. \/ row'[n] = AfterFirstSuccess(row[n])
            \/ row'[n] = AfterSendFailure(row[n])
        BY <1>0, <1>a, <1>6, <2>1 DEF RecordPrimary
      <3>2. row'[n].status # "PENDING" \/ row'[n].attempts # 0
        <4>1. row[n] \in Rows /\ row[n].attempts \in Nat
          BY <1>0, <1>6, <2>1 DEF Rows
        <4> QED
          BY <3>1, <4>1, WrittenRow, FailedRow
      <3> QED
        BY <3>2 DEF ToBeSent
    <2>2. CASE sender[p].n # n
      <3>1. \A q \in Pods : Handles(sender[q], n) => Handles(sender'[q], n)
        BY <1>0, <1>6, <2>2 DEF RecordPrimary, Handles, Holds
      <3> QED
        BY <1>6, <3>1 DEF RecordPrimary, AwaitsSend
    <2> QED
      BY <2>1, <2>2
  <1>7. ASSUME NEW p \in Pods, AckPrimary(p), stopping' = stopping
        PROVE  AwaitsSend(n)'
    <2>1. \A q \in Pods : Handles(sender[q], n) => Handles(sender'[q], n)
      BY <1>0, <1>7 DEF AckPrimary, Handles, Holds
    <2> QED
      BY <1>7, <2>1 DEF AckPrimary, AwaitsSend, envVars
  <1>8. ASSUME NEW p \in Pods, Stop(p)
        PROVE  AwaitsSend(n)'
    <2>1. CASE Holds(sender[p], n)
      <3>1. sendQ'[n] > 0
        BY <1>0, <1>8, <2>1 DEF Stop, Requeue
      <3> QED
        BY <3>1 DEF AwaitsSend
    <2>2. CASE ~Holds(sender[p], n)
      BY <1>0, <1>8, <2>2 DEF Stop, Requeue, AwaitsSend, Handles, primaryVars
    <2> QED
      BY <2>1, <2>2
  <1>9. ASSUME NEW p \in Pods, Vanish(p)
        PROVE  AwaitsSend(n)'
    <2> DEFINE bag == IF p \in stopping THEN sendQ ELSE Requeue(sendQ, sender[p])
    <2>0. PICK S : sendQ' = PlusEach(bag, S)
      BY <1>9 DEF Vanish
    <2>1. (sendQ[n] > 0 => bag[n] > 0) /\ (bag[n] > 0 => sendQ'[n] > 0)
      BY <1>0, <2>0 DEF PlusEach, Requeue
    <2>2. CASE p \notin stopping /\ Holds(sender[p], n)
      <3>1. bag[n] > 0
        BY <1>0, <2>2 DEF Requeue
      <3>2. sendQ'[n] > 0
        BY <2>1, <3>1
      <3> QED
        BY <3>2 DEF AwaitsSend
    <2>3. CASE p \in stopping \/ ~Holds(sender[p], n)
      <3>1. sendQ[n] > 0 => sendQ'[n] > 0
        BY <2>1
      <3>2. \A q \in Pods \ stopping : Handles(sender[q], n) => q # p
        BY <2>3 DEF Handles
      <3> QED
        BY <1>0, <1>9, <3>1, <3>2 DEF Vanish, AwaitsSend
    <2> QED
      BY <2>2, <2>3
  <1>10. ASSUME NEW p \in Pods, Sending(p)
         PROVE  AwaitsSend(n)'
    BY <1>5, <1>6, <1>7, <1>10 DEF Sending
  <1> QED
    BY <1>2, <1>3, <1>4, <1>8, <1>9, <1>10 DEF Next, PodStep, Exit, Crash

LEMMA AcceptedStep ==
    ASSUME TypeOK, FreshInv, NoAcceptedLoss, [Next]_vars, Spared({"db", "lose"})',
           NEW n \in Notif, ToBeSent(n)'
    PROVE  AwaitsSend(n)'
  <1>0. /\ row \in [Notif -> Rows] /\ sendQ \in [Notif -> Nat]
        /\ request \in [Notif -> {"none", "open", "accepted", "rejected", "broken"}]
    BY DEF TypeOK, StoreTypeOK, EnvTypeOK, PrimaryTypeOK
  <1>a. Spared({"db", "lose"}) /\ ~Fault("lose")
    BY SparedBefore
  <1>1. ASSUME Created(n)
        PROVE  FALSE
    BY <1>0, <1>1 DEF Created, CreateRow, ToBeSent
  <1>2. CASE row[n].status = "ABSENT"
    <2>1. request[n] = "none" /\ Unserved(n)
      BY <1>2 DEF FreshInv, Quiet
    <2> QED
      BY <1>1, <2>1, RequestHistory DEF ToBeSent, FinishRequest, Unserved
  <1>3. CASE row[n].status # "ABSENT"
    <2>1. /\ row[n].status = "PENDING" /\ row[n].attempts = 0
          /\ row[n].scheduledIn = NoTime
      BY <1>0, <1>3, RowHistory DEF ToBeSent, Rows, Times, Earlier, NoTime
    <2>2. CASE request[n] = "accepted"
      BY <1>a, <2>1, <2>2, AwaitsSendStays DEF NoAcceptedLoss, ToBeSent
    <2>3. ASSUME NEW p \in Pods, FinishRequest(p, n)
          PROVE  AwaitsSend(n)'
      <3>1. sendQ' = Plus(sendQ, n)
        BY <1>0, <1>a, <2>1, <2>3
        DEF FinishRequest, Answer, ToBeSent, NoTime
      <3> QED
        BY <1>0, <3>1 DEF Plus, AwaitsSend
    <2> QED
      BY <1>1, <2>2, <2>3, RequestHistory DEF ToBeSent
  <1> QED
    BY <1>2, <1>3

\* As long as no write is refused and no message lost, a notification that was
\* accepted for sending at once has a message for it on the way until its
\* first attempt is on record: crashes, restarts, errors of Publish, repeated
\* messages and late timers do not make the service forget it.
THEOREM AcceptedIsNotLost == Spec => []NoAcceptedLoss
  <1>1. Init => NoAcceptedLoss
    BY DEF Init, PrimaryInit, NoAcceptedLoss, ToBeSent
  <1>2. TypeOK /\ FreshInv /\ NoAcceptedLoss /\ [Next]_vars => NoAcceptedLoss'
    BY AcceptedStep DEF NoAcceptedLoss
  <1>3. TypeOK /\ FreshInv /\ [Next]_vars => FreshInv'
    BY AbsentStep, RefusedStep DEF FreshInv
  <1> QED
    BY InitFresh, <1>1, <1>2, <1>3, TypeCorrect, PTL DEF Spec

-----------------------------------------------------------------------------
(* Retries on their way. *)

Calm == Spared({"late", "stop"})

\* The row of a retry on its way has failed before, and if it is still to be
\* retried, its time has not come.
NotDueAgain(n) ==
    /\ row[n].status # "ABSENT" /\ row[n].attempts >= 1
    /\ row[n].status = "PENDING" => row[n].retryIn >= 1

RetryOK(n) == SingleRetry(n) /\ (RetryOnItsWay(n) => NotDueAgain(n))

\* The inductive invariant behind LeaseCoversRetry.
LeaseInv ==
    Calm => /\ \A n \in Notif : RetryOK(n)
            /\ \A p \in Pods : claim[p].pc = "tx" => claim[p].leaseIn >= 1

LEMMA CalmTick ==
    ASSUME [Next]_vars, Calm', Tick
    PROVE  Timely
  <1>1. ~Fault("late")
    BY SparedBefore DEF Calm
  <1> QED
    BY <1>1 DEF Tick

LEMMA CalmBefore ==
    ASSUME [Next]_vars, Calm'
    PROVE  Calm /\ \A p \in Pods : ~Stop(p)
  BY SparedBefore DEF Calm, Stop

\* A row whose retry is on its way is not leased.
LEMMA NotLeasedAgain ==
    ASSUME TypeOK, ClaimsAreExclusive, NEW n \in Notif, NotDueAgain(n)
    PROVE  \A p \in Pods : ~InTx(p, n)
  <1> SUFFICES ASSUME NEW p \in Pods, InTx(p, n)
               PROVE  FALSE
    OBVIOUS
  <1>1. IsRetryDue(row[n]) /\ row[n] \in Rows
    BY ClaimsRestated DEF TypeOK, StoreTypeOK
  <1> QED
    BY <1>1 DEF IsRetryDue, IsRetryTarget, NotDueAgain, Rows, Times, NoTime

LEMMA NotDueStays ==
    ASSUME TypeOK, ClaimsAreExclusive, [Next]_vars, Calm', NEW n \in Notif,
           RetryOnItsWay(n), NotDueAgain(n)
    PROVE  NotDueAgain(n)'
  <1>0. row[n] \in Rows
    BY DEF TypeOK, StoreTypeOK
  <1>1. CASE RowKept(n)
    BY <1>1 DEF RowKept, NotDueAgain
  <1>2. CASE RowAged(n)
    <2>1. row[n].retryIn # 1
      BY <1>2, CalmTick DEF RowAged, Timely
    <2> QED
      BY <1>0, <1>2, <2>1, AgedRow DEF RowAged, NotDueAgain, Earlier, Rows, Times, NoTime
  <1>3. CASE RowFailed(n)
    <2>1. row'[n] = AfterSendFailure(row[n])
      BY <1>3 DEF RowFailed
    <2> QED
      BY <1>0, <2>1, FailedRow DEF NotDueAgain, Rows
  <1>4. CASE RowCompleted(n)
    BY <1>0, <1>4, WrittenRow DEF RowCompleted, NotDueAgain
  <1> QED
    BY <1>1, <1>2, <1>3, <1>4, RowChanges, NotLeasedAgain
    DEF RowChange, RowCreated, RowLeased, NotDueAgain

\* Retries come on their way when their claim commits, and only then; until
\* they are acknowledged they go from hand to hand.
LEMMA RetryMoves ==
    ASSUME TypeOK, ClaimsAreExclusive, [Next]_vars, Calm', NEW n \in Notif, RetryOK(n)
    PROVE  /\ SingleRetry(n)'
           /\ \/ RetryOnItsWay(n)' => RetryOnItsWay(n)
              \/ \E p \in Pods : InTx(p, n) /\ CommitClaim(p)
  <1>0. /\ retryQ \in [Notif -> Nat] /\ claim \in [Pods -> Claims]
        /\ retrier \in [Pods -> {Idle} \union Jobs]
    BY DEF TypeOK, EnvTypeOK, RetryTypeOK
  <1>a. SingleRetry(n)
    BY DEF RetryOK
  <1> USE DEF SingleRetry, RetryOnItsWay, RetryAt, RetryToPublish
  <1>1. CASE UNCHANGED <<retryQ, claim, retrier>>
    BY <1>1, <1>a
  <1>2. ASSUME NEW p \in Pods, Claiming(p)
        PROVE  /\ SingleRetry(n)'
               /\ \/ RetryOnItsWay(n)' => RetryOnItsWay(n)
                  \/ \E q \in Pods : InTx(q, n) /\ CommitClaim(q)
    <2>0. ASSUME retryQ' = retryQ, retrier' = retrier,
                 \A q \in Pods : RetryToPublish(q, n)' => RetryToPublish(q, n)
          PROVE  SingleRetry(n)' /\ (RetryOnItsWay(n)' => RetryOnItsWay(n))
      BY <2>0, <1>a
    <2>1. CASE ClaimRetries(p)
      <3>1. \A q \in Pods : RetryToPublish(q, n)' => RetryToPublish(q, n)
        BY <1>0, <2>1 DEF ClaimRetries
      <3> QED
        BY <2>0, <2>1, <3>1 DEF ClaimRetries, envVars
    <2>2. CASE AbortClaim(p)
      <3>1. \A q \in Pods : RetryToPublish(q, n)' => RetryToPublish(q, n)
        BY <1>0, <2>2 DEF AbortClaim, NoClaim
      <3> QED
        BY <2>0, <2>2, <3>1 DEF AbortClaim
    <2>3. CASE CommitClaim(p) /\ ~InTx(p, n)
      <3>1. \A q \in Pods : RetryToPublish(q, n)' => RetryToPublish(q, n)
        BY <1>0, <2>3 DEF CommitClaim, InTx
      <3> QED
        BY <2>0, <2>3, <3>1 DEF CommitClaim, envVars
    <2>4. CASE CommitClaim(p) /\ InTx(p, n)
      <3>1. ~RetryOnItsWay(n)
        BY <2>4, NotLeasedAgain DEF RetryOK
      <3>2. \A q \in Pods : RetryToPublish(q, n)' <=> q = p
        BY <1>0, <2>4, <3>1 DEF CommitClaim, InTx
      <3>3. retryQ' = retryQ /\ retrier' = retrier
        BY <2>4 DEF CommitClaim, envVars
      <3> QED
        BY <1>0, <1>a, <2>4, <3>1, <3>2, <3>3
    <2>5. ASSUME NEW m \in Notif, PublishRetry(p, m)
          PROVE  SingleRetry(n)' /\ (RetryOnItsWay(n)' => RetryOnItsWay(n))
      <3>0. /\ claim' = [claim EXCEPT ![p] = Without(claim[p], m)]
            /\ retrier' = retrier
            /\ retryQ' \in {retryQ, Plus(retryQ, m)}
            /\ claim[p].pc = "publish" /\ m \in claim[p].rows
        BY <2>5 DEF PublishRetry
      <3>1. /\ RetryToPublish(p, n)' => RetryToPublish(p, n) /\ n # m
            /\ \A q \in Pods : q # p => (RetryToPublish(q, n)' <=> RetryToPublish(q, n))
        BY <1>0, <3>0 DEF Without, NoClaim, Claims
      <3>2. CASE m # n
        <4>1. retryQ'[n] = retryQ[n]
          BY <1>0, <3>0, <3>2 DEF Plus
        <4> QED
          BY <1>0, <1>a, <3>0, <3>1, <4>1
      <3>3. CASE m = n
        <4>1. RetryToPublish(p, n)
          BY <3>0, <3>3
        <4>2. /\ retryQ[n] = 0
              /\ \A q \in Pods : ~Holds(retrier[q], n) /\ (q # p => ~RetryToPublish(q, n))
          BY <4>1, <1>a
        <4>3. retryQ'[n] \in {0, 1}
          BY <1>0, <3>0, <3>3, <4>2 DEF Plus
        <4>4. \A q \in Pods : ~RetryToPublish(q, n)' /\ ~Holds(retrier'[q], n)
          BY <3>0, <3>1, <3>3, <4>2
        <4> QED
          BY <4>1, <4>3, <4>4
      <3> QED
        BY <3>2, <3>3
    <2> QED
      BY <1>2, <2>1, <2>2, <2>3, <2>4, <2>5 DEF Claiming
  <1>3. ASSUME NEW p \in Pods, Retrying(p)
        PROVE  SingleRetry(n)' /\ (RetryOnItsWay(n)' => RetryOnItsWay(n))
    <2>1. ASSUME NEW m \in Notif, LoadRetry(p, m)
          PROVE  SingleRetry(n)' /\ (RetryOnItsWay(n)' => RetryOnItsWay(n))
      <3>0. /\ retrier[p] = Idle /\ claim' = claim
            /\ \E pc \in {"loaded", "acking"} : retrier' = [retrier EXCEPT ![p] = Job(pc, m)]
            /\ retryQ[m] > 0 /\ retryQ' = Minus(retryQ, m)
        BY <2>1 DEF LoadRetry
      <3>1. \A q \in Pods : q # p => (Holds(retrier'[q], n) <=> Holds(retrier[q], n))
        BY <1>0, <3>0
      <3>2. CASE m # n
        <4>1. retryQ'[n] = retryQ[n]
          BY <1>0, <3>0, <3>2 DEF Minus
        <4>2. ~Holds(retrier'[p], n)
          BY <1>0, <3>0, <3>2 DEF Holds, Job
        <4> QED
          BY <1>0, <1>a, <3>0, <3>1, <4>1, <4>2
      <3>3. CASE m = n
        <4>1. retryQ[n] = 1 /\ retryQ'[n] = 0
          BY <1>0, <1>a, <3>0, <3>3 DEF Minus
        <4>2. \A q \in Pods : ~RetryToPublish(q, n) /\ ~Holds(retrier[q], n)
          BY <1>a, <4>1
        <4> QED
          BY <1>0, <3>0, <3>1, <4>1, <4>2
      <3> QED
        BY <3>2, <3>3
    <2>2. CASE SendRetry(p) \/ RecordRetry(p) \/ AckRetry(p)
      <3>1. retryQ' = retryQ /\ claim' = claim
        BY <2>2 DEF SendRetry, RecordRetry, AckRetry, envVars
      <3>2. \A q \in Pods : Holds(retrier'[q], n) => Holds(retrier[q], n)
        <4>1. retrier[p] \in Jobs
          BY <1>0, <2>2 DEF SendRetry, RecordRetry, AckRetry, Idle
        <4> QED
          BY <1>0, <2>2, <4>1 DEF SendRetry, RecordRetry, AckRetry, Holds, Jobs, Idle
      <3> QED
        BY <1>a, <3>1, <3>2
    <2> QED
      BY <1>3, <2>1, <2>2 DEF Retrying
  <1>4. ASSUME NEW p \in Pods, Vanish(p)
        PROVE  SingleRetry(n)' /\ (RetryOnItsWay(n)' => RetryOnItsWay(n))
    <2>1. /\ \A q \in Pods : RetryToPublish(q, n)' <=> RetryToPublish(q, n) /\ q # p
          /\ \A q \in Pods : Holds(retrier'[q], n) <=> Holds(retrier[q], n) /\ q # p
      BY <1>0, <1>4 DEF Vanish, NoClaim, Holds
    <2>2. CASE ~Holds(retrier[p], n) \/ p \in stopping
      <3>1. retryQ'[n] = retryQ[n]
        BY <1>4, <2>2 DEF Vanish, Requeue
      <3> QED
        BY <1>a, <2>1, <3>1
    <2>3. CASE Holds(retrier[p], n) /\ p \notin stopping
      <3>1. retryQ[n] = 0 /\ \A q \in Pods : RetryAt(q, n) => q = p
        BY <1>a, <2>3
      <3>2. retryQ'[n] = 1
        BY <1>4, <2>3, <3>1 DEF Vanish, Requeue
      <3> QED
        BY <2>1, <2>3, <3>1, <3>2
    <2> QED
      BY <2>2, <2>3
  <1>5. ASSUME NEW p \in Pods, Creating(p) \/ Answering(p) \/ Sending(p) \/ Polling(p)
        PROVE  UNCHANGED <<retryQ, claim, retrier>>
    BY <1>5
    DEF Creating, Answering, Sending, Polling, CreateRow, FinishRequest, SendPrimary,
        RecordPrimary, AckPrimary, PollScheduled, MarkScheduled, PublishScheduled,
        envVars, retryVars
  <1>6. CASE Tick
    <2>1. \A q \in Pods : RetryToPublish(q, n)' <=> RetryToPublish(q, n)
      BY <1>0, <1>6 DEF Tick, Claims
    <2> QED
      BY <1>6, <1>a, <2>1 DEF Tick
  <1>7. CASE UNCHANGED vars
    BY <1>1, <1>7 DEF vars, envVars, retryVars
  <1>8. \A p \in Pods : ~Stop(p)
    BY CalmBefore
  <1> HIDE DEF SingleRetry, RetryOnItsWay
  <1> QED
    BY <1>1, <1>2, <1>3, <1>4, <1>5, <1>6, <1>7, <1>8
    DEF Next, PodStep, Exit, Crash

LEMMA LeaseLives ==
    ASSUME TypeOK, [Next]_vars, Calm', LeaseInv, NEW p \in Pods, claim'[p].pc = "tx"
    PROVE  claim'[p].leaseIn >= 1
  <1>0. claim \in [Pods -> Claims]
    BY DEF TypeOK, RetryTypeOK
  <1>a. claim[p].pc = "tx" => claim[p].leaseIn >= 1
    BY CalmBefore DEF LeaseInv
  <1>1. CASE claim'[p] = claim[p]
    BY <1>1, <1>a
  <1>2. ASSUME NEW q \in Pods, Claiming(q)
        PROVE  claim'[p].leaseIn >= 1
    <2>1. CASE ClaimRetries(q)
      BY <1>0, <1>1, <2>1, LeaseAssumption DEF ClaimRetries
    <2>2. CASE CommitClaim(q) \/ AbortClaim(q)
      BY <1>0, <1>1, <2>2 DEF CommitClaim, AbortClaim, NoClaim
    <2>3. ASSUME NEW m \in Notif, PublishRetry(q, m)
          PROVE  claim'[p].leaseIn >= 1
      BY <1>0, <1>1, <2>3 DEF PublishRetry, Without, NoClaim, Claims
    <2> QED
      BY <1>2, <2>1, <2>2, <2>3 DEF Claiming
  <1>3. CASE Tick
    <2>1. /\ claim'[p].pc = claim[p].pc
          /\ claim'[p].leaseIn = Earlier(claim[p].leaseIn)
      BY <1>0, <1>3 DEF Tick, Claims
    <2>2. claim[p].pc = "tx" /\ claim[p].leaseIn # 1 /\ claim[p].leaseIn \in Nat
      BY <1>0, <1>3, <2>1, CalmTick DEF Timely, Claims
    <2> QED
      BY <1>a, <2>1, <2>2 DEF Earlier
  <1>4. ASSUME NEW q \in Pods, Vanish(q) \/ Stop(q)
        PROVE  claim'[p].leaseIn >= 1
    BY <1>0, <1>1, <1>4 DEF Vanish, Stop, NoClaim
  <1>5. ASSUME NEW q \in Pods,
               Creating(q) \/ Answering(q) \/ Sending(q) \/ Retrying(q) \/ Polling(q)
        PROVE  claim' = claim
    BY <1>5
    DEF Creating, Answering, Sending, Retrying, Polling, LoadRetry, SendRetry,
        RecordRetry, AckRetry, retryVars
  <1>6. CASE UNCHANGED vars
    BY <1>1, <1>6 DEF vars, retryVars
  <1> QED
    BY <1>1, <1>2, <1>3, <1>4, <1>5, <1>6 DEF Next, PodStep, Exit, Crash

LEMMA LeaseStep ==
    ASSUME TypeOK, ClaimsAreExclusive, LeaseInv, [Next]_vars
    PROVE  LeaseInv'
  <1> SUFFICES ASSUME Calm'
               PROVE  /\ \A n \in Notif : RetryOK(n)'
                      /\ \A p \in Pods : claim'[p].pc = "tx" => claim'[p].leaseIn >= 1
    BY DEF LeaseInv
  <1>1. /\ \A n \in Notif : RetryOK(n)
        /\ \A p \in Pods : claim[p].pc = "tx" => claim[p].leaseIn >= 1
    BY CalmBefore DEF LeaseInv
  <1>2. ASSUME NEW n \in Notif
        PROVE  RetryOK(n)'
    <2>1. SingleRetry(n)'
      BY <1>1, RetryMoves
    <2>2. CASE RetryOnItsWay(n)
      BY <1>1, <2>1, <2>2, NotDueStays DEF RetryOK
    <2>3. ASSUME NEW p \in Pods, InTx(p, n), CommitClaim(p)
          PROVE  NotDueAgain(n)'
      <3>1. IsRetryDue(row[n]) /\ row[n] \in Rows /\ claim[p].leaseIn \in Nat
        BY <2>3, ClaimsRestated DEF TypeOK, StoreTypeOK, RetryTypeOK, Claims
      <3>2. row'[n] = Leased(row[n], claim[p].leaseIn) /\ claim[p].leaseIn >= 1
        BY <1>1, <2>3 DEF CommitClaim, LeaseRows, InTx
      <3> QED
        BY <3>1, <3>2 DEF NotDueAgain, Leased, IsRetryDue, IsRetryTarget, Rows
    <2> QED
      BY <1>1, <2>1, <2>2, <2>3, RetryMoves DEF RetryOK
  <1> QED
    BY <1>2, LeaseLives

LEMMA InitLease == Init => LeaseInv
  <1> SUFFICES ASSUME Init
               PROVE  /\ \A n \in Notif : SingleRetry(n) /\ ~RetryOnItsWay(n)
                      /\ \A p \in Pods : claim[p].pc # "tx"
    BY DEF LeaseInv, RetryOK
  <1> QED
    BY DEF Init, EnvInit, RetryInit, NoClaim, SingleRetry, RetryOnItsWay, RetryAt,
           RetryToPublish, Holds

\* Until a timer is late or a pod is asked to stop, a lease covers the retry it
\* was taken for: from the commit of the claim to the acknowledgement there is
\* one message for the row, and no query finds the row due, whatever crashes,
\* fails or gets lost.
THEOREM LeaseCovers == Spec => []LeaseCoversRetry
  <1>1. TypeOK /\ ClaimsAreExclusive /\ LeaseInv /\ [Next]_vars => LeaseInv'
    BY LeaseStep
  <1>2. TypeOK /\ LeaseInv => LeaseCoversRetry
    <2> SUFFICES ASSUME TypeOK, LeaseInv, Calm, NEW n \in Notif
                 PROVE  SingleRetry(n) /\ (RetryOnItsWay(n) => ~IsRetryDue(row[n]))
      BY DEF LeaseCoversRetry, Calm
    <2>1. RetryOK(n) /\ row[n] \in Rows
      BY DEF LeaseInv, TypeOK, StoreTypeOK
    <2> QED
      BY <2>1 DEF RetryOK, NotDueAgain, IsRetryDue, IsRetryTarget, Rows, Times, NoTime
  <1> QED
    BY InitLease, <1>1, <1>2, TypeCorrect, ClaimsExclusive, PTL DEF Spec

-----------------------------------------------------------------------------
(* Consumers. *)

At(consumer, pc, n) == Holds(consumer, n) /\ consumer.pc = pc

\* The types, as the steps use them.
Types ==
    /\ row \in [Notif -> Rows] /\ sent \in [Notif -> Nat]
    /\ sendQ \in [Notif -> Nat] /\ retryQ \in [Notif -> Nat]
    /\ serving \in [Pods -> SUBSET Notif] /\ dedup \in [Notif -> Nat]
    /\ sender \in [Pods -> {Idle} \union Jobs]
    /\ retrier \in [Pods -> {Idle} \union Jobs]
    /\ claim \in [Pods -> Claims] /\ poll \in [Pods -> Polls]

LEMMA TypesOf == TypeOK => Types
  BY DEF TypeOK, Types, StoreTypeOK, EnvTypeOK, PrimaryTypeOK, RetryTypeOK, ScheduledTypeOK

\* A consumer that is not idle, and what it becomes.
LEMMA JobOf ==
    ASSUME NEW pc, NEW m, NEW n, NEW qc
    PROVE  /\ At(Job(pc, m), qc, n) <=> pc = qc /\ m = n
           /\ Holds(Job(pc, m), n) <=> m = n
           /\ ~At(Idle, qc, n) /\ ~Holds(Idle, n)
  <1>1. Job(pc, m) # Idle /\ Job(pc, m).pc = pc /\ Job(pc, m).n = m
    BY DEF Job, Idle
  <1> QED
    BY <1>1 DEF At, Holds

-----------------------------------------------------------------------------
(* What duplicates cost. *)

One(b) == IF b THEN 1 ELSE 0

\* A primary message for n, or somebody who will publish one or write the row.
SendInHand(p, n) == Handles(sender[p], n) \/ n \in poll[p].marked
SendAhead(n) == sendQ[n] > 0 \/ \E p \in Pods : SendInHand(p, n)

\* The same of a retry.
RetryInHand(p, n) == Handles(retrier[p], n) \/ RetryToPublish(p, n)
RetryAhead(n) == retryQ[n] > 0 \/ \E p \in Pods : RetryInHand(p, n)

\* The scheduled worker may still take n from the table: it was not tried yet,
\* and its request is answered or late.
Waiting(n) ==
    /\ row[n].status = "PENDING" /\ row[n].attempts = 0
    /\ row[n].scheduledIn # NoTime
    /\ Unserved(n) \/ row[n].scheduledIn = 0

\* A scheduled pass will publish n as things are, or once its key has expired.
PollWillSend(n) ==
    \/ dedup[n] = 0 /\ (Waiting(n) \/ \E p \in Pods : n \in poll[p].rows)
    \/ Waiting(n) /\ ~SendAhead(n)

\* A claim will publish n as things are, or once its lease has run out.
ClaimWillSend(n) == IsRetryTarget(row[n]) /\ (row[n].retryIn <= 0 \/ ~RetryAhead(n))

ServedAt(n) == {p \in Pods : n \in serving[p]}
FailedAt(n) == {p \in Pods : At(sender[p], "failed", n)}
MarkedAt(n) == {p \in Pods : n \in poll[p].marked}
LapsedAt(n) == {p \in Pods : InTx(p, n) /\ claim[p].leaseIn = 0}
ClaimedAt(n) == {p \in Pods : RetryToPublish(p, n)}
RetriedAt(n) == {p \in Pods : At(retrier[p], "loaded", n) \/ At(retrier[p], "failed", n)}

\* How many more deliveries of n are to be expected from what is there now, if
\* nothing fails: by the primary and the scheduled path, and by the retry path.
SendsToCome(n) ==
    One(row[n].status = "ABSENT") + One(PollWillSend(n)) + sendQ[n]
        + Cardinality(ServedAt(n)) + Cardinality(FailedAt(n)) + Cardinality(MarkedAt(n))

RetriesToCome(n) ==
    One(ClaimWillSend(n)) + retryQ[n] + Cardinality(LapsedAt(n))
        + Cardinality(ClaimedAt(n)) + Cardinality(RetriedAt(n))

\* The inductive invariant behind DuplicatesCostFaults.
PaidInv ==
    0 \notin Schedules =>
        \A n \in Notif : sent[n] + SendsToCome(n) + RetriesToCome(n) <= 1 + 2 * faults

-----------------------------------------------------------------------------
(* Counting. *)

\* Two sets of pods that differ in p at the most.
LEMMA OnePod ==
    ASSUME NEW S \in SUBSET Pods, NEW T \in SUBSET Pods, NEW p \in Pods,
           \A q \in Pods : q # p /\ q \in T => q \in S
    PROVE  Cardinality(T) + One(p \in S) <= Cardinality(S) + One(p \in T)
  <1>1. /\ IsFiniteSet(S) /\ Cardinality(S) \in Nat
        /\ IsFiniteSet(T) /\ Cardinality(T) \in Nat
    BY PodsAssumption, FS_Subset, FS_CardinalityType
  <1>2. /\ IsFiniteSet(S \ {p})
        /\ Cardinality(S \ {p}) = Cardinality(S) - One(p \in S)
    BY <1>1, FS_RemoveElement DEF One
  <1>3. /\ IsFiniteSet(T \ {p})
        /\ Cardinality(T \ {p}) = Cardinality(T) - One(p \in T)
    BY <1>1, FS_RemoveElement DEF One
  <1>4. Cardinality(T \ {p}) <= Cardinality(S \ {p})
    BY <1>2, FS_Subset
  <1> QED
    BY <1>1, <1>2, <1>3, <1>4 DEF One

CountsAreNumbers ==
    \A n \in Notif :
        /\ SendsToCome(n) \in Nat /\ RetriesToCome(n) \in Nat
        /\ Cardinality(ServedAt(n)) \in Nat /\ Cardinality(FailedAt(n)) \in Nat
        /\ Cardinality(MarkedAt(n)) \in Nat /\ Cardinality(LapsedAt(n)) \in Nat
        /\ Cardinality(ClaimedAt(n)) \in Nat /\ Cardinality(RetriedAt(n)) \in Nat

LEMMA CountTypes == Types => CountsAreNumbers
  <1> SUFFICES ASSUME Types, NEW n \in Notif
               PROVE  /\ SendsToCome(n) \in Nat /\ RetriesToCome(n) \in Nat
                      /\ \A S \in {ServedAt(n), FailedAt(n), MarkedAt(n), LapsedAt(n),
                                   ClaimedAt(n), RetriedAt(n)} : Cardinality(S) \in Nat
    BY DEF CountsAreNumbers
  <1>1. \A S \in SUBSET Pods : Cardinality(S) \in Nat
    BY PodsAssumption, FS_Subset, FS_CardinalityType
  <1>2. {ServedAt(n), FailedAt(n), MarkedAt(n), LapsedAt(n), ClaimedAt(n), RetriedAt(n)}
            \subseteq SUBSET Pods
    BY DEF ServedAt, FailedAt, MarkedAt, LapsedAt, ClaimedAt, RetriedAt
  <1>3. sendQ[n] \in Nat /\ retryQ[n] \in Nat
    BY DEF Types
  <1>4. \A b : One(b) \in Nat
    BY DEF One
  <1>5. \A S \in {ServedAt(n), FailedAt(n), MarkedAt(n), LapsedAt(n), ClaimedAt(n),
                  RetriedAt(n)} : Cardinality(S) \in Nat
    BY <1>1, <1>2
  <1> QED
    BY <1>3, <1>4, <1>5 DEF SendsToCome, RetriesToCome

LEMMA CountTypesNext == Types' => CountsAreNumbers'
  BY CountTypes, PTL

\* What a step of p can change in the two counts.
SendsAt(p, n) ==
    One(row[n].status = "ABSENT") + One(PollWillSend(n)) + sendQ[n]
        + One(n \in serving[p]) + One(At(sender[p], "failed", n))
        + One(n \in poll[p].marked)

RetriesAt(p, n) ==
    One(ClaimWillSend(n)) + retryQ[n] + One(InTx(p, n) /\ claim[p].leaseIn = 0)
        + One(RetryToPublish(p, n))
        + One(At(retrier[p], "loaded", n) \/ At(retrier[p], "failed", n))

LEMMA OnePodSends ==
    ASSUME Types, Types', NEW p \in Pods, NEW n \in Notif,
           \A q \in Pods : q # p =>
              /\ n \in serving'[q] => n \in serving[q]
              /\ At(sender'[q], "failed", n) => At(sender[q], "failed", n)
              /\ n \in poll'[q].marked => n \in poll[q].marked
    PROVE  SendsToCome(n)' + SendsAt(p, n) <= SendsToCome(n) + SendsAt(p, n)'
  <1>1. /\ ServedAt(n) \in SUBSET Pods /\ ServedAt(n)' \in SUBSET Pods
        /\ FailedAt(n) \in SUBSET Pods /\ FailedAt(n)' \in SUBSET Pods
        /\ MarkedAt(n) \in SUBSET Pods /\ MarkedAt(n)' \in SUBSET Pods
    BY DEF ServedAt, FailedAt, MarkedAt
  <1>2. /\ \A q \in Pods : q # p /\ q \in ServedAt(n)' => q \in ServedAt(n)
        /\ \A q \in Pods : q # p /\ q \in FailedAt(n)' => q \in FailedAt(n)
        /\ \A q \in Pods : q # p /\ q \in MarkedAt(n)' => q \in MarkedAt(n)
    BY DEF ServedAt, FailedAt, MarkedAt
  <1>3. Cardinality(ServedAt(n)') + One(p \in ServedAt(n))
            <= Cardinality(ServedAt(n)) + One(p \in ServedAt(n)')
    BY <1>1, <1>2, OnePod
  <1>4. Cardinality(FailedAt(n)') + One(p \in FailedAt(n))
            <= Cardinality(FailedAt(n)) + One(p \in FailedAt(n)')
    BY <1>1, <1>2, OnePod
  <1>5. Cardinality(MarkedAt(n)') + One(p \in MarkedAt(n))
            <= Cardinality(MarkedAt(n)) + One(p \in MarkedAt(n)')
    BY <1>1, <1>2, OnePod
  <1>6. /\ p \in ServedAt(n) <=> n \in serving[p]
        /\ p \in ServedAt(n)' <=> n \in serving'[p]
        /\ p \in FailedAt(n) <=> At(sender[p], "failed", n)
        /\ p \in FailedAt(n)' <=> At(sender'[p], "failed", n)
        /\ p \in MarkedAt(n) <=> n \in poll[p].marked
        /\ p \in MarkedAt(n)' <=> n \in poll'[p].marked
    BY DEF ServedAt, FailedAt, MarkedAt
  <1>7. /\ One(p \in ServedAt(n)) = One(n \in serving[p])
        /\ One(p \in ServedAt(n)') = One(n \in serving'[p])
        /\ One(p \in FailedAt(n)) = One(At(sender[p], "failed", n))
        /\ One(p \in FailedAt(n)') = One(At(sender'[p], "failed", n))
        /\ One(p \in MarkedAt(n)) = One(n \in poll[p].marked)
        /\ One(p \in MarkedAt(n)') = One(n \in poll'[p].marked)
    BY <1>6 DEF One
  <1>8. /\ \A b : One(b) \in Nat
        /\ sendQ[n] \in Nat /\ sendQ'[n] \in Nat
    BY DEF One, Types
  <1> QED
    BY <1>3, <1>4, <1>5, <1>7, <1>8, CountTypes, CountTypesNext
    DEF CountsAreNumbers, SendsToCome, SendsAt

LEMMA OnePodRetries ==
    ASSUME Types, Types', NEW p \in Pods, NEW n \in Notif,
           \A q \in Pods : q # p =>
              /\ claim'[q] = claim[q]
              /\ At(retrier'[q], "loaded", n) => At(retrier[q], "loaded", n)
              /\ At(retrier'[q], "failed", n) => At(retrier[q], "failed", n)
    PROVE  RetriesToCome(n)' + RetriesAt(p, n) <= RetriesToCome(n) + RetriesAt(p, n)'
  <1>1. /\ LapsedAt(n) \in SUBSET Pods /\ LapsedAt(n)' \in SUBSET Pods
        /\ ClaimedAt(n) \in SUBSET Pods /\ ClaimedAt(n)' \in SUBSET Pods
        /\ RetriedAt(n) \in SUBSET Pods /\ RetriedAt(n)' \in SUBSET Pods
    BY DEF LapsedAt, ClaimedAt, RetriedAt
  <1>2. /\ \A q \in Pods : q # p /\ q \in LapsedAt(n)' => q \in LapsedAt(n)
        /\ \A q \in Pods : q # p /\ q \in ClaimedAt(n)' => q \in ClaimedAt(n)
        /\ \A q \in Pods : q # p /\ q \in RetriedAt(n)' => q \in RetriedAt(n)
    BY DEF LapsedAt, ClaimedAt, RetriedAt, InTx, RetryToPublish
  <1>3. Cardinality(LapsedAt(n)') + One(p \in LapsedAt(n))
            <= Cardinality(LapsedAt(n)) + One(p \in LapsedAt(n)')
    BY <1>1, <1>2, OnePod
  <1>4. Cardinality(ClaimedAt(n)') + One(p \in ClaimedAt(n))
            <= Cardinality(ClaimedAt(n)) + One(p \in ClaimedAt(n)')
    BY <1>1, <1>2, OnePod
  <1>5. Cardinality(RetriedAt(n)') + One(p \in RetriedAt(n))
            <= Cardinality(RetriedAt(n)) + One(p \in RetriedAt(n)')
    BY <1>1, <1>2, OnePod
  <1> DEFINE lapsed == InTx(p, n) /\ claim[p].leaseIn = 0
             retried == At(retrier[p], "loaded", n) \/ At(retrier[p], "failed", n)
  <1>6. /\ p \in LapsedAt(n) <=> lapsed
        /\ p \in LapsedAt(n)' <=> lapsed'
        /\ p \in ClaimedAt(n) <=> RetryToPublish(p, n)
        /\ p \in ClaimedAt(n)' <=> RetryToPublish(p, n)'
        /\ p \in RetriedAt(n) <=> retried
        /\ p \in RetriedAt(n)' <=> retried'
    BY DEF LapsedAt, ClaimedAt, RetriedAt, InTx, RetryToPublish
  <1>7. /\ One(p \in LapsedAt(n)) = One(lapsed)
        /\ One(p \in LapsedAt(n)') = One(lapsed')
        /\ One(p \in ClaimedAt(n)) = One(RetryToPublish(p, n))
        /\ One(p \in ClaimedAt(n)') = One(RetryToPublish(p, n)')
        /\ One(p \in RetriedAt(n)) = One(retried)
        /\ One(p \in RetriedAt(n)') = One(retried')
    BY <1>6 DEF One
  <1>8. /\ \A b : One(b) \in Nat
        /\ retryQ[n] \in Nat /\ retryQ'[n] \in Nat
    BY DEF One, Types
  <1> QED
    BY <1>3, <1>4, <1>5, <1>7, <1>8, CountTypes, CountTypesNext
    DEF CountsAreNumbers, RetriesToCome, RetriesAt

\* Steps that leave alone what the counts of n are made of.
SameSends(n) ==
    /\ row'[n].status = row[n].status /\ row'[n].attempts = row[n].attempts
    /\ row'[n].scheduledIn = row[n].scheduledIn
    /\ sendQ'[n] = sendQ[n] /\ dedup'[n] = dedup[n]
    /\ \A q \in Pods :
        /\ n \in serving'[q] <=> n \in serving[q]
        /\ Handles(sender'[q], n) <=> Handles(sender[q], n)
        /\ At(sender'[q], "failed", n) <=> At(sender[q], "failed", n)
        /\ n \in poll'[q].rows <=> n \in poll[q].rows
        /\ n \in poll'[q].marked <=> n \in poll[q].marked

SameRetries(n) ==
    /\ row'[n].status = row[n].status /\ row'[n].attempts = row[n].attempts
    /\ row'[n].retryIn = row[n].retryIn
    /\ retryQ'[n] = retryQ[n]
    /\ \A q \in Pods :
        /\ InTx(q, n)' <=> InTx(q, n)
        /\ InTx(q, n) => claim'[q].leaseIn = claim[q].leaseIn
        /\ RetryToPublish(q, n)' <=> RetryToPublish(q, n)
        /\ Handles(retrier'[q], n) <=> Handles(retrier[q], n)
        /\ At(retrier'[q], "loaded", n) <=> At(retrier[q], "loaded", n)
        /\ At(retrier'[q], "failed", n) <=> At(retrier[q], "failed", n)

LEMMA SameSendsCount ==
    ASSUME NEW n \in Notif, SameSends(n)
    PROVE  /\ SendsToCome(n)' = SendsToCome(n)
           /\ \A p \in Pods : SendsAt(p, n)' = SendsAt(p, n)
  <1>1. ServedAt(n)' = ServedAt(n) /\ FailedAt(n)' = FailedAt(n) /\ MarkedAt(n)' = MarkedAt(n)
    BY DEF SameSends, ServedAt, FailedAt, MarkedAt
  <1>2. SendAhead(n)' <=> SendAhead(n)
    BY DEF SameSends, SendAhead, SendInHand
  <1>3. Waiting(n)' <=> Waiting(n)
    BY DEF SameSends, Waiting, Unserved
  <1>4. PollWillSend(n)' <=> PollWillSend(n)
    BY <1>2, <1>3 DEF SameSends, PollWillSend
  <1> QED
    BY <1>1, <1>4 DEF SameSends, SendsToCome, SendsAt, One

LEMMA SameRetriesCount ==
    ASSUME NEW n \in Notif, SameRetries(n)
    PROVE  /\ RetriesToCome(n)' = RetriesToCome(n)
           /\ \A p \in Pods : RetriesAt(p, n)' = RetriesAt(p, n)
  <1>1. LapsedAt(n)' = LapsedAt(n) /\ ClaimedAt(n)' = ClaimedAt(n)
    BY DEF SameRetries, LapsedAt, ClaimedAt, InTx
  <1>2. RetriedAt(n)' = RetriedAt(n)
    BY DEF SameRetries, RetriedAt
  <1>3. RetryAhead(n)' <=> RetryAhead(n)
    BY DEF SameRetries, RetryAhead, RetryInHand
  <1>4. ClaimWillSend(n)' <=> ClaimWillSend(n)
    BY <1>3 DEF SameRetries, ClaimWillSend, IsRetryTarget
  <1> QED
    BY <1>1, <1>2, <1>4 DEF SameRetries, RetriesToCome, RetriesAt, One

-----------------------------------------------------------------------------
(* Each step pays for the deliveries that it adds. *)

Paid(n) ==
    sent'[n] + SendsToCome(n)' + RetriesToCome(n)'
        <= sent[n] + SendsToCome(n) + RetriesToCome(n) + 2 * (faults' - faults)

LEMMA FaultCost ==
    ASSUME TypeOK
    PROVE  /\ faults \in Nat
           /\ NoFault => faults' = faults
           /\ \A kind : Fault(kind) => faults' = faults + 1
           /\ PublishFails => faults' = faults + 1
  BY FaultsAssumption DEF TypeOK, EnvTypeOK, FaultsOK, NoFault, Fault, PublishFails

LEMMA AtTypes ==
    ASSUME TypeOK, TypeOK', NEW p \in Pods, NEW n \in Notif
    PROVE  /\ SendsAt(p, n) \in Nat /\ RetriesAt(p, n) \in Nat
           /\ SendsAt(p, n)' \in Nat /\ RetriesAt(p, n)' \in Nat
           /\ sent[n] \in Nat /\ sent'[n] \in Nat
  <1>1. Types /\ Types'
    BY TypesOf, PTL
  <1>2. /\ sent[n] \in Nat /\ sent'[n] \in Nat
        /\ sendQ[n] \in Nat /\ sendQ'[n] \in Nat
        /\ retryQ[n] \in Nat /\ retryQ'[n] \in Nat
    BY <1>1 DEF Types
  <1> QED
    BY <1>2 DEF SendsAt, RetriesAt, One

\* A step of p that leaves the other pods alone need only account for p: i is
\* what the primary and the scheduled path come to owe, j what the retry path
\* does, and k the number of faults that pay.
LEMMA PaidByOne ==
    ASSUME TypeOK, TypeOK', NEW p \in Pods, NEW n \in Notif,
           NEW i \in Int, NEW j \in Int, NEW k \in Nat,
           faults' = faults + k, i + j <= 2 * k,
           \A q \in Pods : q # p =>
              /\ serving'[q] = serving[q] /\ sender'[q] = sender[q]
              /\ poll'[q] = poll[q] /\ claim'[q] = claim[q] /\ retrier'[q] = retrier[q],
           sent'[n] + SendsAt(p, n)' <= sent[n] + SendsAt(p, n) + i,
           RetriesAt(p, n)' <= RetriesAt(p, n) + j
    PROVE  Paid(n)
  <1>1. Types /\ Types'
    BY TypesOf, PTL
  <1>2. SendsToCome(n)' + SendsAt(p, n) <= SendsToCome(n) + SendsAt(p, n)'
    BY <1>1, OnePodSends
  <1>3. RetriesToCome(n)' + RetriesAt(p, n) <= RetriesToCome(n) + RetriesAt(p, n)'
    BY <1>1, OnePodRetries
  <1>4. /\ SendsToCome(n) \in Nat /\ RetriesToCome(n) \in Nat
        /\ SendsToCome(n)' \in Nat /\ RetriesToCome(n)' \in Nat
    BY <1>1, CountTypes, CountTypesNext DEF CountsAreNumbers
  <1>5. faults \in Nat
    BY FaultCost
  <1> QED
    BY <1>2, <1>3, <1>4, <1>5, AtTypes DEF Paid

\* A step that only concerns other notifications.
LEMMA PaidElsewhere ==
    ASSUME TypeOK, TypeOK', NEW n \in Notif, SameSends(n), SameRetries(n),
           sent'[n] = sent[n], faults' >= faults
    PROVE  Paid(n)
  <1>1. Types /\ Types'
    BY TypesOf, PTL
  <1>2. SendsToCome(n)' = SendsToCome(n) /\ RetriesToCome(n)' = RetriesToCome(n)
    BY SameSendsCount, SameRetriesCount
  <1>3. /\ SendsToCome(n) \in Nat /\ RetriesToCome(n) \in Nat /\ sent[n] \in Nat
    BY <1>1, CountTypes DEF CountsAreNumbers, Types
  <1>4. faults \in Nat /\ faults' \in Nat
    BY FaultsAssumption DEF TypeOK, EnvTypeOK, FaultsOK
  <1> QED
    BY <1>2, <1>3, <1>4 DEF Paid

\* What keeps the two paths from coming to owe a delivery.
LEMMA PollStays ==
    ASSUME NEW n \in Notif, dedup'[n] = dedup[n], Waiting(n)' => Waiting(n),
           SendAhead(n) => SendAhead(n)',
           \A q \in Pods : n \in poll'[q].rows => n \in poll[q].rows
    PROVE  PollWillSend(n)' => PollWillSend(n)
  BY DEF PollWillSend

LEMMA ClaimStays ==
    ASSUME NEW n \in Notif, IsRetryTarget(row'[n]) => IsRetryTarget(row[n]),
           row'[n].retryIn = row[n].retryIn, RetryAhead(n) => RetryAhead(n)'
    PROVE  ClaimWillSend(n)' => ClaimWillSend(n)
  BY DEF ClaimWillSend

LEMMA CreatingPaid ==
    ASSUME TypeOK, TypeOK', 0 \notin Schedules, NEW p \in Pods, Creating(p),
           NEW n \in Notif
    PROVE  Paid(n)
  <1>0. Types /\ Types'
    BY TypesOf, PTL
  <1>1. PICK m \in Notif, s \in Schedules : CreateRow(p, m, s)
    BY DEF Creating
  <1>2. /\ row' = [row EXCEPT ![m] = NewRow(s)]
        /\ UNCHANGED <<locked, sendQ, retryQ, sent, sender, claim, retrier, dedup, poll>>
        /\ row[m].status = "ABSENT"
        /\ \/ NoFault /\ serving' = [serving EXCEPT ![p] = @ \union {m}]
           \/ Fault("db") /\ serving' = serving
    BY <1>1 DEF Creating, CreateRow, retryVars, scheduledVars
  <1>3. CASE m # n
    <2>1. row'[n] = row[n] /\ \A q \in Pods : n \in serving'[q] <=> n \in serving[q]
      BY <1>0, <1>2, <1>3 DEF Types
    <2>2. SameSends(n) /\ SameRetries(n)
      BY <1>2, <2>1 DEF SameSends, SameRetries, InTx, RetryToPublish
    <2>3. faults' >= faults
      BY <1>2, FaultCost
    <2> QED
      BY <1>2, <2>2, <2>3, PaidElsewhere
  <1>4. CASE m = n
    <2>1. /\ row'[n].status = "PENDING" /\ row'[n].attempts = 0
          /\ row'[n].scheduledIn = s /\ s # 0
      BY <1>0, <1>2, <1>4 DEF Types, NewRow, NoRow
    <2>2. ~ClaimWillSend(n)'
      BY <2>1 DEF ClaimWillSend, IsRetryTarget
    <2>3. RetriesAt(p, n)' <= RetriesAt(p, n) + 0
      BY <1>0, <1>2, <2>2 DEF RetriesAt, One, Types, InTx, RetryToPublish
    <2>4. \A q \in Pods : q # p => serving'[q] = serving[q]
      BY <1>0, <1>2 DEF Types
    <2>5. CASE NoFault /\ serving' = [serving EXCEPT ![p] = @ \union {m}]
      <3>1. ~Waiting(n)'
        BY <1>0, <1>4, <2>1, <2>5 DEF Waiting, Unserved, Types
      <3>2. PollWillSend(n)' => PollWillSend(n)
        BY <1>2, <3>1 DEF PollWillSend
      <3>3. sent'[n] + SendsAt(p, n)' <= sent[n] + SendsAt(p, n) + 0
        BY <1>0, <1>2, <1>4, <2>1, <3>2 DEF SendsAt, One, Types
      <3> QED
        BY <1>0, <1>2, <2>3, <2>4, <2>5, <3>3, PaidByOne, FaultCost
    <2>6. CASE Fault("db") /\ serving' = serving
      <3>1. sent'[n] + SendsAt(p, n)' <= sent[n] + SendsAt(p, n) + 1
        BY <1>0, <1>2, <2>6 DEF SendsAt, One, Types
      <3> QED
        BY <1>0, <1>2, <2>3, <2>4, <2>6, <3>1, PaidByOne, FaultCost
    <2> QED
      BY <1>2, <2>5, <2>6
  <1> QED
    BY <1>3, <1>4

LEMMA AnsweringPaid ==
    ASSUME TypeOK, TypeOK', NEW p \in Pods, Answering(p), NEW n \in Notif
    PROVE  Paid(n)
  <1>0. Types /\ Types'
    BY TypesOf, PTL
  <1>1. PICK m \in Notif : FinishRequest(p, m)
    BY DEF Answering
  <1>2. /\ serving' = [serving EXCEPT ![p] = @ \ {m}] /\ m \in serving[p]
        /\ UNCHANGED <<row, retryQ, sent, sender, claim, retrier, dedup, poll>>
        /\ sendQ' \in {sendQ, Plus(sendQ, m)}
        /\ faults' \in {faults, faults + 1}
    BY <1>1, FaultCost DEF Answering, FinishRequest, Answer, retryVars, scheduledVars
  <1>3. CASE m # n
    <2>1. /\ sendQ'[n] = sendQ[n]
          /\ \A q \in Pods : n \in serving'[q] <=> n \in serving[q]
      BY <1>0, <1>2, <1>3 DEF Types, Plus
    <2>2. SameSends(n) /\ SameRetries(n)
      BY <1>2, <2>1 DEF SameSends, SameRetries, InTx, RetryToPublish
    <2> QED
      BY <1>2, <2>2, FaultCost, PaidElsewhere
  <1>4. CASE m = n
    <2>1. ClaimWillSend(n)' <=> ClaimWillSend(n)
      BY <1>2 DEF ClaimWillSend, RetryAhead, RetryInHand, RetryToPublish
    <2>2. RetriesAt(p, n)' <= RetriesAt(p, n) + 0
      BY <1>0, <1>2, <2>1 DEF RetriesAt, One, Types, InTx, RetryToPublish
    <2>3. \A q \in Pods : q # p => serving'[q] = serving[q]
      BY <1>0, <1>2 DEF Types
    <2>4. n \in serving[p] /\ n \notin serving'[p]
      BY <1>0, <1>2, <1>4 DEF Types
    <2>5. sent'[n] + SendsAt(p, n)' <= sent[n] + SendsAt(p, n) + 0
      <3>1. CASE row[n].scheduledIn > 0
        <4>0. row[n].scheduledIn \in Int
          BY <1>0 DEF Types, Rows, Times, NoTime
        <4>1. sendQ' = sendQ
          BY <1>1, <1>4, <3>1, <4>0 DEF FinishRequest
        <4> QED
          BY <1>0, <1>2, <2>4, <4>1 DEF SendsAt, One, Types
      <3>2. CASE ~(row[n].scheduledIn > 0)
        <4>1. row[n].scheduledIn \in {0, NoTime}
          BY <1>0, <3>2 DEF Types, Rows, Times, NoTime
        <4>2. Waiting(n)' => Waiting(n)
          BY <1>2, <4>1 DEF Waiting
        <4>3. sendQ'[n] \in {sendQ[n], sendQ[n] + 1}
          BY <1>0, <1>2, <1>4 DEF Types, Plus
        <4>4. SendAhead(n) => SendAhead(n)'
          BY <1>0, <1>2, <4>3 DEF SendAhead, SendInHand, Types
        <4>5. PollWillSend(n)' => PollWillSend(n)
          BY <1>2, <4>2, <4>4, PollStays
        <4> QED
          BY <1>0, <1>2, <2>4, <4>3, <4>5 DEF SendsAt, One, Types
      <3> QED
        BY <3>1, <3>2
    <2>6. PICK k \in {0, 1} : faults' = faults + k
      BY <1>2, FaultCost
    <2> QED
      BY <1>2, <2>2, <2>3, <2>5, <2>6, PaidByOne
  <1> QED
    BY <1>3, <1>4

LEMMA SendPrimaryPaid ==
    ASSUME TypeOK, TypeOK', NEW p \in Pods, NEW m \in Notif, SendPrimary(p, m),
           UNCHANGED <<retryVars, scheduledVars>>, NEW n \in Notif
    PROVE  Paid(n)
  <1>0. Types /\ Types'
    BY TypesOf, PTL
  <1>1. PICK outcome \in {"sent", "failed"} :
           Attempt(m, outcome) /\ sender' = [sender EXCEPT ![p] = Job(outcome, m)]
    BY DEF SendPrimary
  <1>2. /\ sender[p] = Idle /\ sendQ' = Minus(sendQ, m) /\ sendQ[m] > 0
        /\ UNCHANGED <<row, retryQ, serving, claim, retrier, dedup, poll>>
        /\ faults' \in {faults, faults + 1}
    BY <1>1, FaultCost DEF SendPrimary, Attempt, retryVars, scheduledVars
  <1>3. \A q \in Pods : q # p => sender'[q] = sender[q]
    BY <1>0, <1>1 DEF Types
  <1>4. sender'[p] = Job(outcome, m)
    BY <1>0, <1>1 DEF Types
  <1>5. CASE m # n
    <2>1. sendQ'[n] = sendQ[n] /\ sent'[n] = sent[n]
      BY <1>0, <1>1, <1>2, <1>5 DEF Types, Plus, Minus, Attempt
    <2>2. \A q \in Pods :
             /\ Handles(sender'[q], n) <=> Handles(sender[q], n)
             /\ At(sender'[q], "failed", n) <=> At(sender[q], "failed", n)
      BY <1>2, <1>3, <1>4, <1>5, JobOf DEF Handles
    <2>3. SameSends(n) /\ SameRetries(n)
      BY <1>2, <2>1, <2>2 DEF SameSends, SameRetries, InTx, RetryToPublish
    <2> QED
      BY <1>2, <2>1, <2>3, FaultCost, PaidElsewhere
  <1>6. CASE m = n
    <2>1. ClaimWillSend(n)' <=> ClaimWillSend(n)
      BY <1>2 DEF ClaimWillSend, RetryAhead, RetryInHand, RetryToPublish
    <2>2. RetriesAt(p, n)' <= RetriesAt(p, n) + 0
      BY <1>0, <1>2, <2>1 DEF RetriesAt, One, Types, InTx, RetryToPublish
    <2>3. SendAhead(n)'
      BY <1>4, <1>6, JobOf DEF SendAhead, SendInHand, Handles, Job
    <2>4. PollWillSend(n)' => PollWillSend(n)
      BY <1>2, <2>3, PollStays DEF Waiting, Unserved
    <2>5. sendQ'[n] = sendQ[n] - 1
      BY <1>0, <1>2, <1>6 DEF Types, Minus
    <2>6. ~At(sender[p], "failed", n) /\ (At(sender'[p], "failed", n) <=> outcome = "failed")
      BY <1>2, <1>4, <1>6, JobOf
    <2>7. CASE NoFault
      <3>1. \/ outcome = "sent" /\ sent'[n] = sent[n] + 1
            \/ outcome = "failed" /\ sent'[n] = sent[n]
        BY <1>0, <1>1, <1>6, <2>7, FaultCost DEF Attempt, Plus, Types
      <3>2. sent'[n] + SendsAt(p, n)' <= sent[n] + SendsAt(p, n) + 0
        BY <1>0, <1>2, <2>4, <2>5, <2>6, <3>1 DEF SendsAt, One, Types
      <3> QED
        BY <1>2, <1>3, <2>2, <2>7, <3>2, PaidByOne, FaultCost
    <2>8. CASE Fault("partial") /\ sent' = Plus(sent, m)
      <3>1. sent'[n] = sent[n] + 1
        BY <1>0, <1>6, <2>8 DEF Plus, Types
      <3>2. sent'[n] + SendsAt(p, n)' <= sent[n] + SendsAt(p, n) + 1
        BY <1>0, <1>2, <2>4, <2>5, <2>6, <3>1 DEF SendsAt, One, Types
      <3> QED
        BY <1>2, <1>3, <2>2, <2>8, <3>2, PaidByOne, FaultCost
    <2> QED
      BY <1>1, <2>7, <2>8 DEF Attempt
  <1> QED
    BY <1>5, <1>6

LEMMA RecordPrimaryPaid ==
    ASSUME TypeOK, TypeOK', NEW p \in Pods, RecordPrimary(p),
           UNCHANGED <<retryVars, scheduledVars>>, NEW n \in Notif
    PROVE  Paid(n)
  <1>0. Types /\ Types'
    BY TypesOf, PTL
  <1> DEFINE m == sender[p].n
  <1>1. sender[p] \in Jobs /\ sender[p].pc \in {"sent", "failed"} /\ m \in Notif
    BY <1>0 DEF RecordPrimary, Types, Idle, Jobs
  <1>2. /\ sender' = [sender EXCEPT ![p] = Job("acking", m)]
        /\ UNCHANGED <<sendQ, sent, retryQ, serving, claim, retrier, dedup, poll>>
        /\ \/ NoFault /\ row' = [row EXCEPT ![m] = IF sender[p].pc = "sent"
                                                   THEN AfterFirstSuccess(@)
                                                   ELSE AfterSendFailure(@)]
           \/ Fault("db") /\ row' = row
    BY DEF RecordPrimary, retryVars, scheduledVars
  <1>3. faults' \in {faults, faults + 1}
    BY <1>2, FaultCost
  <1>4. /\ \A q \in Pods : q # p => sender'[q] = sender[q]
        /\ sender'[p] = Job("acking", m)
    BY <1>0, <1>2 DEF Types
  <1>5. Holds(sender[p], n) <=> n = m
    BY <1>1 DEF Holds, Jobs, Idle
  <1>6. CASE m # n
    <2>1. row'[n] = row[n]
      BY <1>0, <1>2, <1>6 DEF Types
    <2>2. \A q \in Pods :
             /\ Handles(sender'[q], n) <=> Handles(sender[q], n)
             /\ At(sender'[q], "failed", n) <=> At(sender[q], "failed", n)
      BY <1>4, <1>5, <1>6, JobOf DEF Handles, At
    <2>3. SameSends(n) /\ SameRetries(n)
      BY <1>2, <2>1, <2>2 DEF SameSends, SameRetries, InTx, RetryToPublish
    <2> QED
      BY <1>2, <1>3, <2>1, <2>3, FaultCost, PaidElsewhere
  <1>7. CASE m = n
    <2>0. /\ ~At(sender'[p], "failed", n)
          /\ At(sender[p], "failed", n) <=> sender[p].pc = "failed"
      BY <1>4, <1>5, <1>7, JobOf DEF At
    <2>1. CASE Fault("db") /\ row' = row
      <3>1. ClaimWillSend(n)' <=> ClaimWillSend(n)
        BY <1>2, <2>1 DEF ClaimWillSend, RetryAhead, RetryInHand, RetryToPublish
      <3>2. RetriesAt(p, n)' <= RetriesAt(p, n) + 0
        BY <1>0, <1>2, <3>1 DEF RetriesAt, One, Types, InTx, RetryToPublish
      <3>3. sent'[n] + SendsAt(p, n)' <= sent[n] + SendsAt(p, n) + 1
        BY <1>0, <1>2, <2>0, <2>1 DEF SendsAt, One, Types
      <3> QED
        BY <1>2, <1>4, <2>1, <3>2, <3>3, PaidByOne, FaultCost
    <2>2. CASE /\ NoFault
               /\ row' = [row EXCEPT ![m] = IF sender[p].pc = "sent"
                                            THEN AfterFirstSuccess(@)
                                            ELSE AfterSendFailure(@)]
      <3>0. row[n] \in Rows
        BY <1>0 DEF Types
      <3>1. CASE sender[p].pc = "sent"
        <4>1. row'[n] = AfterFirstSuccess(row[n])
          BY <1>0, <1>7, <2>2, <3>1 DEF Types
        <4>2. row'[n].status = "COMPLETED"
          BY <3>0, <4>1, WrittenRow
        <4>3. ~Waiting(n)' /\ ~ClaimWillSend(n)'
          BY <4>2 DEF Waiting, ClaimWillSend, IsRetryTarget
        <4>4. PollWillSend(n)' => PollWillSend(n)
          BY <1>2, <4>3 DEF PollWillSend
        <4>5. RetriesAt(p, n)' <= RetriesAt(p, n) + 0
          BY <1>0, <1>2, <4>3 DEF RetriesAt, One, Types, InTx, RetryToPublish
        <4>6. sent'[n] + SendsAt(p, n)' <= sent[n] + SendsAt(p, n) + 0
          BY <1>0, <1>2, <2>0, <4>2, <4>4 DEF SendsAt, One, Types
        <4> QED
          BY <1>2, <1>4, <2>2, <4>5, <4>6, PaidByOne, FaultCost
      <3>2. CASE sender[p].pc = "failed"
        <4>1. row'[n] = AfterSendFailure(row[n])
          BY <1>0, <1>7, <2>2, <3>2 DEF Types
        <4>2. /\ row'[n].attempts = row[n].attempts + 1
              /\ row'[n].status \in {row[n].status, "FAILED"}
          BY <3>0, <4>1, FailedRow
        <4>3. ~Waiting(n)'
          BY <3>0, <4>2 DEF Waiting, Rows
        <4>4. PollWillSend(n)' => PollWillSend(n)
          BY <1>2, <4>3 DEF PollWillSend
        <4>5. RetriesAt(p, n)' <= RetriesAt(p, n) + 1
          BY <1>0, <1>2 DEF RetriesAt, One, Types, InTx, RetryToPublish
        <4>6. sent'[n] + SendsAt(p, n)' <= sent[n] + SendsAt(p, n) - 1
          BY <1>0, <1>2, <2>0, <3>2, <4>2, <4>4 DEF SendsAt, One, Types
        <4> DEFINE i == 0 - 1
        <4>7. /\ sent'[n] + SendsAt(p, n)' <= sent[n] + SendsAt(p, n) + i
              /\ i \in Int /\ i + 1 <= 2 * 0
          BY <4>6, AtTypes
        <4>8. faults' = faults + 0
          BY <2>2, FaultCost
        <4> HIDE DEF i
        <4> QED
          BY <1>2, <1>4, <4>5, <4>7, <4>8, PaidByOne
      <3> QED
        BY <1>1, <3>1, <3>2
    <2> QED
      BY <1>2, <2>1, <2>2
  <1> QED
    BY <1>6, <1>7

LEMMA SendingPaid ==
    ASSUME TypeOK, TypeOK', NEW p \in Pods, Sending(p), NEW n \in Notif
    PROVE  Paid(n)
  <1>1. CASE AckPrimary(p)
    <2>1. /\ sender' = [sender EXCEPT ![p] = Idle] /\ sender[p].pc = "acking"
          /\ UNCHANGED <<row, sendQ, sent, retryQ, faults, serving, claim, retrier, dedup,
                         poll>>
      BY <1>1 DEF Sending, AckPrimary, envVars, retryVars, scheduledVars
    <2>2. \A q \in Pods :
             /\ Handles(sender'[q], n) <=> Handles(sender[q], n)
             /\ At(sender'[q], "failed", n) <=> At(sender[q], "failed", n)
      BY <2>1, TypesOf DEF Types, Handles, At, Holds, Idle
    <2>3. SameSends(n) /\ SameRetries(n)
      BY <2>1, <2>2 DEF SameSends, SameRetries, InTx, RetryToPublish
    <2> QED
      BY <2>1, <2>3, FaultCost, PaidElsewhere
  <1> QED
    BY <1>1, SendPrimaryPaid, RecordPrimaryPaid DEF Sending

LEMMA ClaimRetriesPaid ==
    ASSUME TypeOK, TypeOK', NEW p \in Pods, ClaimRetries(p),
           UNCHANGED <<primaryVars, scheduledVars>>, NEW n \in Notif
    PROVE  Paid(n)
  <1>0. Types /\ Types'
    BY TypesOf, PTL
  <1>1. PICK S : claim' = [claim EXCEPT ![p] =
                              [pc |-> "tx", rows |-> S, leaseIn |-> PublishLease]]
    BY DEF ClaimRetries
  <1>2. /\ claim[p].pc = "idle"
        /\ UNCHANGED <<row, sendQ, sent, retryQ, faults, serving, sender, retrier, dedup, poll>>
    BY DEF ClaimRetries, envVars, primaryVars, scheduledVars
  <1>3. /\ \A q \in Pods : q # p => claim'[q] = claim[q]
        /\ claim'[p].pc = "tx" /\ claim'[p].leaseIn # 0
    BY <1>0, <1>1, LeaseAssumption DEF Types
  <1>4. \A q \in Pods : RetryToPublish(q, n)' <=> RetryToPublish(q, n)
    BY <1>2, <1>3 DEF RetryToPublish
  <1>5. ClaimWillSend(n)' <=> ClaimWillSend(n)
    BY <1>2, <1>4 DEF ClaimWillSend, RetryAhead, RetryInHand
  <1>6. RetriesAt(p, n)' <= RetriesAt(p, n) + 0
    BY <1>0, <1>2, <1>3, <1>4, <1>5 DEF RetriesAt, One, Types, InTx
  <1>7. SameSends(n)
    BY <1>2 DEF SameSends
  <1>8. SendsAt(p, n)' = SendsAt(p, n)
    BY <1>7, SameSendsCount
  <1>9. faults' = faults + 0 /\ sent'[n] + SendsAt(p, n)' <= sent[n] + SendsAt(p, n) + 0
    BY <1>2, <1>8, AtTypes, FaultCost
  <1> QED
    BY <1>2, <1>3, <1>6, <1>9, PaidByOne

LEMMA CommitClaimPaid ==
    ASSUME TypeOK, TypeOK', ClaimsAreExclusive, NEW p \in Pods, CommitClaim(p),
           UNCHANGED <<primaryVars, scheduledVars>>, NEW n \in Notif
    PROVE  Paid(n)
  <1>0. Types /\ Types'
    BY TypesOf, PTL
  <1>1. /\ claim' = [claim EXCEPT ![p] =
                       [pc |-> "publish", rows |-> claim[p].rows, leaseIn |-> 0]]
        /\ claim[p].pc = "tx"
        /\ row' = [k \in Notif |-> IF k \in claim[p].rows
                                   THEN Leased(row[k], claim[p].leaseIn) ELSE row[k]]
        /\ UNCHANGED <<sendQ, sent, retryQ, faults, serving, sender, retrier, dedup, poll>>
    BY DEF CommitClaim, LeaseRows, envVars, primaryVars, scheduledVars
  <1>2. /\ \A q \in Pods : q # p => claim'[q] = claim[q]
        /\ claim'[p].pc = "publish" /\ claim'[p].rows = claim[p].rows
    BY <1>0, <1>1 DEF Types
  <1>3. CASE n \notin claim[p].rows
    <2>1. row'[n] = row[n]
      BY <1>1, <1>3
    <2>2. SameSends(n) /\ SameRetries(n)
      BY <1>1, <1>2, <1>3, <2>1 DEF SameSends, SameRetries, InTx, RetryToPublish
    <2> QED
      BY <1>1, <2>2, FaultCost, PaidElsewhere
  <1>4. CASE n \in claim[p].rows
    <2> DEFINE lease == claim[p].leaseIn
    <2>1. IsRetryDue(row[n]) /\ row[n] \in Rows /\ lease \in Nat
      BY <1>0, <1>1, <1>4, ClaimsRestated DEF InTx, Types, Claims
    <2>2. /\ row'[n].status = row[n].status /\ row'[n].attempts = row[n].attempts
          /\ row'[n].scheduledIn = row[n].scheduledIn /\ row'[n].retryIn = lease
      BY <1>1, <1>4, <2>1 DEF Leased, Rows
    <2>3. SameSends(n)
      BY <1>1, <2>2 DEF SameSends
    <2>4. ClaimWillSend(n)
      BY <2>1 DEF ClaimWillSend, IsRetryDue
    <2>5. /\ InTx(p, n) /\ ~RetryToPublish(p, n)
          /\ ~InTx(p, n)' /\ RetryToPublish(p, n)'
      BY <1>1, <1>2, <1>4 DEF InTx, RetryToPublish
    <2>6. RetryAhead(n)'
      BY <2>5 DEF RetryAhead, RetryInHand
    <2>7. lease # 0 => ~ClaimWillSend(n)'
      BY <2>1, <2>2, <2>6 DEF ClaimWillSend
    <2>8. RetriesAt(p, n)' <= RetriesAt(p, n) + 0
      BY <1>0, <1>1, <2>4, <2>5, <2>7 DEF RetriesAt, One, Types
    <2>9. /\ faults' = faults + 0
          /\ sent'[n] + SendsAt(p, n)' <= sent[n] + SendsAt(p, n) + 0
      BY <1>1, <2>3, SameSendsCount, AtTypes, FaultCost
    <2> QED
      BY <1>1, <1>2, <2>8, <2>9, PaidByOne
  <1> QED
    BY <1>3, <1>4

LEMMA AbortClaimPaid ==
    ASSUME TypeOK, TypeOK', NEW p \in Pods, AbortClaim(p),
           UNCHANGED <<primaryVars, scheduledVars>>, NEW n \in Notif
    PROVE  Paid(n)
  <1>0. Types /\ Types'
    BY TypesOf, PTL
  <1>1. /\ claim' = [claim EXCEPT ![p] = NoClaim]
        /\ Fault("db")
        /\ row' = row \/ row' = [k \in Notif |-> IF k \in claim[p].rows
                                                 THEN Leased(row[k], claim[p].leaseIn)
                                                 ELSE row[k]]
        /\ UNCHANGED <<sendQ, sent, retryQ, serving, sender, retrier, dedup, poll>>
    BY DEF AbortClaim, LeaseRows, primaryVars, scheduledVars
  <1>2. /\ \A q \in Pods : q # p => claim'[q] = claim[q]
        /\ claim'[p].pc = "idle"
    BY <1>0, <1>1 DEF Types, NoClaim
  <1>3. /\ row'[n].status = row[n].status /\ row'[n].attempts = row[n].attempts
        /\ row'[n].scheduledIn = row[n].scheduledIn
    BY <1>0, <1>1 DEF Leased, Rows, Types
  <1>4. SameSends(n)
    BY <1>1, <1>3 DEF SameSends
  <1>5. RetriesAt(p, n)' <= RetriesAt(p, n) + 1
    BY <1>0, <1>1, <1>2 DEF RetriesAt, One, Types, InTx, RetryToPublish
  <1>6. /\ faults' = faults + 1
        /\ sent'[n] + SendsAt(p, n)' <= sent[n] + SendsAt(p, n) + 0
    BY <1>1, <1>4, SameSendsCount, AtTypes, FaultCost
  <1> QED
    BY <1>1, <1>2, <1>5, <1>6, PaidByOne

LEMMA PublishRetryPaid ==
    ASSUME TypeOK, TypeOK', NEW p \in Pods, NEW m \in Notif, PublishRetry(p, m),
           UNCHANGED <<primaryVars, scheduledVars>>, NEW n \in Notif
    PROVE  Paid(n)
  <1>0. Types /\ Types'
    BY TypesOf, PTL
  <1>1. /\ claim' = [claim EXCEPT ![p] = Without(claim[p], m)]
        /\ claim[p].pc = "publish" /\ m \in claim[p].rows
        /\ \/ NoFault /\ retryQ' = Plus(retryQ, m)
           \/ PublishFails /\ retryQ' = retryQ
        /\ UNCHANGED <<row, sendQ, sent, serving, sender, retrier, dedup, poll>>
    BY DEF PublishRetry, storeVars, primaryVars, scheduledVars
  <1>2. /\ \A q \in Pods : q # p => claim'[q] = claim[q]
        /\ claim'[p].pc # "tx"
        /\ RetryToPublish(p, n)' <=> RetryToPublish(p, n) /\ n # m
    BY <1>0, <1>1 DEF Types, Without, NoClaim, Claims, RetryToPublish
  <1>3. SameSends(n)
    BY <1>1 DEF SameSends
  <1>4. PICK k \in {0, 1} : faults' = faults + k /\ (k = 0 => retryQ' = Plus(retryQ, m))
                            /\ (k = 1 => retryQ' = retryQ)
    BY <1>1, FaultCost
  <1>5. CASE m # n
    <2>1. retryQ'[n] = retryQ[n]
      BY <1>0, <1>1, <1>5 DEF Types, Plus
    <2>2. SameRetries(n)
      BY <1>1, <1>2, <1>5, <2>1 DEF SameRetries, InTx, RetryToPublish
    <2> QED
      BY <1>1, <1>3, <1>4, <2>2, FaultCost, PaidElsewhere
  <1>6. CASE m = n
    <2>1. /\ RetryToPublish(p, n) /\ ~RetryToPublish(p, n)'
          /\ ~InTx(p, n) /\ ~InTx(p, n)'
      BY <1>1, <1>2, <1>6 DEF RetryToPublish, InTx
    <2>2. k = 0 => retryQ'[n] = retryQ[n] + 1
      BY <1>0, <1>4, <1>6 DEF Types, Plus
    <2>3. k = 0 => (ClaimWillSend(n)' => ClaimWillSend(n))
      BY <1>0, <1>1, <2>2, ClaimStays DEF RetryAhead, Types
    <2>4. RetriesAt(p, n)' <= RetriesAt(p, n) + 0
      <3>1. CASE k = 0
        BY <1>0, <1>1, <2>1, <2>2, <2>3, <3>1 DEF RetriesAt, One, Types
      <3>2. CASE k = 1
        BY <1>0, <1>1, <1>4, <2>1, <3>2 DEF RetriesAt, One, Types
      <3> QED
        BY <3>1, <3>2
    <2>5. sent'[n] + SendsAt(p, n)' <= sent[n] + SendsAt(p, n) + 0
      BY <1>1, <1>3, SameSendsCount, AtTypes
    <2> QED
      BY <1>1, <1>2, <1>4, <2>4, <2>5, PaidByOne
  <1> QED
    BY <1>5, <1>6

LEMMA ClaimingPaid ==
    ASSUME TypeOK, TypeOK', ClaimsAreExclusive, NEW p \in Pods, Claiming(p), NEW n \in Notif
    PROVE  Paid(n)
  BY ClaimRetriesPaid, CommitClaimPaid, AbortClaimPaid, PublishRetryPaid DEF Claiming

LEMMA LoadRetryPaid ==
    ASSUME TypeOK, TypeOK', NEW p \in Pods, NEW m \in Notif, LoadRetry(p, m),
           UNCHANGED <<primaryVars, scheduledVars>>, NEW n \in Notif
    PROVE  Paid(n)
  <1>0. Types /\ Types'
    BY TypesOf, PTL
  <1>1. /\ retrier[p] = Idle /\ retryQ[m] > 0 /\ retryQ' = Minus(retryQ, m)
        /\ UNCHANGED <<row, sendQ, sent, serving, sender, claim, dedup, poll>>
    BY DEF LoadRetry, storeVars, primaryVars, scheduledVars
  <1>2. PICK pc \in {"loaded", "acking"} :
           /\ retrier' = [retrier EXCEPT ![p] = Job(pc, m)]
           /\ \/ NoFault /\ (pc = "acking" => ~IsRetryTarget(row[m]))
              \/ Fault("db") /\ pc = "acking"
    BY DEF LoadRetry
  <1>3. /\ \A q \in Pods : q # p => retrier'[q] = retrier[q]
        /\ retrier'[p] = Job(pc, m)
    BY <1>0, <1>2 DEF Types
  <1>4. SameSends(n)
    BY <1>1 DEF SameSends
  <1>5. CASE m # n
    <2>1. retryQ'[n] = retryQ[n]
      BY <1>0, <1>1, <1>5 DEF Types, Minus
    <2>2. \A q \in Pods :
             /\ Handles(retrier'[q], n) <=> Handles(retrier[q], n)
             /\ At(retrier'[q], "loaded", n) <=> At(retrier[q], "loaded", n)
             /\ At(retrier'[q], "failed", n) <=> At(retrier[q], "failed", n)
      BY <1>1, <1>3, <1>5, JobOf DEF Handles
    <2>3. SameRetries(n)
      BY <1>1, <2>1, <2>2 DEF SameRetries, InTx, RetryToPublish
    <2> QED
      BY <1>1, <1>2, <1>4, <2>3, FaultCost, PaidElsewhere
  <1>6. CASE m = n
    <2>1. retryQ'[n] = retryQ[n] - 1
      BY <1>0, <1>1, <1>6 DEF Types, Minus
    <2>2. /\ ~At(retrier[p], "loaded", n) /\ ~At(retrier[p], "failed", n)
          /\ ~At(retrier'[p], "failed", n)
          /\ At(retrier'[p], "loaded", n) <=> pc = "loaded"
      BY <1>1, <1>3, <1>6, JobOf
    <2>3. pc = "loaded" => RetryAhead(n)'
      BY <1>3, <1>6, JobOf DEF RetryAhead, RetryInHand, Handles, Job
    <2>4. sent'[n] + SendsAt(p, n)' <= sent[n] + SendsAt(p, n) + 0
      BY <1>1, <1>4, SameSendsCount, AtTypes
    <2>5. CASE NoFault /\ (pc = "acking" => ~IsRetryTarget(row[m]))
      <3>1. ClaimWillSend(n)' => ClaimWillSend(n)
        BY <1>1, <1>6, <2>3, <2>5, ClaimStays DEF ClaimWillSend
      <3>2. RetriesAt(p, n)' <= RetriesAt(p, n) + 0
        BY <1>0, <1>1, <2>1, <2>2, <3>1 DEF RetriesAt, One, Types, InTx, RetryToPublish
      <3> QED
        BY <1>1, <1>3, <2>4, <2>5, <3>2, FaultCost, PaidByOne
    <2>6. CASE Fault("db") /\ pc = "acking"
      <3>1. RetriesAt(p, n)' <= RetriesAt(p, n) + 0
        BY <1>0, <1>1, <2>1, <2>2, <2>6 DEF RetriesAt, One, Types, InTx, RetryToPublish
      <3> QED
        BY <1>1, <1>3, <2>4, <2>6, <3>1, FaultCost, PaidByOne
    <2> QED
      BY <1>2, <2>5, <2>6
  <1> QED
    BY <1>5, <1>6

LEMMA SendRetryPaid ==
    ASSUME TypeOK, TypeOK', NEW p \in Pods, SendRetry(p),
           UNCHANGED <<primaryVars, scheduledVars>>, NEW n \in Notif
    PROVE  Paid(n)
  <1>0. Types /\ Types'
    BY TypesOf, PTL
  <1> DEFINE m == retrier[p].n
  <1>1. retrier[p] \in Jobs /\ retrier[p].pc = "loaded" /\ m \in Notif
    BY <1>0 DEF SendRetry, Types, Idle, Jobs
  <1>2. PICK outcome \in {"sent", "failed"} :
           Attempt(m, outcome) /\ retrier' = [retrier EXCEPT ![p].pc = outcome]
    BY DEF SendRetry
  <1>3. UNCHANGED <<row, sendQ, retryQ, serving, sender, claim, dedup, poll>>
    BY DEF SendRetry, storeVars, primaryVars, scheduledVars
  <1>4. /\ \A q \in Pods : q # p => retrier'[q] = retrier[q]
        /\ retrier'[p] \in Jobs /\ retrier'[p].pc = outcome /\ retrier'[p].n = m
    BY <1>0, <1>1, <1>2 DEF Types, Jobs
  <1>5. SameSends(n)
    BY <1>3 DEF SameSends
  <1>6. /\ Holds(retrier[p], n) <=> n = m
        /\ Holds(retrier'[p], n) <=> n = m
    BY <1>1, <1>4 DEF Holds, Jobs, Idle
  <1>7. \A q \in Pods : Handles(retrier'[q], n) <=> Handles(retrier[q], n)
    BY <1>1, <1>4, <1>6 DEF Handles
  <1>8. CASE m # n
    <2>1. \A q \in Pods :
             /\ At(retrier'[q], "loaded", n) <=> At(retrier[q], "loaded", n)
             /\ At(retrier'[q], "failed", n) <=> At(retrier[q], "failed", n)
      BY <1>4, <1>6, <1>8 DEF At
    <2>2. SameRetries(n)
      BY <1>3, <1>7, <2>1 DEF SameRetries, InTx, RetryToPublish
    <2>3. sent'[n] = sent[n] /\ faults' >= faults
      BY <1>0, <1>1, <1>2, <1>8, FaultCost DEF Attempt, Plus, Types
    <2> QED
      BY <1>5, <2>2, <2>3, PaidElsewhere
  <1>9. CASE m = n
    <2>1. /\ At(retrier[p], "loaded", n) /\ ~At(retrier[p], "failed", n)
          /\ ~At(retrier'[p], "loaded", n)
          /\ At(retrier'[p], "failed", n) <=> outcome = "failed"
      BY <1>1, <1>4, <1>6, <1>9 DEF At
    <2>2. ClaimWillSend(n)' <=> ClaimWillSend(n)
      BY <1>3, <1>7 DEF ClaimWillSend, RetryAhead, RetryInHand, RetryToPublish
    <2>3. SendsAt(p, n)' = SendsAt(p, n)
      BY <1>5, SameSendsCount
    <2>4. CASE outcome = "sent"
      <3>1. sent'[n] = sent[n] + 1 /\ faults' = faults + 0
        BY <1>0, <1>2, <1>9, <2>4, FaultCost DEF Attempt, Plus, Types
      <3> DEFINE j == 0 - 1
      <3>2. RetriesAt(p, n)' <= RetriesAt(p, n) + j
        BY <1>0, <1>3, <2>1, <2>2, <2>4 DEF RetriesAt, One, Types, InTx, RetryToPublish
      <3>3. sent'[n] + SendsAt(p, n)' <= sent[n] + SendsAt(p, n) + 1
        BY <2>3, <3>1, AtTypes
      <3>4. j \in Int /\ 1 + j <= 2 * 0
        OBVIOUS
      <3> HIDE DEF j
      <3> QED
        BY <1>3, <1>4, <3>1, <3>2, <3>3, <3>4, PaidByOne
    <2>5. CASE outcome = "failed"
      <3>1. PICK k \in {0, 1} : faults' = faults + k /\ sent'[n] <= sent[n] + k
        BY <1>0, <1>2, <1>9, <2>5, FaultCost DEF Attempt, Plus, Types
      <3>2. RetriesAt(p, n)' <= RetriesAt(p, n) + 0
        BY <1>0, <1>3, <2>1, <2>2, <2>5 DEF RetriesAt, One, Types, InTx, RetryToPublish
      <3>3. sent'[n] + SendsAt(p, n)' <= sent[n] + SendsAt(p, n) + k
        BY <2>3, <3>1, AtTypes
      <3>4. k \in Nat /\ k \in Int /\ k + 0 <= 2 * k
        OBVIOUS
      <3> QED
        BY <1>3, <1>4, <3>1, <3>2, <3>3, <3>4, PaidByOne
    <2> QED
      BY <2>4, <2>5
  <1> QED
    BY <1>8, <1>9

LEMMA RecordRetryPaid ==
    ASSUME TypeOK, TypeOK', NEW p \in Pods, RecordRetry(p),
           UNCHANGED <<primaryVars, scheduledVars>>, NEW n \in Notif
    PROVE  Paid(n)
  <1>0. Types /\ Types'
    BY TypesOf, PTL
  <1> DEFINE m == retrier[p].n
  <1>1. retrier[p] \in Jobs /\ retrier[p].pc \in {"sent", "failed"} /\ m \in Notif
    BY <1>0 DEF RecordRetry, Types, Idle, Jobs
  <1>2. /\ retrier' = [retrier EXCEPT ![p].pc = "acking"]
        /\ UNCHANGED <<sendQ, sent, retryQ, serving, sender, claim, dedup, poll>>
        /\ \/ NoFault /\ row' = [row EXCEPT ![m] = IF retrier[p].pc = "sent"
                                                   THEN AfterRetrySuccess(@)
                                                   ELSE AfterSendFailure(@)]
           \/ Fault("db") /\ row' = row
    BY DEF RecordRetry, primaryVars, scheduledVars
  <1>3. faults' \in {faults, faults + 1}
    BY <1>2, FaultCost
  <1>4. /\ \A q \in Pods : q # p => retrier'[q] = retrier[q]
        /\ retrier'[p] \in Jobs /\ retrier'[p].pc = "acking" /\ retrier'[p].n = m
    BY <1>0, <1>1, <1>2 DEF Types, Jobs
  <1>5. Holds(retrier[p], n) <=> n = m
    BY <1>1 DEF Holds, Jobs, Idle
  <1>6. ~Handles(retrier'[p], n) /\ ~At(retrier'[p], "loaded", n)
        /\ ~At(retrier'[p], "failed", n) /\ ~At(retrier[p], "loaded", n)
    BY <1>1, <1>4 DEF Handles, At
  <1>7. CASE m # n
    <2>1. row'[n] = row[n]
      BY <1>0, <1>2, <1>7 DEF Types
    <2>2. \A q \in Pods :
             /\ Handles(retrier'[q], n) <=> Handles(retrier[q], n)
             /\ At(retrier'[q], "loaded", n) <=> At(retrier[q], "loaded", n)
             /\ At(retrier'[q], "failed", n) <=> At(retrier[q], "failed", n)
      BY <1>4, <1>5, <1>6, <1>7 DEF Handles, At
    <2>3. SameSends(n) /\ SameRetries(n)
      BY <1>2, <2>1, <2>2 DEF SameSends, SameRetries, InTx, RetryToPublish
    <2> QED
      BY <1>2, <1>3, <2>3, FaultCost, PaidElsewhere
  <1>8. CASE m = n
    <2>0. At(retrier[p], "failed", n) <=> retrier[p].pc = "failed"
      BY <1>5, <1>8 DEF At
    <2>1. CASE Fault("db") /\ row' = row
      <3>1. SameSends(n)
        BY <1>2, <2>1 DEF SameSends
      <3>2. RetriesAt(p, n)' <= RetriesAt(p, n) + 1
        BY <1>0, <1>2, <1>6 DEF RetriesAt, One, Types, InTx, RetryToPublish
      <3>3. sent'[n] + SendsAt(p, n)' <= sent[n] + SendsAt(p, n) + 0
        BY <1>2, <3>1, SameSendsCount, AtTypes
      <3> QED
        BY <1>2, <1>4, <2>1, <3>2, <3>3, PaidByOne, FaultCost
    <2>2. CASE /\ NoFault
               /\ row' = [row EXCEPT ![m] = IF retrier[p].pc = "sent"
                                            THEN AfterRetrySuccess(@)
                                            ELSE AfterSendFailure(@)]
      <3>0. row[n] \in Rows
        BY <1>0 DEF Types
      <3>1. /\ ~Waiting(n)'
            /\ row'[n].status # "ABSENT" \/ row[n].status = "ABSENT"
            /\ retrier[p].pc = "sent" => row'[n].status = "COMPLETED"
        <4>1. CASE retrier[p].pc = "sent"
          <5>1. row'[n] = AfterRetrySuccess(row[n])
            BY <1>0, <1>8, <2>2, <4>1 DEF Types
          <5> QED
            BY <3>0, <5>1, WrittenRow DEF Waiting
        <4>2. CASE retrier[p].pc = "failed"
          <5>1. row'[n] = AfterSendFailure(row[n])
            BY <1>0, <1>8, <2>2, <4>2 DEF Types
          <5>2. /\ row'[n].attempts = row[n].attempts + 1
                /\ row'[n].status \in {row[n].status, "FAILED"}
            BY <3>0, <5>1, FailedRow
          <5> QED
            BY <3>0, <4>2, <5>2 DEF Waiting, Rows
        <4> QED
          BY <1>1, <4>1, <4>2
      <3>2. PollWillSend(n)' => PollWillSend(n)
        BY <1>2, <3>1 DEF PollWillSend
      <3>3. sent'[n] + SendsAt(p, n)' <= sent[n] + SendsAt(p, n) + 0
        BY <1>0, <1>2, <3>1, <3>2 DEF SendsAt, One, Types
      <3>4. retrier[p].pc = "sent" => ~ClaimWillSend(n)'
        BY <3>1 DEF ClaimWillSend, IsRetryTarget
      <3>5. RetriesAt(p, n)' <= RetriesAt(p, n) + 0
        BY <1>0, <1>1, <1>2, <1>6, <2>0, <3>4
        DEF RetriesAt, One, Types, InTx, RetryToPublish
      <3>6. faults' = faults + 0
        BY <2>2, FaultCost
      <3> QED
        BY <1>2, <1>4, <3>3, <3>5, <3>6, PaidByOne
    <2> QED
      BY <1>2, <2>1, <2>2
  <1> QED
    BY <1>7, <1>8

LEMMA RetryingPaid ==
    ASSUME TypeOK, TypeOK', NEW p \in Pods, Retrying(p), NEW n \in Notif
    PROVE  Paid(n)
  <1>1. CASE AckRetry(p)
    <2>1. /\ retrier' = [retrier EXCEPT ![p] = Idle] /\ retrier[p].pc = "acking"
          /\ UNCHANGED <<row, sendQ, sent, retryQ, faults, serving, sender, claim, dedup,
                         poll>>
      BY <1>1 DEF Retrying, AckRetry, storeVars, envVars, primaryVars, scheduledVars
    <2>2. \A q \in Pods :
             /\ Handles(retrier'[q], n) <=> Handles(retrier[q], n)
             /\ At(retrier'[q], "loaded", n) <=> At(retrier[q], "loaded", n)
             /\ At(retrier'[q], "failed", n) <=> At(retrier[q], "failed", n)
      BY <2>1, TypesOf DEF Types, Handles, At, Holds, Idle
    <2>3. SameSends(n) /\ SameRetries(n)
      BY <2>1, <2>2 DEF SameSends, SameRetries, InTx, RetryToPublish
    <2> QED
      BY <2>1, <2>3, FaultCost, PaidElsewhere
  <1> QED
    BY <1>1, LoadRetryPaid, SendRetryPaid, RecordRetryPaid DEF Retrying

LEMMA PollScheduledPaid ==
    ASSUME TypeOK, TypeOK', NEW p \in Pods, PollScheduled(p),
           UNCHANGED <<primaryVars, retryVars>>, NEW n \in Notif
    PROVE  Paid(n)
  <1>0. Types /\ Types'
    BY TypesOf, PTL
  <1>1. PICK S \in LimitedTo(ScheduledBatch, ScheduledDue) :
           poll' = [poll EXCEPT ![p] = [NoPoll EXCEPT !.rows = S]]
    BY DEF PollScheduled
  <1>2. /\ poll[p].marked = {}
        /\ UNCHANGED <<row, sendQ, sent, retryQ, faults, serving, sender, claim, retrier,
                       dedup>>
    BY DEF PollScheduled, NoPoll, storeVars, envVars, primaryVars, retryVars
  <1>3. /\ \A q \in Pods : q # p => poll'[q] = poll[q]
        /\ poll'[p].rows = S /\ poll'[p].marked = {}
    BY <1>0, <1>1 DEF Types, NoPoll
  <1>4. n \in S => IsScheduledDue(row[n])
    BY DEF LimitedTo, ScheduledDue
  <1>5. n \in S => Waiting(n)
    BY <1>4 DEF IsScheduledDue, Waiting, NoTime
  <1>6. Waiting(n)' <=> Waiting(n)
    BY <1>2 DEF Waiting, Unserved
  <1>7. SendAhead(n)' <=> SendAhead(n)
    BY <1>2, <1>3 DEF SendAhead, SendInHand
  <1>8. PollWillSend(n)' => PollWillSend(n)
    BY <1>2, <1>3, <1>5, <1>6, <1>7 DEF PollWillSend
  <1>9. /\ faults' = faults + 0
        /\ sent'[n] + SendsAt(p, n)' <= sent[n] + SendsAt(p, n) + 0
    BY <1>0, <1>2, <1>3, <1>8, FaultCost DEF SendsAt, One, Types
  <1>10. SameRetries(n)
    BY <1>2 DEF SameRetries, InTx, RetryToPublish
  <1>11. RetriesAt(p, n)' <= RetriesAt(p, n) + 0
    BY <1>10, SameRetriesCount, AtTypes
  <1> QED
    BY <1>2, <1>3, <1>9, <1>11, PaidByOne

LEMMA MarkScheduledPaid ==
    ASSUME TypeOK, TypeOK', NEW p \in Pods, NEW m \in Notif, MarkScheduled(p, m),
           UNCHANGED <<primaryVars, retryVars>>, NEW n \in Notif
    PROVE  Paid(n)
  <1>0. Types /\ Types'
    BY TypesOf, PTL
  <1>1. PICK marked \in {{}, {m}} :
          /\ poll' = Looked(p, m, marked)
          /\ \/ /\ dedup[m] = 0 /\ NoFault /\ marked = {m}
                /\ dedup' = [dedup EXCEPT ![m] = DedupTTL]
             \/ dedup[m] > 0 /\ NoFault /\ dedup' = dedup /\ marked = {}
             \/ /\ Fault("redis") /\ marked = {}
                /\ dedup' \in {dedup, [dedup EXCEPT ![m] = DedupTTL]}
    BY DEF MarkScheduled
  <1>2. /\ poll[p].marked = {} /\ m \in poll[p].rows
        /\ UNCHANGED <<row, sendQ, sent, retryQ, serving, sender, claim, retrier>>
    BY DEF MarkScheduled, storeVars, primaryVars, retryVars
  <1>3. /\ \A q \in Pods : q # p => poll'[q] = poll[q]
        /\ poll'[p].rows = poll[p].rows \ {m} /\ poll'[p].marked = marked
    BY <1>0, <1>1 DEF Types, Looked
  <1>4. SameRetries(n)
    BY <1>2 DEF SameRetries, InTx, RetryToPublish
  <1>5. RetriesAt(p, n)' <= RetriesAt(p, n) + 0
    BY <1>4, SameRetriesCount, AtTypes
  <1>6. CASE m # n
    <2>1. dedup'[n] = dedup[n]
      BY <1>0, <1>1, <1>6 DEF Types
    <2>2. SameSends(n)
      BY <1>1, <1>2, <1>3, <1>6, <2>1 DEF SameSends
    <2> QED
      BY <1>1, <1>2, <1>4, <2>2, FaultCost, PaidElsewhere
  <1>7. CASE m = n
    <2>1. Waiting(n)' <=> Waiting(n)
      BY <1>2 DEF Waiting, Unserved
    <2>2. CASE NoFault
      <3>1. PollWillSend(n)' => PollWillSend(n) /\ marked = {}
        <4>1. CASE dedup[m] = 0 /\ marked = {m} /\ dedup' = [dedup EXCEPT ![m] = DedupTTL]
          <5>1. SendAhead(n)' /\ dedup'[n] # 0
            BY <1>0, <1>3, <1>7, <4>1, DedupAssumption
            DEF SendAhead, SendInHand, Types
          <5> QED
            BY <5>1 DEF PollWillSend
        <4>2. CASE marked = {} /\ dedup' = dedup
          <5>1. SendAhead(n) => SendAhead(n)'
            BY <1>2, <1>3, <4>2 DEF SendAhead, SendInHand
          <5> QED
            BY <1>3, <2>1, <4>2, <5>1, PollStays
        <4> QED
          BY <1>1, <2>2, <4>1, <4>2, FaultCost
      <3>2. marked = {m} => PollWillSend(n)
        BY <1>1, <1>2, <1>7, <2>2, FaultCost DEF PollWillSend
      <3>3. sent'[n] + SendsAt(p, n)' <= sent[n] + SendsAt(p, n) + 0
        BY <1>0, <1>1, <1>2, <1>3, <1>7, <3>1, <3>2 DEF SendsAt, One, Types
      <3> QED
        BY <1>2, <1>3, <1>5, <2>2, <3>3, FaultCost, PaidByOne
    <2>3. CASE Fault("redis") /\ marked = {}
      <3>1. sent'[n] + SendsAt(p, n)' <= sent[n] + SendsAt(p, n) + 1
        BY <1>0, <1>2, <1>3, <2>3 DEF SendsAt, One, Types
      <3> QED
        BY <1>2, <1>3, <1>5, <2>3, <3>1, FaultCost, PaidByOne
    <2> QED
      BY <1>1, <2>2, <2>3
  <1> QED
    BY <1>6, <1>7

LEMMA PublishScheduledPaid ==
    ASSUME TypeOK, TypeOK', NEW p \in Pods, NEW m \in Notif, PublishScheduled(p, m),
           UNCHANGED <<primaryVars, retryVars>>, NEW n \in Notif
    PROVE  Paid(n)
  <1>0. Types /\ Types'
    BY TypesOf, PTL
  <1>1. /\ m \in poll[p].marked /\ poll' = [poll EXCEPT ![p].marked = {}]
        /\ \/ NoFault /\ sendQ' = Plus(sendQ, m)
           \/ PublishFails /\ sendQ' = sendQ
        /\ UNCHANGED <<row, sent, retryQ, serving, sender, claim, retrier, dedup>>
    BY DEF PublishScheduled, storeVars, primaryVars, retryVars
  <1>2. /\ \A q \in Pods : q # p => poll'[q] = poll[q]
        /\ poll'[p].rows = poll[p].rows /\ poll'[p].marked = {}
    BY <1>0, <1>1 DEF Types, Polls
  <1>3. SameRetries(n)
    BY <1>1 DEF SameRetries, InTx, RetryToPublish
  <1>4. RetriesAt(p, n)' <= RetriesAt(p, n) + 0
    BY <1>3, SameRetriesCount, AtTypes
  <1>5. CASE n \notin poll[p].marked
    <2>1. sendQ'[n] = sendQ[n]
      BY <1>0, <1>1, <1>5 DEF Types, Plus
    <2>2. SameSends(n)
      BY <1>1, <1>2, <1>5, <2>1 DEF SameSends
    <2> QED
      BY <1>1, <1>3, <2>2, FaultCost, PaidElsewhere
  <1>6. CASE n \in poll[p].marked
    <2>1. CASE sendQ'[n] = sendQ[n]
      <3>1. sent'[n] + SendsAt(p, n)' <= sent[n] + SendsAt(p, n) + 0
        BY <1>0, <1>1, <1>2, <1>6, <2>1 DEF SendsAt, One, Types
      <3>2. PICK k \in {0, 1} : faults' = faults + k
        BY <1>1, FaultCost
      <3> QED
        BY <1>1, <1>2, <1>4, <3>1, <3>2, PaidByOne
    <2>2. CASE NoFault /\ m = n
      <3>1. sendQ'[n] = sendQ[n] + 1
        BY <1>0, <1>1, <2>2, FaultCost DEF Types, Plus
      <3>2. SendAhead(n)'
        BY <1>0, <3>1 DEF SendAhead, Types
      <3>3. PollWillSend(n)' => PollWillSend(n)
        BY <1>1, <1>2, <3>2, PollStays DEF Waiting, Unserved
      <3>4. sent'[n] + SendsAt(p, n)' <= sent[n] + SendsAt(p, n) + 0
        BY <1>0, <1>1, <1>2, <1>6, <3>1, <3>3 DEF SendsAt, One, Types
      <3> QED
        BY <1>1, <1>2, <1>4, <2>2, <3>4, FaultCost, PaidByOne
    <2>3. sendQ'[n] = sendQ[n] \/ (NoFault /\ m = n)
      BY <1>0, <1>1 DEF Types, Plus
    <2> QED
      BY <2>1, <2>2, <2>3
  <1> QED
    BY <1>5, <1>6

LEMMA PollingPaid ==
    ASSUME TypeOK, TypeOK', NEW p \in Pods, Polling(p), NEW n \in Notif
    PROVE  Paid(n)
  BY PollScheduledPaid, MarkScheduledPaid, PublishScheduledPaid DEF Polling

LEMMA StopPaid ==
    ASSUME TypeOK, TypeOK', NEW p \in Pods, Stop(p), NEW n \in Notif
    PROVE  Paid(n)
  <1>0. Types /\ Types'
    BY TypesOf, PTL
  <1>1. /\ sendQ' = Requeue(sendQ, sender[p]) /\ retryQ' = Requeue(retryQ, retrier[p])
        /\ claim' = [claim EXCEPT ![p] = IF claim[p].pc = "tx" THEN NoClaim ELSE claim[p]]
        /\ poll' = [poll EXCEPT ![p] = [NoPoll EXCEPT !.marked = poll[p].marked]]
        /\ UNCHANGED <<row, sent, serving, sender, retrier, dedup>>
    BY DEF Stop, primaryVars
  <1>2. faults' = faults + 1
    BY FaultCost DEF Stop
  <1>3. /\ sendQ'[n] \in {sendQ[n], sendQ[n] + 1}
        /\ retryQ'[n] \in {retryQ[n], retryQ[n] + 1}
    BY <1>1 DEF Requeue
  <1>4. /\ \A q \in Pods : q # p => poll'[q] = poll[q] /\ claim'[q] = claim[q]
        /\ poll'[p].rows = {} /\ poll'[p].marked = poll[p].marked
        /\ claim'[p].pc # "tx"
        /\ RetryToPublish(p, n)' <=> RetryToPublish(p, n)
    BY <1>0, <1>1 DEF Types, NoPoll, NoClaim, RetryToPublish
  <1>5. SendAhead(n) => SendAhead(n)'
    BY <1>0, <1>1, <1>3, <1>4 DEF SendAhead, SendInHand, Types
  <1>6. PollWillSend(n)' => PollWillSend(n)
    BY <1>1, <1>4, <1>5, PollStays DEF Waiting, Unserved
  <1>7. RetryAhead(n) => RetryAhead(n)'
    BY <1>0, <1>1, <1>3, <1>4 DEF RetryAhead, RetryInHand, RetryToPublish, Types
  <1>8. ClaimWillSend(n)' => ClaimWillSend(n)
    BY <1>1, <1>7, ClaimStays
  <1>9. sent'[n] + SendsAt(p, n)' <= sent[n] + SendsAt(p, n) + 1
    BY <1>0, <1>1, <1>3, <1>4, <1>6 DEF SendsAt, One, Types
  <1>10. RetriesAt(p, n)' <= RetriesAt(p, n) + 1
    BY <1>0, <1>1, <1>3, <1>4, <1>8 DEF RetriesAt, One, Types, InTx
  <1> QED
    BY <1>1, <1>2, <1>4, <1>9, <1>10, PaidByOne

LEMMA CrashPaid ==
    ASSUME TypeOK, TypeOK', NEW p \in Pods, Crash(p), NEW n \in Notif
    PROVE  Paid(n)
  <1>0. Types /\ Types'
    BY TypesOf, PTL
  <1>1. PICK S \in SUBSET {k \in serving[p] : row[k].scheduledIn <= 0} :
           sendQ' = PlusEach(IF p \in stopping THEN sendQ ELSE Requeue(sendQ, sender[p]), S)
    BY DEF Crash, Vanish
  <1>2. /\ serving' = [serving EXCEPT ![p] = {}]
        /\ sender' = [sender EXCEPT ![p] = Idle]
        /\ claim' = [claim EXCEPT ![p] = NoClaim]
        /\ retryQ' = IF p \in stopping THEN retryQ ELSE Requeue(retryQ, retrier[p])
        /\ retrier' = [retrier EXCEPT ![p] = Idle]
        /\ poll' = [poll EXCEPT ![p] = NoPoll]
        /\ UNCHANGED <<row, sent, dedup>>
    BY DEF Crash, Vanish
  <1>3. faults' = faults + 1
    BY FaultCost DEF Crash
  <1>4. /\ \A q \in Pods : q # p =>
              /\ serving'[q] = serving[q] /\ sender'[q] = sender[q]
              /\ poll'[q] = poll[q] /\ claim'[q] = claim[q] /\ retrier'[q] = retrier[q]
        /\ serving'[p] = {} /\ sender'[p] = Idle /\ retrier'[p] = Idle
        /\ poll'[p].rows = {} /\ poll'[p].marked = {} /\ claim'[p].pc = "idle"
    BY <1>0, <1>2 DEF Types, NoPoll, NoClaim
  <1> DEFINE requeued == One(Holds(sender[p], n) /\ p \notin stopping)
  <1>5. sendQ'[n] = sendQ[n] + requeued + One(n \in S)
    BY <1>0, <1>1 DEF Types, PlusEach, Requeue, One
  <1>6. /\ ~At(sender'[p], "failed", n) /\ ~At(retrier'[p], "failed", n)
        /\ ~At(retrier'[p], "loaded", n)
    BY <1>4, JobOf
  <1>7. sendQ'[n] > sendQ[n] => SendAhead(n)'
    BY <1>0 DEF SendAhead, Types
  <1>8. n \in S => n \in serving[p] /\ row[n].scheduledIn <= 0
    OBVIOUS
  <1>9. n \in S \/ n \notin serving[p] => (Waiting(n)' => Waiting(n))
    <2>1. CASE n \in S
      <3>1. row[n].scheduledIn \in {0, NoTime}
        BY <1>0, <1>8, <2>1 DEF Types, Rows, Times, NoTime
      <3> QED
        BY <1>2, <3>1 DEF Waiting
    <2>2. CASE n \notin serving[p]
      BY <1>2, <1>4, <2>2 DEF Waiting, Unserved
    <2> QED
      BY <2>1, <2>2
  <1>10. sent'[n] + SendsAt(p, n)' <= sent[n] + SendsAt(p, n) + 1
    <2>1. CASE sendQ'[n] > sendQ[n] /\ (n \in S \/ n \notin serving[p])
      <3>1. PollWillSend(n)' => PollWillSend(n)
        BY <1>2, <1>4, <1>7, <1>9, <2>1, PollStays
      <3> QED
        BY <1>0, <1>2, <1>4, <1>5, <1>6, <1>8, <3>1 DEF SendsAt, One, Types
    <2>2. CASE n \notin S /\ n \in serving[p]
      BY <1>0, <1>2, <1>4, <1>5, <1>6, <2>2 DEF SendsAt, One, Types
    <2>3. CASE ~(sendQ'[n] > sendQ[n])
      BY <1>0, <1>2, <1>4, <1>5, <1>6, <2>3 DEF SendsAt, One, Types
    <2> QED
      BY <2>1, <2>2, <2>3
  <1>11. RetriesAt(p, n)' <= RetriesAt(p, n) + 1
    <2>1. CASE Holds(retrier[p], n) /\ p \notin stopping
      <3>1. retryQ'[n] = retryQ[n] + 1
        BY <1>2, <2>1 DEF Requeue
      <3>2. RetryAhead(n)'
        BY <1>0, <3>1 DEF RetryAhead, Types
      <3>3. ClaimWillSend(n)' => ClaimWillSend(n)
        BY <1>2, <3>2, ClaimStays
      <3> QED
        BY <1>0, <1>4, <1>6, <3>1, <3>3 DEF RetriesAt, One, Types, InTx, RetryToPublish
    <2>2. CASE ~(Holds(retrier[p], n) /\ p \notin stopping)
      <3>1. retryQ'[n] = retryQ[n]
        BY <1>2, <2>2 DEF Requeue
      <3> QED
        BY <1>0, <1>4, <1>6, <3>1 DEF RetriesAt, One, Types, InTx, RetryToPublish
    <2> QED
      BY <2>1, <2>2
  <1> QED
    BY <1>3, <1>4, <1>10, <1>11, PaidByOne

LEMMA ExitPaid ==
    ASSUME TypeOK, TypeOK', NEW p \in Pods, Exit(p), NEW n \in Notif
    PROVE  Paid(n)
  <1>0. Types /\ Types'
    BY TypesOf, PTL
  <1>1. PICK S \in SUBSET {k \in serving[p] : row[k].scheduledIn <= 0} :
           sendQ' = PlusEach(sendQ, S)
    BY DEF Exit, Vanish
  <1>2. /\ sender[p] = Idle /\ retrier[p] = Idle
        /\ serving' = [serving EXCEPT ![p] = {}]
        /\ sender' = [sender EXCEPT ![p] = Idle]
        /\ claim' = [claim EXCEPT ![p] = NoClaim]
        /\ retrier' = [retrier EXCEPT ![p] = Idle]
        /\ poll' = [poll EXCEPT ![p] = NoPoll]
        /\ UNCHANGED <<row, sent, dedup, retryQ>>
    BY DEF Exit, Vanish
  <1>3. faults' = faults
    BY FaultCost DEF Exit
  <1>4. /\ \A q \in Pods : q # p =>
              /\ serving'[q] = serving[q] /\ sender'[q] = sender[q]
              /\ poll'[q] = poll[q] /\ claim'[q] = claim[q] /\ retrier'[q] = retrier[q]
        /\ serving'[p] = {} /\ sender'[p] = Idle /\ retrier'[p] = Idle
        /\ poll'[p].rows = {} /\ poll'[p].marked = {} /\ claim'[p].pc = "idle"
    BY <1>0, <1>2 DEF Types, NoPoll, NoClaim
  <1>5. sendQ'[n] = sendQ[n] + One(n \in S) /\ (n \in S => n \in serving[p])
    BY <1>0, <1>1 DEF Types, PlusEach, One
  <1>6. /\ ~Handles(sender[p], n) /\ ~Handles(retrier[p], n)
        /\ ~At(sender'[p], "failed", n) /\ ~At(retrier'[p], "failed", n)
        /\ ~At(retrier'[p], "loaded", n)
    BY <1>2, <1>4, JobOf DEF Handles, Holds
  <1>7. sent'[n] + SendsAt(p, n)' <= sent[n] + SendsAt(p, n)
    <2>1. CASE n \notin S /\ (n \in serving[p] \/ n \in poll[p].marked)
      BY <1>0, <1>2, <1>4, <1>5, <1>6, <2>1 DEF SendsAt, One, Types
    <2>2. CASE n \in S
      <3>1. sendQ'[n] > 0
        BY <1>0, <1>5, <2>2 DEF Types, One
      <3>2. row[n].scheduledIn \in {0, NoTime}
        BY <1>0, <2>2 DEF Types, Rows, Times, NoTime
      <3>3. PollWillSend(n)' => PollWillSend(n)
        BY <1>2, <1>4, <3>1, <3>2, PollStays DEF SendAhead, Waiting
      <3> QED
        BY <1>0, <1>2, <1>4, <1>5, <1>6, <2>2, <3>3 DEF SendsAt, One, Types
    <2>3. CASE n \notin S /\ n \notin serving[p] /\ n \notin poll[p].marked
      <3>1. SendAhead(n) => SendAhead(n)'
        BY <1>0, <1>4, <1>5, <1>6, <2>3 DEF SendAhead, SendInHand, One, Types
      <3>2. Waiting(n)' => Waiting(n)
        BY <1>2, <1>4, <2>3 DEF Waiting, Unserved
      <3>3. PollWillSend(n)' => PollWillSend(n)
        BY <1>2, <1>4, <3>1, <3>2, PollStays
      <3> QED
        BY <1>0, <1>2, <1>4, <1>5, <1>6, <2>3, <3>3 DEF SendsAt, One, Types
    <2> QED
      BY <2>1, <2>2, <2>3
  <1>8. RetriesAt(p, n)' <= RetriesAt(p, n)
    <2>1. CASE RetryToPublish(p, n)
      BY <1>0, <1>2, <1>4, <1>6, <2>1 DEF RetriesAt, One, Types, InTx, RetryToPublish
    <2>2. CASE ~RetryToPublish(p, n)
      <3>1. RetryAhead(n) => RetryAhead(n)'
        BY <1>2, <1>4, <1>6, <2>2 DEF RetryAhead, RetryInHand, RetryToPublish
      <3>2. ClaimWillSend(n)' => ClaimWillSend(n)
        BY <1>2, <3>1, ClaimStays
      <3> QED
        BY <1>0, <1>2, <1>4, <1>6, <2>2, <3>2
        DEF RetriesAt, One, Types, InTx, RetryToPublish
    <2> QED
      BY <2>1, <2>2
  <1> QED
    BY <1>0, <1>3, <1>4, <1>7, <1>8, AtTypes, FaultCost, PaidByOne

LEMMA AgedCell ==
    ASSUME TypeOK, Tick, NEW n \in Notif
    PROVE  /\ row'[n].status = row[n].status /\ row'[n].attempts = row[n].attempts
           /\ row'[n].retryIn = Earlier(row[n].retryIn)
           /\ row'[n].scheduledIn = Earlier(row[n].scheduledIn)
           /\ dedup'[n] = Earlier(dedup[n])
           /\ row[n].retryIn \in Times /\ row[n].scheduledIn \in Times
           /\ dedup[n] \in Nat
           /\ \A p \in Pods :
               /\ claim'[p].leaseIn = Earlier(claim[p].leaseIn) /\ claim[p].leaseIn \in Nat
               /\ InTx(p, n)' <=> InTx(p, n)
               /\ RetryToPublish(p, n)' <=> RetryToPublish(p, n)
               /\ poll'[p].rows = poll[p].rows /\ poll'[p].marked = poll[p].marked
           /\ UNCHANGED <<sendQ, retryQ, sent, serving, sender, retrier>>
  <1>1. Types
    BY TypesOf
  <1>2. row[n] \in Rows /\ row'[n] = AgeRow(row[n])
    BY <1>1 DEF Types, Tick
  <1>3. \A p \in Pods : claim[p] \in Claims /\ poll[p] \in Polls
    BY <1>1 DEF Types
  <1>4. \A p \in Pods :
           /\ claim'[p] = [claim[p] EXCEPT !.leaseIn = Earlier(@)]
           /\ poll'[p] = [poll[p] EXCEPT !.fired = TRUE]
    BY DEF Tick
  <1>5. \A p \in Pods :
           /\ claim'[p].leaseIn = Earlier(claim[p].leaseIn) /\ claim[p].leaseIn \in Nat
           /\ claim'[p].pc = claim[p].pc /\ claim'[p].rows = claim[p].rows
           /\ poll'[p].rows = poll[p].rows /\ poll'[p].marked = poll[p].marked
    BY <1>3, <1>4 DEF Claims, Polls
  <1> QED
    BY <1>1, <1>2, <1>5, AgedRow DEF Tick, Types, Rows, InTx, RetryToPublish, primaryVars

LEMMA AgedSends ==
    ASSUME TypeOK, TypeOK', Tick, NEW n \in Notif
    PROVE  /\ SendsToCome(n)' <= SendsToCome(n) + 1
           /\ Timely => SendsToCome(n)' <= SendsToCome(n)
  <1>0. Types /\ Types'
    BY TypesOf, PTL
  <1> DEFINE rest == sendQ[n] + Cardinality(ServedAt(n)) + Cardinality(FailedAt(n))
                         + Cardinality(MarkedAt(n)) + One(row[n].status = "ABSENT")
  <1>1. /\ ServedAt(n)' = ServedAt(n) /\ FailedAt(n)' = FailedAt(n)
        /\ MarkedAt(n)' = MarkedAt(n)
    BY AgedCell DEF ServedAt, FailedAt, MarkedAt
  <1>2. rest \in Nat /\ rest' = rest
    BY <1>0, <1>1, CountTypes, AgedCell DEF CountsAreNumbers, Types, One
  <1>3. SendsToCome(n) = rest + One(PollWillSend(n))
    BY <1>0, CountTypes DEF SendsToCome, CountsAreNumbers, Types, One
  <1>4. SendsToCome(n)' = rest' + One(PollWillSend(n)')
    BY <1>0, CountTypesNext DEF SendsToCome, CountsAreNumbers, Types, One
  <1>5. Timely => (PollWillSend(n)' => PollWillSend(n))
    <2> SUFFICES ASSUME Timely, PollWillSend(n)'
                 PROVE  PollWillSend(n)
      OBVIOUS
    <2>1. SendAhead(n)' <=> SendAhead(n)
      BY AgedCell DEF SendAhead, SendInHand
    <2>2. SendAhead(n) => SendOnItsWay(n)
      BY DEF SendAhead, SendInHand, SendOnItsWay, SendAt, Handles
    <2>3. Waiting(n)' => Waiting(n)
      <3>1. Unserved(n)' <=> Unserved(n)
        BY AgedCell DEF Unserved
      <3>2. ~Unserved(n) => row[n].scheduledIn # 1
        BY DEF Timely, Unserved
      <3> QED
        BY <3>1, <3>2, AgedCell DEF Waiting, Earlier, Times, NoTime
    <2>4. CASE dedup[n] = 0
      BY <2>1, <2>3, <2>4, AgedCell DEF PollWillSend
    <2>5. CASE dedup[n] = 1
      <3>1. ~SendAhead(n) /\ ~\E q \in Pods : n \in poll[q].rows
        BY <2>2, <2>5 DEF Timely
      <3> QED
        BY <2>3, <3>1, AgedCell DEF PollWillSend
    <2>6. CASE dedup[n] > 1
      BY <2>1, <2>3, <2>6, AgedCell DEF PollWillSend, Earlier
    <2> QED
      BY <2>4, <2>5, <2>6, AgedCell
  <1> HIDE DEF rest
  <1> QED
    BY <1>2, <1>3, <1>4, <1>5 DEF One

LEMMA AgedRetries ==
    ASSUME TypeOK, TypeOK', ClaimsAreExclusive, Tick, NEW n \in Notif
    PROVE  /\ RetriesToCome(n)' <= RetriesToCome(n) + 1
           /\ Timely => RetriesToCome(n)' <= RetriesToCome(n)
  <1>0. Types /\ Types'
    BY TypesOf, PTL
  <1> DEFINE rest == retryQ[n] + Cardinality(ClaimedAt(n)) + Cardinality(RetriedAt(n))
  <1>1. ClaimedAt(n)' = ClaimedAt(n) /\ RetriedAt(n)' = RetriedAt(n)
    BY AgedCell DEF ClaimedAt, RetriedAt
  <1>2. rest \in Nat /\ rest' = rest
    BY <1>0, <1>1, CountTypes, AgedCell DEF CountsAreNumbers, Types
  <1>3. /\ RetriesToCome(n) = rest + One(ClaimWillSend(n)) + Cardinality(LapsedAt(n))
        /\ Cardinality(LapsedAt(n)) \in Nat
    BY <1>0, CountTypes DEF RetriesToCome, CountsAreNumbers, Types, One
  <1>4. /\ RetriesToCome(n)' = rest' + One(ClaimWillSend(n)') + Cardinality(LapsedAt(n)')
        /\ Cardinality(LapsedAt(n)') \in Nat
    BY <1>0, CountTypesNext DEF RetriesToCome, CountsAreNumbers, Types, One
  <1>5. CASE \E p \in Pods : InTx(p, n)
    <2>1. PICK p \in Pods : InTx(p, n)
      BY <1>5
    <2>2. ClaimWillSend(n)
      BY <2>1, ClaimsRestated DEF ClaimWillSend, IsRetryDue
    <2>3. \A q \in Pods : InTx(q, n) => q = p
      BY <2>1, ClaimsRestated
    <2>4. LapsedAt(n)' \subseteq {p}
      BY <2>3, AgedCell DEF LapsedAt
    <2>5. Cardinality(LapsedAt(n)') <= 1
      <3>1. IsFiniteSet({p}) /\ Cardinality({p}) = 1
        BY FS_Singleton
      <3> QED
        BY <2>4, <3>1, FS_Subset
    <2>6. Timely => LapsedAt(n)' = LapsedAt(n)
      <3> SUFFICES ASSUME Timely, NEW q \in Pods, InTx(q, n)
                   PROVE  claim'[q].leaseIn = 0 <=> claim[q].leaseIn = 0
        BY AgedCell DEF LapsedAt
      <3>1. claim[q].leaseIn # 1
        BY DEF Timely, InTx
      <3> QED
        BY <3>1, AgedCell DEF Earlier
    <2> HIDE DEF rest
    <2> QED
      BY <1>2, <1>3, <1>4, <2>2, <2>5, <2>6 DEF One
  <1>6. CASE ~\E p \in Pods : InTx(p, n)
    <2>1. LapsedAt(n)' = LapsedAt(n)
      BY <1>6, AgedCell DEF LapsedAt
    <2>2. Timely => (ClaimWillSend(n)' => ClaimWillSend(n))
      <3> SUFFICES ASSUME Timely, ClaimWillSend(n)'
                   PROVE  ClaimWillSend(n)
        OBVIOUS
      <3>1. RetryAhead(n)' <=> RetryAhead(n)
        BY AgedCell DEF RetryAhead, RetryInHand
      <3>2. RetryAhead(n) => row[n].retryIn # 1
        BY DEF RetryAhead, RetryInHand, RetryOnItsWay, RetryAt, Handles, Timely
      <3>3. IsRetryTarget(row[n])
        BY AgedCell DEF ClaimWillSend, IsRetryTarget
      <3> QED
        BY <3>1, <3>2, <3>3, AgedCell DEF ClaimWillSend, Earlier, Times, NoTime
    <2> HIDE DEF rest
    <2> QED
      BY <1>2, <1>3, <1>4, <2>1, <2>2 DEF One
  <1> QED
    BY <1>5, <1>6

LEMMA TickPaid ==
    ASSUME TypeOK, TypeOK', ClaimsAreExclusive, Tick, NEW n \in Notif
    PROVE  Paid(n)
  <1>0. Types /\ Types'
    BY TypesOf, PTL
  <1>1. /\ SendsToCome(n) \in Nat /\ RetriesToCome(n) \in Nat
        /\ SendsToCome(n)' \in Nat /\ RetriesToCome(n)' \in Nat
        /\ sent[n] \in Nat /\ sent'[n] = sent[n]
    BY <1>0, CountTypes, CountTypesNext, AgedCell DEF CountsAreNumbers, Types
  <1>2. CASE Timely /\ NoFault
    BY <1>1, <1>2, AgedSends, AgedRetries, FaultCost DEF Paid
  <1>3. CASE Fault("late")
    BY <1>1, <1>3, AgedSends, AgedRetries, FaultCost DEF Paid
  <1> QED
    BY <1>2, <1>3 DEF Tick

LEMMA StutterPaid ==
    ASSUME TypeOK, TypeOK', UNCHANGED vars, NEW n \in Notif
    PROVE  Paid(n)
  <1>1. UNCHANGED <<row, sendQ, retryQ, sent, faults, serving, sender, claim, retrier,
                    dedup, poll>>
    BY DEF vars, storeVars, envVars, primaryVars, retryVars, scheduledVars
  <1>2. SameSends(n) /\ SameRetries(n)
    BY <1>1 DEF SameSends, SameRetries, InTx, RetryToPublish
  <1> QED
    BY <1>1, <1>2, FaultCost, PaidElsewhere

LEMMA PaidStep ==
    ASSUME TypeOK, TypeOK', ClaimsAreExclusive, PaidInv, [Next]_vars
    PROVE  PaidInv'
  <1> SUFFICES ASSUME 0 \notin Schedules, NEW n \in Notif
               PROVE  sent'[n] + SendsToCome(n)' + RetriesToCome(n)' <= 1 + 2 * faults'
    BY DEF PaidInv
  <1>1. sent[n] + SendsToCome(n) + RetriesToCome(n) <= 1 + 2 * faults
    BY DEF PaidInv
  <1>2. Paid(n)
    BY CreatingPaid, AnsweringPaid, SendingPaid, ClaimingPaid, RetryingPaid, PollingPaid,
       StopPaid, ExitPaid, CrashPaid, TickPaid, StutterPaid
    DEF Next, PodStep
  <1>3. Types /\ Types'
    BY TypesOf, PTL
  <1>4. /\ SendsToCome(n) \in Nat /\ RetriesToCome(n) \in Nat
        /\ SendsToCome(n)' \in Nat /\ RetriesToCome(n)' \in Nat
        /\ sent[n] \in Nat /\ sent'[n] \in Nat
    BY <1>3, CountTypes, CountTypesNext DEF CountsAreNumbers, Types
  <1>5. faults \in Nat /\ faults' \in Nat
    BY FaultsAssumption DEF TypeOK, EnvTypeOK, FaultsOK
  <1> QED
    BY <1>1, <1>2, <1>4, <1>5 DEF Paid

LEMMA InitPaid == Init => PaidInv
  <1> SUFFICES ASSUME Init, NEW n \in Notif
               PROVE  sent[n] + SendsToCome(n) + RetriesToCome(n) <= 1 + 2 * faults
    BY DEF PaidInv
  <1>1. /\ row[n].status = "ABSENT" /\ sent[n] = 0 /\ sendQ[n] = 0 /\ retryQ[n] = 0
        /\ faults = 0
    BY DEF Init, StoreInit, EnvInit, NoRow
  <1>2. \A p \in Pods :
           /\ serving[p] = {} /\ sender[p] = Idle /\ retrier[p] = Idle
           /\ claim[p].pc = "idle" /\ poll[p].rows = {} /\ poll[p].marked = {}
    BY DEF Init, PrimaryInit, RetryInit, ScheduledInit, NoClaim, NoPoll
  <1>3. ~PollWillSend(n) /\ ~ClaimWillSend(n)
    BY <1>1, <1>2 DEF PollWillSend, ClaimWillSend, Waiting, IsRetryTarget
  <1>4. /\ ServedAt(n) = {} /\ FailedAt(n) = {} /\ MarkedAt(n) = {}
        /\ LapsedAt(n) = {} /\ ClaimedAt(n) = {} /\ RetriedAt(n) = {}
    BY <1>2, JobOf
    DEF ServedAt, FailedAt, MarkedAt, LapsedAt, ClaimedAt, RetriedAt, InTx, RetryToPublish
  <1>5. Cardinality({}) = 0
    BY FS_EmptySet
  <1> QED
    BY <1>1, <1>3, <1>4, <1>5 DEF SendsToCome, RetriesToCome, One

\* However many pods there are, whatever strikes and however often, and unless
\* a client asks for the past, a provider accepts a notification once, and then
\* at most twice more for each fault: no order of steps makes copies for free.
THEOREM DuplicatesArePaidFor == Spec => []DuplicatesCostFaults
  <1>1. TypeOK /\ TypeOK' /\ ClaimsAreExclusive /\ PaidInv /\ [Next]_vars => PaidInv'
    BY PaidStep
  <1>2. TypeOK /\ PaidInv => DuplicatesCostFaults
    <2> SUFFICES ASSUME TypeOK, PaidInv, 0 \notin Schedules, NEW n \in Notif
                 PROVE  sent[n] <= 1 + 2 * faults
      BY DEF DuplicatesCostFaults
    <2>1. sent[n] + SendsToCome(n) + RetriesToCome(n) <= 1 + 2 * faults
      BY DEF PaidInv
    <2>2. SendsToCome(n) \in Nat /\ RetriesToCome(n) \in Nat /\ sent[n] \in Nat
      BY TypesOf, CountTypes DEF CountsAreNumbers, Types
    <2>3. faults \in Nat
      BY FaultCost
    <2> QED
      BY <2>1, <2>2, <2>3
  <1> QED
    BY InitPaid, <1>1, <1>2, TypeCorrect, ClaimsExclusive, PTL DEF Spec

=============================================================================
