---------------------- MODULE NotificationServiceProofs ----------------------
(***************************************************************************)
(* Proofs about NotificationService, for every number of pods and of       *)
(* notifications, every configuration and every choice of faults.          *)
(***************************************************************************)
EXTENDS NotificationService, TLAPS

-----------------------------------------------------------------------------
(* What the row operators do to the type of a row. *)

LEMMA EarlierType ==
    /\ \A t \in Nat : Earlier(t) \in Nat
    /\ \A t \in Times : Earlier(t) \in Times
  BY DEF Earlier, Times, NoTime

LEMMA RowTypes ==
    ASSUME NEW r \in Rows
    PROVE  /\ AfterFirstSuccess(r) \in Rows
           /\ AfterRetrySuccess(r) \in Rows
           /\ AgeRow(r) \in Rows
           /\ \A lease \in Nat : Leased(r, lease) \in Rows
           /\ AfterSendFailure(r) \in Rows
  <1>1. /\ AfterFirstSuccess(r) \in Rows
        /\ AfterRetrySuccess(r) \in Rows
        /\ \A lease \in Nat : Leased(r, lease) \in Rows
    BY DEF Rows, Times, AfterFirstSuccess, AfterRetrySuccess, Leased
  <1>2. AgeRow(r) \in Rows
    <2>1. /\ Earlier(r.retryIn) \in Times
          /\ Earlier(r.scheduledIn) \in Times
      BY EarlierType DEF Rows
    <2> QED
      BY <2>1 DEF Rows, AgeRow
  <1>3. AfterSendFailure(r) \in Rows
    <2>1. CASE r.attempts + 1 >= MaxAttempts
      <3>1. r.attempts + 1 \in Nat
        BY DEF Rows
      <3>2. AfterSendFailure(r)
               = [r EXCEPT !.attempts = r.attempts + 1, !.status = "FAILED"]
        BY <2>1 DEF AfterSendFailure
      <3> QED
        BY <3>1, <3>2 DEF Rows
    <2>2. CASE ~(r.attempts + 1 >= MaxAttempts)
      <3>1. r.attempts \in 0 .. MaxAttempts - 1
        BY <2>2, AttemptsAssumption DEF Rows
      <3>2. Backoff(r.attempts) \in Nat
        BY <3>1, BackoffAssumption
      <3>3. AfterSendFailure(r)
               = [r EXCEPT !.attempts = r.attempts + 1,
                           !.retryIn = Backoff(r.attempts)]
        BY <2>2 DEF AfterSendFailure
      <3>4. r.attempts + 1 \in Nat /\ Backoff(r.attempts) \in Times
        BY <3>2 DEF Rows, Times
      <3> QED
        BY <3>3, <3>4 DEF Rows
    <2> QED
      BY <2>1, <2>2
  <1> QED
    BY <1>1, <1>2, <1>3

LEMMA AgedRow ==
    ASSUME NEW r \in Rows
    PROVE  /\ AgeRow(r).status = r.status /\ AgeRow(r).attempts = r.attempts
           /\ AgeRow(r).retryIn = Earlier(r.retryIn)
           /\ AgeRow(r).scheduledIn = Earlier(r.scheduledIn)
  BY DEF AgeRow, Rows

LEMMA WrittenRow ==
    ASSUME NEW r \in Rows
    PROVE  /\ AfterFirstSuccess(r).status = "COMPLETED"
           /\ AfterFirstSuccess(r).attempts = 1
           /\ AfterFirstSuccess(r).retryIn = r.retryIn
           /\ AfterFirstSuccess(r).scheduledIn = r.scheduledIn
           /\ AfterRetrySuccess(r).status = "COMPLETED"
           /\ AfterRetrySuccess(r).attempts = r.attempts
           /\ AfterRetrySuccess(r).scheduledIn = r.scheduledIn
  BY DEF AfterFirstSuccess, AfterRetrySuccess, Rows

LEMMA FailedRow ==
    ASSUME NEW r \in Rows
    PROVE  /\ AfterSendFailure(r).attempts = r.attempts + 1
           /\ AfterSendFailure(r).status \in {r.status, "FAILED"}
           /\ AfterSendFailure(r).scheduledIn = r.scheduledIn
           /\ \/ AfterSendFailure(r).status = "FAILED"
              \/ AfterSendFailure(r).retryIn \in Nat \ {0}
  <1>1. CASE r.attempts + 1 >= MaxAttempts
    <2>1. AfterSendFailure(r)
             = [r EXCEPT !.attempts = r.attempts + 1, !.status = "FAILED"]
      BY <1>1 DEF AfterSendFailure
    <2> QED
      BY <2>1 DEF Rows
  <1>2. CASE ~(r.attempts + 1 >= MaxAttempts)
    <2>1. AfterSendFailure(r)
             = [r EXCEPT !.attempts = r.attempts + 1, !.retryIn = Backoff(r.attempts)]
      BY <1>2 DEF AfterSendFailure
    <2>2. r.attempts \in 0 .. MaxAttempts - 1
      BY <1>2, AttemptsAssumption DEF Rows
    <2>3. Backoff(r.attempts) \in Nat \ {0}
      BY <2>2, BackoffAssumption
    <2> QED
      BY <2>1, <2>3 DEF Rows
  <1> QED
    BY <1>1, <1>2

LEMMA NewRowType ==
    ASSUME NEW s \in Schedules
    PROVE  NewRow(s) \in Rows
  BY SchedulesAssumption DEF NewRow, NoRow, Rows, Times, NoTime

-----------------------------------------------------------------------------
(* Type correctness. *)

LEMMA FaultType ==
    ASSUME EnvTypeOK
    PROVE  /\ NoFault => FaultsOK'
           /\ \A kind : Fault(kind) => FaultsOK'
           /\ PublishFails => FaultsOK'
  BY FaultsAssumption DEF EnvTypeOK, FaultsOK, NoFault, Fault, PublishFails

LEMMA BagTypes ==
    ASSUME NEW bag \in [Notif -> Nat], NEW n \in Notif
    PROVE  /\ Plus(bag, n) \in [Notif -> Nat]
           /\ bag[n] > 0 => Minus(bag, n) \in [Notif -> Nat]
  BY DEF Plus, Minus

LEMMA AttemptType ==
    ASSUME EnvTypeOK, NEW n \in Notif, NEW outcome, Attempt(n, outcome)
    PROVE  sent' \in [Notif -> Nat] /\ FaultsOK'
  BY FaultType, BagTypes DEF EnvTypeOK, Attempt

LEMMA JobTypes ==
    \A n \in Notif, pc \in {"loaded", "sent", "failed", "acking"} :
        Job(pc, n) \in Jobs
  BY DEF Job, Jobs

LEMMA PrimaryKeepsType ==
    ASSUME TypeOK, NEW p \in Pods, Creating(p) \/ Answering(p) \/ Sending(p)
    PROVE  TypeOK'
  <1> USE DEF TypeOK, FaultsOK, StoreTypeOK, PrimaryTypeOK
  <1>1. ASSUME NEW n \in Notif, NEW s \in Schedules, CreateRow(p, n, s),
               UNCHANGED <<retryVars, scheduledVars, stopping>>
        PROVE  TypeOK'
    BY <1>1, NewRowType, FaultType
    DEF CreateRow, EnvTypeOK, RetryTypeOK, ScheduledTypeOK,
        retryVars, scheduledVars
  <1>2. ASSUME NEW n \in Notif, FinishRequest(p, n),
               UNCHANGED <<retryVars, scheduledVars, stopping>>
        PROVE  TypeOK'
    <2>1. sendQ' \in [Notif -> Nat]
      BY <1>2, BagTypes DEF FinishRequest, EnvTypeOK
    <2>2. FaultsOK'
      BY <1>2, FaultType DEF FinishRequest, EnvTypeOK
    <2>3. PICK reply \in {"accepted", "rejected"} : Answer(p, n, reply)
      BY <1>2 DEF FinishRequest
    <2>4. /\ request' \in [Notif -> {"none", "open", "accepted", "rejected", "broken"}]
          /\ serving' \in [Pods -> SUBSET Notif]
      BY <2>3 DEF Answer
    <2> QED
      BY <1>2, <2>1, <2>2, <2>4
      DEF FinishRequest, EnvTypeOK, RetryTypeOK, ScheduledTypeOK,
          retryVars, scheduledVars
  <1>3. ASSUME NEW n \in Notif, SendPrimary(p, n),
               UNCHANGED <<retryVars, scheduledVars, stopping>>
        PROVE  TypeOK'
    <2>1. PICK outcome \in {"sent", "failed"} :
             Attempt(n, outcome) /\ sender' = [sender EXCEPT ![p] = Job(outcome, n)]
      BY <1>3 DEF SendPrimary
    <2>2. sent' \in [Notif -> Nat] /\ FaultsOK'
      BY <2>1, AttemptType
    <2>3. sendQ' \in [Notif -> Nat]
      BY <1>3, BagTypes DEF SendPrimary, EnvTypeOK
    <2>4. sender' \in [Pods -> {Idle} \union Jobs]
      BY <2>1, JobTypes
    <2> QED
      BY <1>3, <2>2, <2>3, <2>4
      DEF SendPrimary, EnvTypeOK, RetryTypeOK, ScheduledTypeOK,
          retryVars, scheduledVars
  <1>4. ASSUME RecordPrimary(p), UNCHANGED <<retryVars, scheduledVars, stopping>>
        PROVE  TypeOK'
    <2>1. sender[p].n \in Notif
      BY <1>4 DEF RecordPrimary, Idle, Jobs
    <2>2. row' \in [Notif -> Rows]
      BY <1>4, <2>1, RowTypes DEF RecordPrimary
    <2>3. sender' \in [Pods -> {Idle} \union Jobs]
      BY <1>4, <2>1, JobTypes DEF RecordPrimary
    <2>4. FaultsOK'
      BY <1>4, FaultType DEF RecordPrimary
    <2> QED
      BY <1>4, <2>2, <2>3, <2>4
      DEF RecordPrimary, EnvTypeOK, RetryTypeOK, ScheduledTypeOK,
          retryVars, scheduledVars
  <1>5. ASSUME AckPrimary(p), UNCHANGED <<retryVars, scheduledVars, stopping>>
        PROVE  TypeOK'
    BY <1>5
    DEF AckPrimary, EnvTypeOK, envVars, RetryTypeOK, ScheduledTypeOK,
        retryVars, scheduledVars
  <1> QED
    BY <1>1, <1>2, <1>3, <1>4, <1>5 DEF Creating, Answering, Sending

LEMMA LeaseRowsType ==
    ASSUME row \in [Notif -> Rows], NEW S \in SUBSET Notif, NEW lease \in Nat,
           LeaseRows(S, lease)
    PROVE  row' \in [Notif -> Rows]
  BY RowTypes DEF LeaseRows

LEMMA ClaimingKeepsType ==
    ASSUME TypeOK, NEW p \in Pods, Claiming(p)
    PROVE  TypeOK'
  <1> USE DEF TypeOK, FaultsOK, RetryTypeOK
  <1>0. UNCHANGED <<primaryVars, scheduledVars, stopping>>
    BY DEF Claiming
  <1>1. CASE ClaimRetries(p)
    <2>1. PICK S \in LimitedTo(RetryBatch, Claimable) :
             /\ locked' = locked \union S
             /\ claim' = [claim EXCEPT ![p] =
                             [pc |-> "tx", rows |-> S, leaseIn |-> PublishLease]]
      BY <1>1 DEF ClaimRetries
    <2>2. S \subseteq Notif
      BY DEF LimitedTo, Claimable
    <2>3. claim' \in [Pods -> Claims]
      BY <2>1, <2>2, LeaseAssumption DEF Claims
    <2> QED
      BY <1>0, <1>1, <2>1, <2>2, <2>3
      DEF ClaimRetries, StoreTypeOK, EnvTypeOK, PrimaryTypeOK, ScheduledTypeOK,
          envVars, primaryVars, scheduledVars
  <1>2. CASE CommitClaim(p)
    <2>1. row' \in [Notif -> Rows]
      BY <1>2, LeaseRowsType DEF CommitClaim, StoreTypeOK, Claims
    <2>2. claim' \in [Pods -> Claims]
      BY <1>2 DEF CommitClaim, Claims
    <2> QED
      BY <1>0, <1>2, <2>1, <2>2
      DEF CommitClaim, StoreTypeOK, EnvTypeOK, PrimaryTypeOK, ScheduledTypeOK,
          envVars, primaryVars, scheduledVars
  <1>3. CASE AbortClaim(p)
    <2>1. row' \in [Notif -> Rows]
      BY <1>3, LeaseRowsType DEF AbortClaim, StoreTypeOK, Claims
    <2>2. claim' \in [Pods -> Claims]
      BY <1>3 DEF AbortClaim, Claims, NoClaim
    <2>3. FaultsOK'
      BY <1>3, FaultType DEF AbortClaim
    <2> QED
      BY <1>0, <1>3, <2>1, <2>2, <2>3
      DEF AbortClaim, StoreTypeOK, EnvTypeOK, PrimaryTypeOK, ScheduledTypeOK,
          primaryVars, scheduledVars
  <1>4. ASSUME NEW n \in Notif, PublishRetry(p, n)
        PROVE  TypeOK'
    <2>1. claim' \in [Pods -> Claims]
      <3>1. claim[p] \in Claims
        OBVIOUS
      <3>2. Without(claim[p], n) \in Claims
        BY <3>1 DEF Claims, NoClaim, Without
      <3> QED
        BY <1>4, <3>2 DEF PublishRetry
    <2>2. retryQ' \in [Notif -> Nat] /\ FaultsOK'
      BY <1>4, BagTypes, FaultType DEF PublishRetry, EnvTypeOK
    <2> QED
      BY <1>0, <1>4, <2>1, <2>2
      DEF PublishRetry, storeVars, StoreTypeOK, EnvTypeOK, PrimaryTypeOK,
          ScheduledTypeOK, primaryVars, scheduledVars
  <1> QED
    BY <1>1, <1>2, <1>3, <1>4 DEF Claiming

LEMMA RetryingKeepsType ==
    ASSUME TypeOK, NEW p \in Pods, Retrying(p)
    PROVE  TypeOK'
  <1> USE DEF TypeOK, FaultsOK, RetryTypeOK
  <1>0. UNCHANGED <<primaryVars, scheduledVars, stopping>>
    BY DEF Retrying
  <1>1. ASSUME NEW n \in Notif, LoadRetry(p, n)
        PROVE  TypeOK'
    <2>1. retrier' \in [Pods -> {Idle} \union Jobs]
      BY <1>1, JobTypes DEF LoadRetry
    <2>2. retryQ' \in [Notif -> Nat] /\ FaultsOK'
      BY <1>1, BagTypes, FaultType DEF LoadRetry, EnvTypeOK
    <2> QED
      BY <1>0, <1>1, <2>1, <2>2
      DEF LoadRetry, storeVars, StoreTypeOK, EnvTypeOK, PrimaryTypeOK,
          ScheduledTypeOK, primaryVars, scheduledVars
  <1>2. CASE SendRetry(p)
    <2>1. PICK outcome \in {"sent", "failed"} :
             /\ Attempt(retrier[p].n, outcome)
             /\ retrier' = [retrier EXCEPT ![p].pc = outcome]
      BY <1>2 DEF SendRetry
    <2>2. retrier[p] \in Jobs
      BY <1>2 DEF SendRetry, Idle
    <2>3. retrier' \in [Pods -> {Idle} \union Jobs]
      BY <2>1, <2>2 DEF Jobs
    <2>4. sent' \in [Notif -> Nat] /\ FaultsOK'
      BY <2>1, <2>2, AttemptType DEF Jobs
    <2> QED
      BY <1>0, <1>2, <2>3, <2>4
      DEF SendRetry, storeVars, StoreTypeOK, EnvTypeOK, PrimaryTypeOK,
          ScheduledTypeOK, primaryVars, scheduledVars
  <1>3. CASE RecordRetry(p)
    <2>1. retrier[p] \in Jobs
      BY <1>3 DEF RecordRetry, Idle
    <2>2. row' \in [Notif -> Rows]
      BY <1>3, <2>1, RowTypes DEF RecordRetry, StoreTypeOK, Jobs
    <2>3. retrier' \in [Pods -> {Idle} \union Jobs]
      BY <1>3, <2>1 DEF RecordRetry, Jobs
    <2>4. FaultsOK'
      BY <1>3, FaultType DEF RecordRetry
    <2> QED
      BY <1>0, <1>3, <2>2, <2>3, <2>4
      DEF RecordRetry, StoreTypeOK, EnvTypeOK, PrimaryTypeOK,
          ScheduledTypeOK, primaryVars, scheduledVars
  <1>4. CASE AckRetry(p)
    BY <1>0, <1>4
    DEF AckRetry, storeVars, envVars, StoreTypeOK, EnvTypeOK, PrimaryTypeOK,
        ScheduledTypeOK, primaryVars, scheduledVars
  <1> QED
    BY <1>1, <1>2, <1>3, <1>4 DEF Retrying

LEMMA PollingKeepsType ==
    ASSUME TypeOK, NEW p \in Pods, Polling(p)
    PROVE  TypeOK'
  <1> USE DEF TypeOK, FaultsOK, ScheduledTypeOK
  <1>0. UNCHANGED <<primaryVars, retryVars, stopping>>
    BY DEF Polling
  <1>1. CASE PollScheduled(p)
    <2>1. PICK S \in LimitedTo(ScheduledBatch, ScheduledDue) :
             poll' = [poll EXCEPT ![p] = [NoPoll EXCEPT !.rows = S]]
      BY <1>1 DEF PollScheduled
    <2>2. S \subseteq Notif
      BY DEF LimitedTo, ScheduledDue
    <2>3. poll' \in [Pods -> Polls]
      BY <2>1, <2>2 DEF Polls, NoPoll
    <2> QED
      BY <1>0, <1>1, <2>3
      DEF PollScheduled, storeVars, envVars, StoreTypeOK, EnvTypeOK,
          PrimaryTypeOK, RetryTypeOK, primaryVars, retryVars
  <1>2. ASSUME NEW n \in Notif, MarkScheduled(p, n)
        PROVE  TypeOK'
    <2>1. dedup' \in [Notif -> Nat]
      BY <1>2, DedupAssumption DEF MarkScheduled
    <2>2. poll' \in [Pods -> Polls]
      BY <1>2 DEF MarkScheduled, Looked, Polls
    <2>3. FaultsOK'
      BY <1>2, FaultType DEF MarkScheduled
    <2> QED
      BY <1>0, <1>2, <2>1, <2>2, <2>3
      DEF MarkScheduled, storeVars, StoreTypeOK, EnvTypeOK,
          PrimaryTypeOK, RetryTypeOK, primaryVars, retryVars
  <1>3. ASSUME NEW n \in Notif, PublishScheduled(p, n)
        PROVE  TypeOK'
    <2>1. sendQ' \in [Notif -> Nat]
      BY <1>3, BagTypes DEF PublishScheduled, EnvTypeOK
    <2>2. FaultsOK'
      BY <1>3, FaultType DEF PublishScheduled
    <2>3. poll' \in [Pods -> Polls]
      BY <1>3 DEF PublishScheduled, Polls
    <2> QED
      BY <1>0, <1>3, <2>1, <2>2, <2>3
      DEF PublishScheduled, storeVars, StoreTypeOK, EnvTypeOK,
          PrimaryTypeOK, RetryTypeOK, primaryVars, retryVars
  <1> QED
    BY <1>1, <1>2, <1>3 DEF Polling

LEMMA TickKeepsType ==
    ASSUME TypeOK, Tick
    PROVE  TypeOK'
  <1> USE DEF TypeOK, FaultsOK
  <1>1. row' \in [Notif -> Rows]
    BY RowTypes DEF Tick, StoreTypeOK
  <1>2. dedup' \in [Notif -> Nat]
    BY EarlierType DEF Tick, ScheduledTypeOK
  <1>3. claim' \in [Pods -> Claims]
    <2>1. \A p \in Pods :
             [claim[p] EXCEPT !.leaseIn = Earlier(@)] \in Claims
      BY EarlierType DEF RetryTypeOK, Claims
    <2> QED
      BY <2>1 DEF Tick
  <1>4. poll' \in [Pods -> Polls]
    BY DEF Tick, ScheduledTypeOK, Polls
  <1>5. FaultsOK'
    BY FaultType DEF Tick
  <1> QED
    BY <1>1, <1>2, <1>3, <1>4, <1>5
    DEF Tick, StoreTypeOK, EnvTypeOK, PrimaryTypeOK, RetryTypeOK,
        ScheduledTypeOK, primaryVars

LEMMA RequeueType ==
    ASSUME NEW bag \in [Notif -> Nat], NEW consumer, NEW S
    PROVE  /\ Requeue(bag, consumer) \in [Notif -> Nat]
           /\ PlusEach(bag, S) \in [Notif -> Nat]
  BY DEF Requeue, PlusEach

LEMMA VanishKeepsType ==
    ASSUME TypeOK, NEW p \in Pods, Vanish(p), FaultsOK'
    PROVE  TypeOK'
  <1> USE DEF TypeOK, FaultsOK
  <1>1. sendQ' \in [Notif -> Nat]
    <2> DEFINE bag == IF p \in stopping THEN sendQ ELSE Requeue(sendQ, sender[p])
    <2>1. bag \in [Notif -> Nat]
      BY RequeueType DEF EnvTypeOK
    <2>2. PICK S : sendQ' = PlusEach(bag, S)
      BY DEF Vanish
    <2> QED
      BY <2>1, <2>2, RequeueType
  <1>2. retryQ' \in [Notif -> Nat]
    BY RequeueType DEF Vanish, EnvTypeOK
  <1>3. PrimaryTypeOK'
    BY DEF Vanish, PrimaryTypeOK
  <1>4. RetryTypeOK'
    BY DEF Vanish, RetryTypeOK, Claims, NoClaim
  <1>5. ScheduledTypeOK'
    BY DEF Vanish, ScheduledTypeOK, Polls, NoPoll
  <1> QED
    BY <1>1, <1>2, <1>3, <1>4, <1>5
    DEF Vanish, RollBack, StoreTypeOK, EnvTypeOK

LEMMA StopKeepsType ==
    ASSUME TypeOK, NEW p \in Pods, Stop(p) \/ Exit(p) \/ Crash(p)
    PROVE  TypeOK'
  <1> USE DEF TypeOK, FaultsOK
  <1>1. CASE Stop(p)
    <2>1. sendQ' \in [Notif -> Nat] /\ retryQ' \in [Notif -> Nat]
      BY <1>1, RequeueType DEF Stop, EnvTypeOK
    <2>2. FaultsOK'
      BY <1>1, FaultType DEF Stop
    <2>3. claim' \in [Pods -> Claims]
      BY <1>1 DEF Stop, RetryTypeOK, Claims, NoClaim
    <2>4. poll' \in [Pods -> Polls]
      BY <1>1 DEF Stop, ScheduledTypeOK, Polls, NoPoll
    <2> QED
      BY <1>1, <2>1, <2>2, <2>3, <2>4
      DEF Stop, RollBack, StoreTypeOK, EnvTypeOK, PrimaryTypeOK, RetryTypeOK,
          ScheduledTypeOK, primaryVars
  <1>2. CASE Exit(p) \/ Crash(p)
    <2>1. FaultsOK'
      BY <1>2, FaultType DEF Exit, Crash, NoFault, EnvTypeOK
    <2> QED
      BY <1>2, <2>1, VanishKeepsType DEF Exit, Crash
  <1> QED
    BY <1>1, <1>2

LEMMA StutterKeepsType ==
    ASSUME TypeOK, UNCHANGED vars
    PROVE  TypeOK'
  BY DEF TypeOK, FaultsOK, vars, storeVars, envVars, primaryVars, retryVars, scheduledVars,
         StoreTypeOK, EnvTypeOK, PrimaryTypeOK, RetryTypeOK, ScheduledTypeOK

LEMMA InitType == Init => TypeOK
  <1> SUFFICES ASSUME Init PROVE TypeOK
    OBVIOUS
  <1> USE DEF Init
  <1>1. StoreTypeOK
    BY DEF StoreInit, StoreTypeOK, NoRow, Rows, Times, NoTime
  <1>2. EnvTypeOK
    BY FaultsAssumption DEF EnvInit, EnvTypeOK, FaultsOK
  <1>3. PrimaryTypeOK
    BY DEF PrimaryInit, PrimaryTypeOK
  <1>4. RetryTypeOK
    BY DEF RetryInit, RetryTypeOK, NoClaim, Claims
  <1>5. ScheduledTypeOK
    BY DEF ScheduledInit, ScheduledTypeOK, NoPoll, Polls
  <1> QED
    BY <1>1, <1>2, <1>3, <1>4, <1>5 DEF TypeOK

\* Every variable keeps its type: in particular no queue is ever taken from
\* below zero and no consumer holds anything but one message.
THEOREM TypeCorrect == Spec => []TypeOK
  <1>1. TypeOK /\ [Next]_vars => TypeOK'
    BY PrimaryKeepsType, ClaimingKeepsType, RetryingKeepsType, PollingKeepsType,
       TickKeepsType, StopKeepsType, StutterKeepsType
    DEF Next, PodStep
  <1> QED
    BY InitType, <1>1, PTL DEF Spec

-----------------------------------------------------------------------------
(* What a step may do to a row. *)

\* A consumer holds the news that the provider accepted n.
AcceptedBy(consumer, n) == Holds(consumer, n) /\ consumer.pc = "sent"

\* p has a transaction that holds the row of n.
InTx(p, n) == claim[p].pc = "tx" /\ n \in claim[p].rows

RowKept(n) == row'[n] = row[n]
RowAged(n) == Tick /\ row'[n] = AgeRow(row[n])
RowCreated(n) ==
    row[n].status = "ABSENT" /\ \E s \in Schedules : row'[n] = NewRow(s)
RowLeased(n) ==
    \E p \in Pods : InTx(p, n) /\ row'[n] = Leased(row[n], claim[p].leaseIn)
RowFailed(n) == row'[n] = AfterSendFailure(row[n])
RowCompleted(n) ==
    /\ row'[n] \in {AfterFirstSuccess(row[n]), AfterRetrySuccess(row[n])}
    /\ \E p \in Pods : AcceptedBy(sender[p], n) \/ AcceptedBy(retrier[p], n)

RowChange(n) ==
    \/ RowKept(n) \/ RowAged(n) \/ RowCreated(n)
    \/ RowLeased(n) \/ RowFailed(n) \/ RowCompleted(n)

LEMMA RowChanges ==
    ASSUME TypeOK, [Next]_vars
    PROVE  \A n \in Notif : RowChange(n)
  <1> SUFFICES ASSUME NEW n \in Notif
               PROVE  RowChange(n)
    OBVIOUS
  <1>0. row \in [Notif -> Rows]
    BY DEF TypeOK, StoreTypeOK
  <1>1. CASE row' = row
    BY <1>1 DEF RowChange, RowKept
  <1>2. CASE Tick
    BY <1>0, <1>2 DEF Tick, RowChange, RowAged
  <1>3. ASSUME NEW p \in Pods, NEW m \in Notif, NEW s \in Schedules,
               CreateRow(p, m, s)
        PROVE  RowChange(n)
    BY <1>0, <1>3 DEF CreateRow, RowChange, RowKept, RowCreated
  <1>4. ASSUME NEW p \in Pods, RecordPrimary(p)
        PROVE  RowChange(n)
    <2>1. sender[p].n \in Notif /\ sender[p] # Idle
      BY <1>4 DEF RecordPrimary, TypeOK, PrimaryTypeOK, Idle, Jobs
    <2>2. CASE sender[p].n = n /\ sender[p].pc = "sent" /\ row' # row
      <3>1. row'[n] = AfterFirstSuccess(row[n])
        BY <1>0, <1>4, <2>2 DEF RecordPrimary
      <3> QED
        BY <2>1, <2>2, <3>1 DEF RowChange, RowCompleted, AcceptedBy, Holds
    <2>3. CASE sender[p].n = n /\ sender[p].pc # "sent" /\ row' # row
      BY <1>0, <1>4, <2>3 DEF RecordPrimary, RowChange, RowFailed
    <2>4. CASE sender[p].n # n
      BY <1>0, <1>4, <2>1, <2>4 DEF RecordPrimary, RowChange, RowKept
    <2> QED
      BY <1>1, <2>2, <2>3, <2>4
  <1>5. ASSUME NEW p \in Pods, RecordRetry(p)
        PROVE  RowChange(n)
    <2>1. retrier[p].n \in Notif /\ retrier[p] # Idle
      BY <1>5 DEF RecordRetry, TypeOK, RetryTypeOK, Idle, Jobs
    <2>2. CASE retrier[p].n = n /\ retrier[p].pc = "sent" /\ row' # row
      <3>1. row'[n] = AfterRetrySuccess(row[n])
        BY <1>0, <1>5, <2>2 DEF RecordRetry
      <3> QED
        BY <2>1, <2>2, <3>1 DEF RowChange, RowCompleted, AcceptedBy, Holds
    <2>3. CASE retrier[p].n = n /\ retrier[p].pc # "sent" /\ row' # row
      BY <1>0, <1>5, <2>3 DEF RecordRetry, RowChange, RowFailed
    <2>4. CASE retrier[p].n # n
      BY <1>0, <1>5, <2>1, <2>4 DEF RecordRetry, RowChange, RowKept
    <2> QED
      BY <1>1, <2>2, <2>3, <2>4
  <1>6. ASSUME NEW p \in Pods, claim[p].pc = "tx",
               LeaseRows(claim[p].rows, claim[p].leaseIn)
        PROVE  RowChange(n)
    BY <1>6 DEF LeaseRows, RowChange, RowKept, RowLeased, InTx
  <1>7. ASSUME NEW p \in Pods, Claiming(p)
        PROVE  RowChange(n)
    BY <1>1, <1>6, <1>7
    DEF Claiming, ClaimRetries, CommitClaim, AbortClaim, PublishRetry, storeVars
  <1>8. ASSUME NEW p \in Pods, Retrying(p)
        PROVE  RowChange(n)
    BY <1>1, <1>5, <1>8
    DEF Retrying, LoadRetry, SendRetry, AckRetry, storeVars
  <1>9. ASSUME NEW p \in Pods, Creating(p) \/ Answering(p) \/ Sending(p)
        PROVE  RowChange(n)
    BY <1>1, <1>3, <1>4, <1>9
    DEF Creating, Answering, Sending, FinishRequest, SendPrimary, AckPrimary
  <1>10. ASSUME NEW p \in Pods, Polling(p) \/ Stop(p) \/ Exit(p) \/ Crash(p)
         PROVE  RowChange(n)
    BY <1>1, <1>10
    DEF Polling, PollScheduled, MarkScheduled, PublishScheduled, Stop, Exit, Crash,
        Vanish, storeVars
  <1>11. CASE UNCHANGED vars
    BY <1>1, <1>11 DEF vars, storeVars
  <1> QED
    BY <1>2, <1>7, <1>8, <1>9, <1>10, <1>11 DEF Next, PodStep

-----------------------------------------------------------------------------
(* Attempts and statuses. *)

LEMMA InitStatus == Init => StatusMatchesAttempts
  <1> SUFFICES ASSUME Init, NEW n \in Notif
               PROVE  row[n].status \notin {"PENDING", "FAILED"}
    BY DEF StatusMatchesAttempts
  <1> QED
    BY DEF Init, StoreInit, NoRow

LEMMA StatusStep ==
    ASSUME TypeOK, StatusMatchesAttempts, [Next]_vars
    PROVE  StatusMatchesAttempts'
  <1> SUFFICES ASSUME NEW n \in Notif
               PROVE  /\ row'[n].status = "PENDING" => row'[n].attempts < MaxAttempts
                      /\ row'[n].status = "FAILED" => row'[n].attempts >= MaxAttempts
    BY DEF StatusMatchesAttempts
  <1>0. row[n] \in Rows
    BY DEF TypeOK, StoreTypeOK
  <1>1. /\ row[n].status = "PENDING" => row[n].attempts < MaxAttempts
        /\ row[n].status = "FAILED" => row[n].attempts >= MaxAttempts
    BY DEF StatusMatchesAttempts
  <1>2. CASE RowKept(n) \/ RowAged(n) \/ RowLeased(n)
    BY <1>0, <1>1, <1>2 DEF RowKept, RowAged, RowLeased, AgeRow, Leased, Rows
  <1>3. CASE RowCreated(n)
    BY <1>3, AttemptsAssumption DEF RowCreated, NewRow, NoRow
  <1>4. CASE RowFailed(n)
    BY <1>0, <1>1, <1>4, AttemptsAssumption DEF RowFailed, AfterSendFailure, Rows
  <1>5. CASE RowCompleted(n)
    BY <1>0, <1>5 DEF RowCompleted, AfterFirstSuccess, AfterRetrySuccess, Rows
  <1> QED
    BY <1>2, <1>3, <1>4, <1>5, RowChanges DEF RowChange

\* Under every fault, a PENDING row has attempts left and a FAILED row has
\* none: no row is stuck PENDING beyond the reach of the retry query because
\* its attempts are spent, and none is FAILED early.
THEOREM AttemptsDecideStatus == Spec => []StatusMatchesAttempts
  <1>1. TypeOK /\ StatusMatchesAttempts /\ [Next]_vars => StatusMatchesAttempts'
    BY StatusStep
  <1> QED
    BY InitStatus, <1>1, TypeCorrect, PTL DEF Spec

-----------------------------------------------------------------------------
(* Completion and delivery. *)

\* The provider accepted what a consumer is about to record as accepted.
NewsIsTrue ==
    \A p \in Pods, n \in Notif :
        AcceptedBy(sender[p], n) \/ AcceptedBy(retrier[p], n) => sent[n] > 0

\* The inductive invariant behind CompletedWasSent.
DeliveryInv == CompletedWasSent /\ NewsIsTrue

LEMMA SentGrows ==
    ASSUME TypeOK, [Next]_vars
    PROVE  \A n \in Notif : sent[n] > 0 => sent'[n] > 0
  <1> SUFFICES ASSUME NEW n \in Notif, sent[n] > 0
               PROVE  sent'[n] > 0
    OBVIOUS
  <1>0. sent \in [Notif -> Nat]
    BY DEF TypeOK, EnvTypeOK
  <1>1. CASE sent' = sent
    BY <1>1
  <1>2. ASSUME NEW m \in Notif, NEW outcome, Attempt(m, outcome)
        PROVE  sent'[n] > 0
    BY <1>0, <1>2 DEF Attempt, Plus
  <1>3. ASSUME NEW p \in Pods, SendRetry(p)
        PROVE  sent'[n] > 0
    <2>1. retrier[p].n \in Notif
      BY <1>3 DEF SendRetry, TypeOK, RetryTypeOK, Idle, Jobs
    <2> QED
      BY <1>2, <1>3, <2>1 DEF SendRetry
  <1>4. ASSUME NEW p \in Pods, Sending(p)
        PROVE  sent'[n] > 0
    BY <1>1, <1>2, <1>4 DEF Sending, SendPrimary, RecordPrimary, AckPrimary, envVars
  <1>5. ASSUME NEW p \in Pods, Retrying(p)
        PROVE  sent'[n] > 0
    BY <1>1, <1>3, <1>5 DEF Retrying, LoadRetry, RecordRetry, AckRetry, envVars
  <1>6. ASSUME NEW p \in Pods, Creating(p) \/ Answering(p) \/ Claiming(p)
        PROVE  sent'[n] > 0
    BY <1>1, <1>6
    DEF Creating, Answering, CreateRow, FinishRequest,
        Claiming, ClaimRetries, CommitClaim, AbortClaim, PublishRetry, envVars
  <1>7. ASSUME NEW p \in Pods, Polling(p) \/ Stop(p) \/ Exit(p) \/ Crash(p)
        PROVE  sent'[n] > 0
    BY <1>1, <1>7
    DEF Polling, PollScheduled, MarkScheduled, PublishScheduled, Stop, Exit, Crash,
        Vanish, envVars
  <1>8. CASE Tick \/ UNCHANGED vars
    BY <1>1, <1>8 DEF Tick, vars, envVars
  <1> QED
    BY <1>4, <1>5, <1>6, <1>7, <1>8 DEF Next, PodStep

\* News of an acceptance reaches a consumer only in the step that counts it.
LEMMA NewsStep ==
    ASSUME TypeOK, NewsIsTrue, [Next]_vars
    PROVE  NewsIsTrue'
  <1> SUFFICES ASSUME NEW q \in Pods, NEW n \in Notif,
                      AcceptedBy(sender'[q], n) \/ AcceptedBy(retrier'[q], n)
               PROVE  sent'[n] > 0
    BY DEF NewsIsTrue, AcceptedBy, Holds
  <1>0. /\ sent \in [Notif -> Nat]
        /\ sender \in [Pods -> {Idle} \union Jobs]
        /\ retrier \in [Pods -> {Idle} \union Jobs]
    BY DEF TypeOK, EnvTypeOK, PrimaryTypeOK, RetryTypeOK
  <1>1. CASE AcceptedBy(sender[q], n) \/ AcceptedBy(retrier[q], n)
    BY <1>1, SentGrows DEF NewsIsTrue
  <1>2. CASE sender' = sender /\ retrier' = retrier
    BY <1>1, <1>2
  <1>3. ASSUME NEW p \in Pods, NEW m \in Notif, SendPrimary(p, m),
               retrier' = retrier
        PROVE  sent'[n] > 0
    <2>1. PICK outcome \in {"sent", "failed"} :
             /\ Attempt(m, outcome)
             /\ sender' = [sender EXCEPT ![p] = Job(outcome, m)]
      BY <1>3 DEF SendPrimary
    <2>2. CASE q = p /\ AcceptedBy(sender'[q], n)
      <3>1. outcome = "sent" /\ m = n
        BY <1>0, <2>1, <2>2 DEF AcceptedBy, Holds, Job
      <3> QED
        BY <1>0, <2>1, <3>1 DEF Attempt, Plus
    <2>3. CASE ~(q = p /\ AcceptedBy(sender'[q], n))
      BY <1>0, <1>1, <1>3, <2>1, <2>3
    <2> QED
      BY <2>2, <2>3
  <1>4. ASSUME NEW p \in Pods, SendRetry(p), sender' = sender
        PROVE  sent'[n] > 0
    <2>1. PICK outcome \in {"sent", "failed"} :
             /\ Attempt(retrier[p].n, outcome)
             /\ retrier' = [retrier EXCEPT ![p].pc = outcome]
      BY <1>4 DEF SendRetry
    <2>2. retrier[p] \in Jobs
      BY <1>0, <1>4 DEF SendRetry, Idle
    <2>3. CASE q = p /\ AcceptedBy(retrier'[q], n)
      <3>1. outcome = "sent" /\ retrier[p].n = n
        BY <1>0, <2>1, <2>2, <2>3 DEF AcceptedBy, Holds, Jobs
      <3> QED
        BY <1>0, <2>1, <3>1 DEF Attempt, Plus
    <2>4. CASE ~(q = p /\ AcceptedBy(retrier'[q], n))
      BY <1>0, <1>1, <1>4, <2>1, <2>4
    <2> QED
      BY <2>3, <2>4
  <1>5. ASSUME NEW p \in Pods, RecordPrimary(p) \/ AckPrimary(p),
               retrier' = retrier
        PROVE  sent'[n] > 0
    <2>1. ~AcceptedBy(sender'[p], n)
      BY <1>0, <1>5 DEF RecordPrimary, AckPrimary, AcceptedBy, Holds, Job, Idle
    <2> QED
      BY <1>0, <1>1, <1>5, <2>1 DEF RecordPrimary, AckPrimary
  <1>6. ASSUME NEW p \in Pods, RecordRetry(p) \/ AckRetry(p), sender' = sender
        PROVE  sent'[n] > 0
    <2>1. ~AcceptedBy(retrier'[p], n)
      <3>1. CASE RecordRetry(p)
        <4>1. retrier[p] \in Jobs
          BY <1>0, <3>1 DEF RecordRetry, Idle
        <4> QED
          BY <1>0, <3>1, <4>1 DEF RecordRetry, AcceptedBy, Jobs
      <3>2. CASE AckRetry(p)
        BY <1>0, <3>2 DEF AckRetry, AcceptedBy, Idle
      <3> QED
        BY <1>6, <3>1, <3>2
    <2> QED
      BY <1>0, <1>1, <1>6, <2>1 DEF RecordRetry, AckRetry
  <1>7. ASSUME NEW p \in Pods, NEW m \in Notif, LoadRetry(p, m), sender' = sender
        PROVE  sent'[n] > 0
    <2>1. ~AcceptedBy(retrier'[p], n)
      BY <1>0, <1>7 DEF LoadRetry, AcceptedBy, Job
    <2> QED
      BY <1>0, <1>1, <1>7, <2>1 DEF LoadRetry
  <1>8. ASSUME NEW p \in Pods, Vanish(p)
        PROVE  sent'[n] > 0
    <2>1. ~AcceptedBy(sender'[p], n) /\ ~AcceptedBy(retrier'[p], n)
      BY <1>0, <1>8 DEF Vanish, AcceptedBy, Holds
    <2> QED
      BY <1>0, <1>1, <1>8, <2>1 DEF Vanish
  <1>9. ASSUME NEW p \in Pods, Sending(p)
        PROVE  sent'[n] > 0
    BY <1>3, <1>5, <1>9 DEF Sending, retryVars
  <1>10. ASSUME NEW p \in Pods, Retrying(p)
         PROVE  sent'[n] > 0
    BY <1>4, <1>6, <1>7, <1>10 DEF Retrying, primaryVars
  <1>11. ASSUME NEW p \in Pods, Creating(p) \/ Answering(p) \/ Claiming(p)
         PROVE  sent'[n] > 0
    BY <1>2, <1>11
    DEF Creating, Answering, CreateRow, FinishRequest, retryVars,
        Claiming, ClaimRetries, CommitClaim, AbortClaim, PublishRetry, primaryVars
  <1>12. ASSUME NEW p \in Pods, Polling(p) \/ Stop(p)
         PROVE  sent'[n] > 0
    BY <1>2, <1>12 DEF Polling, Stop, primaryVars, retryVars
  <1>13. CASE Tick \/ UNCHANGED vars
    BY <1>2, <1>13 DEF Tick, vars, primaryVars, retryVars
  <1> QED
    BY <1>8, <1>9, <1>10, <1>11, <1>12, <1>13 DEF Next, PodStep, Exit, Crash

LEMMA CompletedStep ==
    ASSUME TypeOK, DeliveryInv, [Next]_vars
    PROVE  CompletedWasSent'
  <1> SUFFICES ASSUME NEW n \in Notif, row'[n].status = "COMPLETED"
               PROVE  sent'[n] > 0
    BY DEF CompletedWasSent
  <1>0. row[n] \in Rows
    BY DEF TypeOK, StoreTypeOK
  <1>1. CASE row[n].status = "COMPLETED"
    BY <1>1, SentGrows DEF DeliveryInv, CompletedWasSent
  <1>2. CASE RowCompleted(n)
    BY <1>2, SentGrows DEF RowCompleted, DeliveryInv, NewsIsTrue
  <1>3. CASE RowKept(n) \/ RowAged(n) \/ RowLeased(n)
    BY <1>0, <1>1, <1>3 DEF RowKept, RowAged, RowLeased, AgeRow, Leased, Rows
  <1>4. CASE RowCreated(n)
    BY <1>4 DEF RowCreated, NewRow, NoRow
  <1>5. CASE RowFailed(n)
    BY <1>0, <1>1, <1>5 DEF RowFailed, AfterSendFailure, Rows
  <1> QED
    BY <1>2, <1>3, <1>4, <1>5, RowChanges DEF RowChange

LEMMA InitDelivery == Init => DeliveryInv
  <1> SUFFICES ASSUME Init
               PROVE  DeliveryInv
    OBVIOUS
  <1>1. CompletedWasSent
    BY DEF Init, StoreInit, NoRow, CompletedWasSent
  <1>2. NewsIsTrue
    BY DEF Init, PrimaryInit, RetryInit, NewsIsTrue, AcceptedBy, Holds
  <1> QED
    BY <1>1, <1>2 DEF DeliveryInv

\* Under every fault, a row says COMPLETED only if a provider accepted the
\* notification: no lost, repeated or reordered message makes the database
\* claim a delivery that did not take place.
THEOREM CompletedMeansSent == Spec => []CompletedWasSent
  <1>1. TypeOK /\ DeliveryInv /\ [Next]_vars => DeliveryInv'
    BY CompletedStep, NewsStep DEF DeliveryInv
  <1>2. DeliveryInv => CompletedWasSent
    BY DEF DeliveryInv
  <1> QED
    BY InitDelivery, <1>1, <1>2, TypeCorrect, PTL DEF Spec

-----------------------------------------------------------------------------
(* Claims. *)

LEMMA ClaimsRestated ==
    ASSUME TypeOK
    PROVE  ClaimsAreExclusive <=>
             /\ \A p \in Pods, n \in Notif :
                   InTx(p, n) => n \in locked /\ IsRetryDue(row[n])
             /\ \A p, q \in Pods, n \in Notif :
                   InTx(p, n) /\ InTx(q, n) => p = q
  BY DEF ClaimsAreExclusive, InTx, TypeOK, RetryTypeOK, Claims

\* A row stays due as time passes.
LEMMA DueStaysDue ==
    ASSUME NEW r \in Rows, IsRetryDue(r)
    PROVE  IsRetryDue(AgeRow(r))
  BY DEF Rows, Times, NoTime, IsRetryDue, IsRetryTarget, AgeRow, Earlier

\* The consumers, the requests and the scheduled pass leave claims and locks
\* alone, and write no row that a claim holds.
LEMMA OthersLeaveClaimsAlone ==
    ASSUME TypeOK, ClaimsAreExclusive, NEW p \in Pods,
           \/ Creating(p) \/ Answering(p) \/ Sending(p)
           \/ Retrying(p) \/ Polling(p)
    PROVE  /\ claim' = claim /\ locked' = locked
           /\ \A n \in locked : IsRetryDue(row[n]) => row'[n] = row[n]
  <1>0. row \in [Notif -> Rows] /\ locked \subseteq Notif
    BY DEF TypeOK, StoreTypeOK
  <1>1. claim' = claim /\ locked' = locked
    BY DEF Creating, Answering, Sending, Retrying, Polling, CreateRow, FinishRequest,
           SendPrimary, RecordPrimary, AckPrimary, LoadRetry, SendRetry, RecordRetry,
           AckRetry, PollScheduled, MarkScheduled, PublishScheduled,
           storeVars, retryVars
  <1> SUFFICES ASSUME NEW n \in locked, IsRetryDue(row[n])
               PROVE  row'[n] = row[n]
    BY <1>1
  <1>2. CASE Creating(p)
    BY <1>0, <1>2 DEF Creating, CreateRow, IsRetryDue, IsRetryTarget
  <1>3. CASE Sending(p)
    BY <1>0, <1>3 DEF Sending, SendPrimary, RecordPrimary, AckPrimary
  <1>4. CASE Retrying(p)
    BY <1>0, <1>4
    DEF Retrying, LoadRetry, SendRetry, RecordRetry, AckRetry, storeVars
  <1>5. CASE Answering(p) \/ Polling(p)
    BY <1>5
    DEF Answering, FinishRequest, Polling, PollScheduled, MarkScheduled,
        PublishScheduled, storeVars
  <1> QED
    BY <1>2, <1>3, <1>4, <1>5

LEMMA ClaimsStep ==
    ASSUME TypeOK, TypeOK', ClaimsAreExclusive, [Next]_vars
    PROVE  ClaimsAreExclusive'
  <1>0. /\ row \in [Notif -> Rows] /\ locked \subseteq Notif
        /\ claim \in [Pods -> Claims]
    BY DEF TypeOK, StoreTypeOK, RetryTypeOK
  <1>a. /\ \A p \in Pods, n \in Notif :
              InTx(p, n) => n \in locked /\ IsRetryDue(row[n])
        /\ \A p, q \in Pods, n \in Notif : InTx(p, n) /\ InTx(q, n) => p = q
    BY ClaimsRestated
  <1> SUFFICES
        /\ \A p \in Pods, n \in Notif :
              InTx(p, n)' => n \in locked' /\ IsRetryDue(row'[n])
        /\ \A p, q \in Pods, n \in Notif : InTx(p, n)' /\ InTx(q, n)' => p = q
    BY DEF ClaimsAreExclusive, InTx, TypeOK, RetryTypeOK, Claims
  <1>1. CASE \E c \in Pods : \/ Creating(c) \/ Answering(c) \/ Sending(c)
                            \/ Retrying(c) \/ Polling(c)
    BY <1>1, <1>a, OthersLeaveClaimsAlone DEF InTx
  <1>2. CASE Tick
    <2>1. /\ \A p \in Pods, n \in Notif : InTx(p, n)' <=> InTx(p, n)
          /\ locked' = locked
      BY <1>0, <1>2 DEF Tick, InTx, Claims
    <2>2. \A n \in Notif : IsRetryDue(row[n]) => IsRetryDue(row'[n])
      BY <1>0, <1>2, DueStaysDue DEF Tick
    <2> QED
      BY <1>a, <2>1, <2>2
  <1>3. ASSUME NEW c \in Pods, ClaimRetries(c)
        PROVE  /\ \A p \in Pods, n \in Notif :
                     InTx(p, n)' => n \in locked' /\ IsRetryDue(row'[n])
               /\ \A p, q \in Pods, n \in Notif :
                     InTx(p, n)' /\ InTx(q, n)' => p = q
    <2>1. PICK S \in LimitedTo(RetryBatch, Claimable) :
             /\ locked' = locked \union S
             /\ claim' = [claim EXCEPT ![c] =
                             [pc |-> "tx", rows |-> S, leaseIn |-> PublishLease]]
      BY <1>3 DEF ClaimRetries
    <2>2. \A n \in S : n \in Notif /\ n \notin locked /\ IsRetryDue(row[n])
      BY DEF LimitedTo, Claimable
    <2>3. \A n \in Notif : InTx(c, n)' <=> n \in S
      BY <1>0, <2>1 DEF InTx
    <2>4. \A p \in Pods, n \in Notif : p # c => (InTx(p, n)' <=> InTx(p, n))
      BY <1>0, <2>1 DEF InTx
    <2>5. row' = row
      BY <1>3 DEF ClaimRetries
    <2> QED
      BY <1>a, <2>1, <2>2, <2>3, <2>4, <2>5
  <1>4. ASSUME NEW c \in Pods, claim[c].pc = "tx",
               CommitClaim(c) \/ AbortClaim(c) \/ Stop(c) \/ Vanish(c)
        PROVE  /\ \A p \in Pods, n \in Notif :
                     InTx(p, n)' => n \in locked' /\ IsRetryDue(row'[n])
               /\ \A p, q \in Pods, n \in Notif :
                     InTx(p, n)' /\ InTx(q, n)' => p = q
    <2>1. locked' = locked \ claim[c].rows
      BY <1>4 DEF CommitClaim, AbortClaim, Stop, Vanish, RollBack
    <2>2. \A n \in Notif : ~InTx(c, n)'
      BY <1>0, <1>4 DEF CommitClaim, AbortClaim, Stop, Vanish, NoClaim, InTx, Claims
    <2>3. \A p \in Pods, n \in Notif : p # c => (InTx(p, n)' <=> InTx(p, n))
      BY <1>0, <1>4 DEF CommitClaim, AbortClaim, Stop, Vanish, InTx
    <2>4. \A n \in Notif \ claim[c].rows : row'[n] = row[n]
      BY <1>0, <1>4 DEF CommitClaim, AbortClaim, Stop, Vanish, LeaseRows
    <2>5. \A p \in Pods, n \in Notif :
             p # c /\ InTx(p, n) => n \notin claim[c].rows
      BY <1>4, <1>a DEF InTx
    <2> QED
      BY <1>a, <2>1, <2>2, <2>3, <2>4, <2>5
  <1>5. ASSUME NEW c \in Pods, claim[c].pc # "tx",
               Stop(c) \/ Vanish(c) \/ \E n \in Notif : PublishRetry(c, n)
        PROVE  /\ \A p \in Pods, n \in Notif :
                     InTx(p, n)' => n \in locked' /\ IsRetryDue(row'[n])
               /\ \A p, q \in Pods, n \in Notif :
                     InTx(p, n)' /\ InTx(q, n)' => p = q
    <2>1. locked' = locked /\ row' = row
      BY <1>5 DEF Stop, Vanish, RollBack, PublishRetry, storeVars
    <2>2. \A n \in Notif : ~InTx(c, n)'
      BY <1>0, <1>5 DEF Stop, Vanish, PublishRetry, Without, NoClaim, InTx, Claims
    <2>3. \A p \in Pods, n \in Notif : p # c => (InTx(p, n)' <=> InTx(p, n))
      BY <1>0, <1>5 DEF Stop, Vanish, PublishRetry, InTx
    <2> QED
      BY <1>a, <2>1, <2>2, <2>3
  <1>6. CASE UNCHANGED vars
    BY <1>6, <1>a DEF vars, storeVars, retryVars, InTx
  <1>7. CASE \E c \in Pods : Claiming(c) \/ Stop(c) \/ Vanish(c)
    BY <1>7, <1>3, <1>4, <1>5
    DEF Claiming, CommitClaim, AbortClaim, PublishRetry
  <1> QED
    BY <1>1, <1>2, <1>6, <1>7 DEF Next, PodStep, Exit, Crash

LEMMA InitClaims == Init => ClaimsAreExclusive
  BY DEF Init, RetryInit, NoClaim, ClaimsAreExclusive

\* Under every fault, two transactions never hold the same row, and a row that
\* one holds is still due when its lease is written: SKIP LOCKED together with
\* the row locks makes the claim of several pods atomic.
THEOREM ClaimsExclusive == Spec => []ClaimsAreExclusive
  <1>1. TypeOK /\ TypeOK' /\ ClaimsAreExclusive /\ [Next]_vars
           => ClaimsAreExclusive'
    BY ClaimsStep
  <1> QED
    BY InitClaims, <1>1, TypeCorrect, PTL DEF Spec

=============================================================================
