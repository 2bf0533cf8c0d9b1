--------------------------- MODULE LifecycleProofs ---------------------------
(***************************************************************************)
(* The proof that the pipeline implements NotificationLifecycle until a    *)
(* fault strikes, and of what it rests on: a notification has one primary  *)
(* message at a time, as long as no timer is late, no pod is asked to stop *)
(* and no client asks for the past.  Both for every number of pods and     *)
(* notifications.                                                          *)
(***************************************************************************)
EXTENDS InFlightProofs

\* While a request is being served, nothing else sends its notification; a
\* scheduled pass has rows whose time has come, and the message it has sent
\* for one is covered by a key.
SendOK(n) ==
    /\ SingleSend(n)
    /\ \A p \in Pods : n \in serving[p] =>
          /\ ~SendOnItsWay(n) /\ row[n].scheduledIn # 0
          /\ \A q \in Pods : n \in serving[q] => q = p
    /\ \A p \in Pods :
          n \in poll[p].rows \/ n \in poll[p].marked => row[n].scheduledIn = 0
    /\ SendOnItsWay(n) /\ row[n].scheduledIn # NoTime
          => row[n].scheduledIn = 0 /\ dedup[n] >= 1

\* The inductive invariant behind SingleSendInFlight.
SendInv == 0 \notin Schedules /\ Calm => \A n \in Notif : SendOK(n)

LEMMA QuietSend ==
    ASSUME NEW n \in Notif, Quiet(n)
    PROVE  SendOK(n) /\ ~SendOnItsWay(n) /\ Unserved(n)
  BY DEF Quiet, Unserved, SendOK, SingleSend, SendOnItsWay, SendAt, NoTime

LEMMA ScheduleKept ==
    ASSUME TypeOK, [Next]_vars, ~Tick, NEW n \in Notif, row[n].status # "ABSENT"
    PROVE  row'[n].scheduledIn = row[n].scheduledIn
  <1>0. row[n] \in Rows
    BY DEF TypeOK, StoreTypeOK
  <1>1. CASE RowKept(n)
    BY <1>1 DEF RowKept
  <1>2. CASE RowLeased(n)
    BY <1>0, <1>2 DEF RowLeased, Leased, Rows
  <1>3. CASE RowFailed(n)
    BY <1>0, <1>3 DEF RowFailed, AfterSendFailure, Rows
  <1>4. CASE RowCompleted(n)
    BY <1>0, <1>4, WrittenRow DEF RowCompleted
  <1> QED
    BY <1>1, <1>2, <1>3, <1>4, RowChanges DEF RowChange, RowCreated, RowAged

\* A step that moves no primary message of n.
LEMMA SendKept ==
    ASSUME NEW n \in Notif, SendOK(n),
           row'[n].scheduledIn = row[n].scheduledIn,
           sendQ'[n] = sendQ[n], dedup'[n] = dedup[n],
           \A p \in Pods : n \in serving'[p] => n \in serving[p],
           \A p \in Pods : Holds(sender'[p], n) => Holds(sender[p], n),
           \A p \in Pods : n \in poll'[p].rows => n \in poll[p].rows,
           \A p \in Pods : n \in poll'[p].marked => n \in poll[p].marked
    PROVE  SendOK(n)'
  <1>1. SendOnItsWay(n)' => SendOnItsWay(n)
    BY DEF SendOnItsWay, SendAt
  <1>2. \A p \in Pods : SendAt(p, n)' => SendAt(p, n)
    BY DEF SendAt
  <1>3. SingleSend(n)'
    BY <1>2 DEF SendOK, SingleSend
  <1> QED
    BY <1>1, <1>3 DEF SendOK

LEMMA CreatedSend ==
    ASSUME TypeOK, FreshInv, 0 \notin Schedules, NEW n \in Notif, Created(n)
    PROVE  SendOK(n)'
  <1>0. /\ row \in [Notif -> Rows] /\ serving \in [Pods -> SUBSET Notif]
    BY DEF TypeOK, StoreTypeOK, PrimaryTypeOK
  <1>1. PICK p \in Pods, s \in Schedules : CreateRow(p, n, s)
    BY DEF Created
  <1>2. Quiet(n)
    BY <1>1 DEF CreateRow, FreshInv
  <1>3. ~SendOnItsWay(n) /\ Unserved(n) /\ SingleSend(n)
    BY <1>2, QuietSend DEF SendOK
  <1>4. UNCHANGED <<sendQ, sender, poll, dedup>>
    BY <1>1 DEF Created, CreateRow, scheduledVars
  <1>5. ~SendOnItsWay(n)' /\ SingleSend(n)'
    BY <1>3, <1>4 DEF SendOnItsWay, SendAt, SingleSend
  <1>6. row'[n].scheduledIn # 0
    <2>1. row'[n] = NewRow(s)
      BY <1>0, <1>1 DEF CreateRow
    <2> QED
      BY <2>1 DEF NewRow, NoRow
  <1>7. \A q \in Pods : n \in serving'[q] => q = p
    BY <1>0, <1>1, <1>3 DEF CreateRow, Unserved
  <1>8. \A q \in Pods : n \notin poll'[q].rows /\ n \notin poll'[q].marked
    BY <1>2, <1>4 DEF Quiet
  <1> QED
    BY <1>5, <1>6, <1>7, <1>8 DEF SendOK

LEMMA AnsweringSend ==
    ASSUME TypeOK, NEW n \in Notif, SendOK(n), NEW p \in Pods, Answering(p)
    PROVE  SendOK(n)'
  <1>0. /\ row \in [Notif -> Rows] /\ sendQ \in [Notif -> Nat]
        /\ serving \in [Pods -> SUBSET Notif]
    BY DEF TypeOK, StoreTypeOK, EnvTypeOK, PrimaryTypeOK
  <1>1. PICK m \in Notif : FinishRequest(p, m)
    BY DEF Answering
  <1>2. UNCHANGED <<row, sender, poll, dedup>>
    BY <1>1 DEF Answering, FinishRequest, scheduledVars
  <1>3. serving' = [serving EXCEPT ![p] = serving[p] \ {m}] /\ m \in serving[p]
    BY <1>1 DEF FinishRequest, Answer
  <1>4. \A q \in Pods : n \in serving'[q] => n \in serving[q] /\ (q = p => n # m)
    BY <1>0, <1>3
  <1>5. sendQ' \in {sendQ, Plus(sendQ, m)}
    BY <1>1 DEF FinishRequest
  <1>6. CASE sendQ'[n] = sendQ[n]
    BY <1>2, <1>4, <1>6, SendKept
  <1>7. CASE sendQ'[n] # sendQ[n]
    <2>1. n = m /\ sendQ'[n] = sendQ[n] + 1
      BY <1>0, <1>5, <1>7 DEF Plus
    <2>2. ~SendOnItsWay(n) /\ row[n].scheduledIn # 0 /\ \A q \in Pods : n \in serving[q] => q = p
      BY <1>3, <2>1 DEF SendOK
    <2>3. row[n].scheduledIn = NoTime
      BY <1>0, <1>1, <1>7, <2>1, <2>2 DEF FinishRequest, Rows, Times, NoTime
    <2>4. \A q \in Pods : n \notin serving'[q]
      BY <1>4, <2>1, <2>2
    <2>5. sendQ'[n] = 1 /\ \A q \in Pods : ~SendAt(q, n)
      BY <1>0, <2>1, <2>2 DEF SendOnItsWay
    <2>6. SingleSend(n)'
      BY <1>2, <2>5 DEF SingleSend, SendAt
    <2> QED
      BY <1>2, <2>3, <2>4, <2>6 DEF SendOK
  <1> QED
    BY <1>6, <1>7

LEMMA SendingSend ==
    ASSUME TypeOK, NEW n \in Notif, SendOK(n), NEW p \in Pods, Sending(p),
           row'[n].scheduledIn = row[n].scheduledIn
    PROVE  SendOK(n)'
  <1>0. /\ sendQ \in [Notif -> Nat] /\ sender \in [Pods -> {Idle} \union Jobs]
    BY DEF TypeOK, EnvTypeOK, PrimaryTypeOK
  <1>1. UNCHANGED <<serving, poll, dedup>>
    BY DEF Sending, SendPrimary, RecordPrimary, AckPrimary, scheduledVars
  <1>2. ASSUME NEW m \in Notif, SendPrimary(p, m)
        PROVE  SendOK(n)'
    <2>0. /\ sender[p] = Idle /\ sendQ[m] > 0 /\ sendQ' = Minus(sendQ, m)
          /\ \E outcome : sender' = [sender EXCEPT ![p] = Job(outcome, m)]
      BY <1>2 DEF SendPrimary
    <2>1. \A q \in Pods : q # p => (Holds(sender'[q], n) <=> Holds(sender[q], n))
      BY <1>0, <2>0
    <2>2. CASE m # n
      <3>1. sendQ'[n] = sendQ[n]
        BY <1>0, <2>0, <2>2 DEF Minus
      <3>2. ~Holds(sender'[p], n)
        BY <1>0, <2>0, <2>2 DEF Holds, Job
      <3> QED
        BY <1>1, <2>1, <3>1, <3>2, SendKept
    <2>3. CASE m = n
      <3>1. sendQ[n] = 1 /\ sendQ'[n] = 0 /\ SendOnItsWay(n)
        BY <1>0, <2>0, <2>3 DEF Minus, SendOK, SingleSend, SendOnItsWay
      <3>2. \A q \in Pods : ~SendAt(q, n)
        BY <3>1 DEF SendOK, SingleSend
      <3>3. /\ \A q \in Pods : Holds(sender'[q], n) => q = p
            /\ \A q \in Pods : n \notin poll'[q].marked
        BY <1>1, <2>1, <3>2 DEF SendAt
      <3>4. SingleSend(n)'
        BY <3>1, <3>3 DEF SingleSend, SendAt
      <3>5. \A q \in Pods : n \notin serving'[q]
        BY <1>1, <3>1 DEF SendOK
      <3> QED
        BY <1>1, <3>1, <3>4, <3>5 DEF SendOK
    <2> QED
      BY <2>2, <2>3
  <1>3. CASE RecordPrimary(p) \/ AckPrimary(p)
    <2>1. sendQ' = sendQ
      BY <1>3 DEF RecordPrimary, AckPrimary, envVars
    <2>2. \A q \in Pods : Holds(sender'[q], n) => Holds(sender[q], n)
      BY <1>0, <1>3 DEF RecordPrimary, AckPrimary, Holds, Job, Idle
    <2> QED
      BY <1>1, <2>1, <2>2, SendKept
  <1> QED
    BY <1>2, <1>3 DEF Sending

LEMMA PollingSend ==
    ASSUME TypeOK, NEW n \in Notif, SendOK(n), NEW p \in Pods, Polling(p)
    PROVE  SendOK(n)'
  <1>0. /\ sendQ \in [Notif -> Nat] /\ dedup \in [Notif -> Nat]
        /\ poll \in [Pods -> Polls]
    BY DEF TypeOK, EnvTypeOK, ScheduledTypeOK
  <1>1. UNCHANGED <<row, serving, sender>>
    BY DEF Polling, PollScheduled, MarkScheduled, PublishScheduled, storeVars, primaryVars
  <1>2. CASE PollScheduled(p)
    <2>1. PICK S \in LimitedTo(ScheduledBatch, ScheduledDue) :
             poll' = [poll EXCEPT ![p] = [NoPoll EXCEPT !.rows = S]]
      BY <1>2 DEF PollScheduled
    <2>2. UNCHANGED <<sendQ, dedup>>
      BY <1>2 DEF PollScheduled, envVars
    <2>3. \A q \in Pods : n \in poll'[q].marked => n \in poll[q].marked
      BY <1>0, <2>1 DEF NoPoll
    <2>4. CASE n \notin S
      <3>1. \A q \in Pods : n \in poll'[q].rows => n \in poll[q].rows
        BY <1>0, <2>1, <2>4 DEF NoPoll
      <3> QED
        BY <1>1, <2>2, <2>3, <3>1, SendKept
    <2>5. CASE n \in S
      <3>1. row[n].scheduledIn = 0
        BY <2>5 DEF LimitedTo, ScheduledDue, IsScheduledDue
      <3>2. SendOnItsWay(n)' => SendOnItsWay(n)
        BY <1>1, <2>2, <2>3 DEF SendOnItsWay, SendAt
      <3>3. SingleSend(n)'
        BY <1>1, <2>2, <2>3 DEF SendOK, SingleSend, SendAt
      <3> QED
        BY <1>1, <2>2, <3>1, <3>2, <3>3 DEF SendOK
    <2> QED
      BY <2>4, <2>5
  <1>3. ASSUME NEW m \in Notif, MarkScheduled(p, m)
        PROVE  SendOK(n)'
    <2>0. /\ poll[p].marked = {} /\ m \in poll[p].rows /\ sendQ' = sendQ
          /\ \E marked \in {{}, {m}} :
                /\ poll' = Looked(p, m, marked)
                /\ marked = {m} => dedup[m] = 0 /\ dedup' = [dedup EXCEPT ![m] = DedupTTL]
          /\ dedup' \in {dedup, [dedup EXCEPT ![m] = DedupTTL]}
          /\ dedup' # dedup => dedup[m] = 0
      BY <1>3 DEF MarkScheduled
    <2>1. \A q \in Pods : n \in poll'[q].rows => n \in poll[q].rows
      BY <1>0, <2>0 DEF Looked
    <2>2. CASE m # n
      <3>1. \A q \in Pods : n \in poll'[q].marked => n \in poll[q].marked
        BY <1>0, <2>0, <2>2 DEF Looked
      <3>2. dedup'[n] = dedup[n]
        BY <1>0, <2>0, <2>2
      <3> QED
        BY <1>1, <2>0, <2>1, <3>1, <3>2, SendKept
    <2>3. CASE m = n /\ dedup[n] # 0
      <3>1. \A q \in Pods : n \in poll'[q].marked => n \in poll[q].marked
        BY <1>0, <2>0, <2>3 DEF Looked
      <3> QED
        BY <1>1, <2>0, <2>1, <2>3, <3>1, SendKept
    <2>4. CASE m = n /\ dedup[n] = 0
      <3>1. row[n].scheduledIn = 0
        BY <2>0, <2>4 DEF SendOK
      <3>2. ~SendOnItsWay(n) /\ Unserved(n)
        BY <2>4, <3>1 DEF SendOK, NoTime, Unserved
      <3>3. dedup'[n] \in {0, DedupTTL}
        BY <1>0, <2>0, <2>4
      <3>4. \A q \in Pods : q # p => poll'[q] = poll[q]
        BY <1>0, <2>0 DEF Looked
      <3>5. /\ \A q \in Pods : SendAt(q, n)' => q = p /\ n \in poll'[p].marked
            /\ ~Holds(sender'[p], n) /\ sendQ'[n] = 0
        BY <1>0, <1>1, <2>0, <3>2, <3>4 DEF SendOnItsWay, SendAt
      <3>6. n \in poll'[p].marked => dedup'[n] = DedupTTL
        BY <1>0, <2>0, <2>4 DEF Looked
      <3>7. SingleSend(n)'
        BY <3>5 DEF SingleSend, SendAt
      <3>8. SendOnItsWay(n)' => dedup'[n] >= 1
        BY <3>5, <3>6, DedupAssumption DEF SendOnItsWay
      <3>9. \A q \in Pods : n \notin serving'[q]
        BY <1>1, <3>2 DEF Unserved
      <3> QED
        BY <1>1, <3>1, <3>7, <3>8, <3>9 DEF SendOK
    <2> QED
      BY <2>2, <2>3, <2>4
  <1>4. ASSUME NEW m \in Notif, PublishScheduled(p, m)
        PROVE  SendOK(n)'
    <2>0. /\ m \in poll[p].marked /\ sendQ' \in {sendQ, Plus(sendQ, m)} /\ dedup' = dedup
          /\ poll' = [poll EXCEPT ![p].marked = {}]
      BY <1>4 DEF PublishScheduled
    <2>1. /\ \A q \in Pods : poll'[q].rows = poll[q].rows
          /\ \A q \in Pods : n \in poll'[q].marked => n \in poll[q].marked /\ q # p
      BY <1>0, <2>0 DEF Polls
    <2>2. CASE sendQ'[n] = sendQ[n]
      BY <1>1, <2>0, <2>1, <2>2, SendKept
    <2>3. CASE sendQ'[n] # sendQ[n]
      <3>1. m = n /\ sendQ'[n] = sendQ[n] + 1
        BY <1>0, <2>0, <2>3 DEF Plus
      <3>2. SendAt(p, n) /\ SendOnItsWay(n)
        BY <2>0, <3>1 DEF SendAt, SendOnItsWay
      <3>3. sendQ[n] = 0 /\ ~Holds(sender[p], n) /\ \A q \in Pods : SendAt(q, n) => q = p
        BY <2>0, <3>1, <3>2 DEF SendOK, SingleSend
      <3>4. \A q \in Pods : ~SendAt(q, n)'
        BY <1>1, <2>1, <3>3 DEF SendAt
      <3>5. SingleSend(n)'
        BY <3>1, <3>3, <3>4 DEF SingleSend, SendAt
      <3> QED
        BY <1>1, <2>0, <2>1, <3>2, <3>5 DEF SendOK
    <2> QED
      BY <2>2, <2>3
  <1> QED
    BY <1>2, <1>3, <1>4 DEF Polling

LEMMA VanishSend ==
    ASSUME TypeOK, NEW n \in Notif, SendOK(n), NEW p \in Pods, Vanish(p)
    PROVE  SendOK(n)'
  <1>0. /\ row \in [Notif -> Rows] /\ sendQ \in [Notif -> Nat]
        /\ serving \in [Pods -> SUBSET Notif]
        /\ sender \in [Pods -> {Idle} \union Jobs] /\ poll \in [Pods -> Polls]
    BY DEF TypeOK, StoreTypeOK, EnvTypeOK, PrimaryTypeOK, ScheduledTypeOK
  <1>1. /\ UNCHANGED <<row, dedup>>
        /\ \A q \in Pods : n \in serving'[q] => n \in serving[q] /\ q # p
        /\ \A q \in Pods : Holds(sender'[q], n) => Holds(sender[q], n) /\ q # p
        /\ \A q \in Pods : n \in poll'[q].rows => n \in poll[q].rows
        /\ \A q \in Pods : n \in poll'[q].marked => n \in poll[q].marked /\ q # p
    BY <1>0 DEF Vanish, Holds, NoPoll
  <1> DEFINE bag == IF p \in stopping THEN sendQ ELSE Requeue(sendQ, sender[p])
  <1>2. PICK S \in SUBSET {m \in serving[p] : row[m].scheduledIn <= 0} :
           sendQ' = PlusEach(bag, S)
    BY DEF Vanish
  <1>3. CASE n \in S
    <2>1. /\ ~SendOnItsWay(n) /\ row[n].scheduledIn = NoTime
          /\ \A q \in Pods : n \in serving[q] => q = p
      BY <1>0, <1>3 DEF SendOK, Rows, Times, NoTime
    <2>2. sendQ[n] = 0 /\ \A q \in Pods : ~SendAt(q, n)
      BY <1>0, <2>1 DEF SendOnItsWay
    <2>3. bag[n] = 0
      BY <1>0, <2>2 DEF Requeue, SendAt
    <2>4. sendQ'[n] = 1
      BY <1>2, <1>3, <2>3 DEF PlusEach
    <2>5. \A q \in Pods : ~SendAt(q, n)' /\ n \notin serving'[q]
      BY <1>1, <2>1, <2>2 DEF SendAt
    <2>6. SingleSend(n)'
      BY <2>4, <2>5 DEF SingleSend, SendAt
    <2> QED
      BY <1>1, <2>1, <2>5, <2>6 DEF SendOK
  <1>4. CASE n \notin S /\ bag[n] = sendQ[n]
    <2>1. sendQ'[n] = sendQ[n]
      BY <1>2, <1>4 DEF PlusEach
    <2> QED
      BY <1>1, <2>1, SendKept
  <1>5. CASE n \notin S /\ bag[n] # sendQ[n]
    <2>1. Holds(sender[p], n) /\ bag[n] = sendQ[n] + 1
      BY <1>0, <1>5 DEF Requeue
    <2>2. sendQ[n] = 0 /\ SendOnItsWay(n) /\ \A q \in Pods : SendAt(q, n) => q = p
      BY <2>1 DEF SendOK, SingleSend, SendAt, SendOnItsWay
    <2>3. sendQ'[n] = 1
      BY <1>2, <1>5, <2>1, <2>2 DEF PlusEach
    <2>4. \A q \in Pods : ~SendAt(q, n)'
      BY <1>1, <2>2 DEF SendAt
    <2>5. SingleSend(n)'
      BY <2>3, <2>4 DEF SingleSend, SendAt
    <2> QED
      BY <1>1, <2>2, <2>5 DEF SendOK
  <1> QED
    BY <1>3, <1>4, <1>5

LEMMA TickSend ==
    ASSUME TypeOK, [Next]_vars, Calm', NEW n \in Notif, SendOK(n), Tick
    PROVE  SendOK(n)'
  <1>0. /\ row \in [Notif -> Rows] /\ dedup \in [Notif -> Nat]
        /\ serving \in [Pods -> SUBSET Notif] /\ poll \in [Pods -> Polls]
    BY DEF TypeOK, StoreTypeOK, EnvTypeOK, PrimaryTypeOK, ScheduledTypeOK
  <1>1. Timely
    BY CalmTick
  <1>2. /\ UNCHANGED <<sendQ, sender, serving>>
        /\ \A q \in Pods : poll'[q].rows = poll[q].rows /\ poll'[q].marked = poll[q].marked
    BY <1>0 DEF Tick, primaryVars, Polls
  <1>3. row'[n].scheduledIn = Earlier(row[n].scheduledIn) /\ dedup'[n] = Earlier(dedup[n])
    BY <1>0, AgedRow DEF Tick
  <1>4. SendOnItsWay(n)' <=> SendOnItsWay(n)
    BY <1>2 DEF SendOnItsWay, SendAt
  <1>5. SingleSend(n)'
    BY <1>2 DEF SendOK, SingleSend, SendAt
  <1>6. row[n].scheduledIn \in Times /\ dedup[n] \in Nat
    BY <1>0 DEF Rows
  <1>7. ASSUME NEW p \in Pods, n \in serving[p]
        PROVE  row'[n].scheduledIn # 0
    <2>1. row[n].scheduledIn # 0 /\ row[n].scheduledIn # 1
      BY <1>1, <1>7 DEF SendOK, Timely
    <2> QED
      BY <1>3, <1>6, <2>1 DEF Earlier, Times, NoTime
  <1>8. row[n].scheduledIn = 0 => row'[n].scheduledIn = 0
    BY <1>3 DEF Earlier
  <1>9. row'[n].scheduledIn # NoTime => row[n].scheduledIn # NoTime
    BY <1>3 DEF Earlier, NoTime
  <1>10. ASSUME SendOnItsWay(n), dedup[n] >= 1
         PROVE  dedup'[n] >= 1
    <2>1. dedup[n] # 1
      BY <1>1, <1>10 DEF Timely
    <2> QED
      BY <1>3, <1>6, <1>10, <2>1 DEF Earlier
  <1> QED
    BY <1>2, <1>4, <1>5, <1>7, <1>8, <1>9, <1>10 DEF SendOK

LEMMA SendStep ==
    ASSUME TypeOK, FreshInv, SendInv, [Next]_vars
    PROVE  SendInv'
  <1> SUFFICES ASSUME 0 \notin Schedules, Calm', NEW n \in Notif
               PROVE  SendOK(n)'
    BY DEF SendInv
  <1>a. SendOK(n) /\ \A p \in Pods : ~Stop(p)
    BY CalmBefore DEF SendInv
  <1>1. CASE Created(n)
    BY <1>1, CreatedSend
  <1>2. CASE row[n].status = "ABSENT" /\ ~Created(n)
    <2>1. Quiet(n)
      BY <1>2 DEF FreshInv
    <2>2. Quiet(n)'
      BY <1>2, <2>1, QuietStays
    <2> QED
      BY <2>2 DEF Quiet, Unserved, SendOK, SingleSend, SendOnItsWay, SendAt, NoTime
  <1>3. CASE Tick
    BY <1>3, <1>a, TickSend
  <1>4. CASE row[n].status # "ABSENT" /\ ~Tick
    <2>1. row'[n].scheduledIn = row[n].scheduledIn
      BY <1>4, ScheduleKept
    <2>2. ASSUME NEW p \in Pods, Creating(p)
          PROVE  SendOK(n)'
      <3>1. PICK m \in Notif, s \in Schedules : CreateRow(p, m, s)
        BY <2>2 DEF Creating
      <3>2. m # n
        BY <1>4, <3>1 DEF CreateRow
      <3>3. \A q \in Pods : n \in serving'[q] => n \in serving[q]
        BY <3>1, <3>2 DEF CreateRow, TypeOK, PrimaryTypeOK
      <3> QED
        BY <1>a, <2>1, <2>2, <3>1, <3>3, SendKept DEF Creating, CreateRow, scheduledVars
    <2>3. ASSUME NEW p \in Pods, Claiming(p) \/ Retrying(p)
          PROVE  SendOK(n)'
      <3>1. UNCHANGED <<sendQ, sender, serving, poll, dedup>>
        BY <2>3
        DEF Claiming, ClaimRetries, CommitClaim, AbortClaim, PublishRetry, Retrying,
            LoadRetry, SendRetry, RecordRetry, AckRetry, envVars, primaryVars, scheduledVars
      <3> QED
        BY <1>a, <2>1, <3>1, SendKept
    <2>4. CASE UNCHANGED vars
      BY <1>a, <2>1, <2>4, SendKept DEF vars, envVars, primaryVars, scheduledVars
    <2> QED
      BY <1>4, <1>a, <2>1, <2>2, <2>3, <2>4, AnsweringSend, SendingSend, PollingSend,
         VanishSend
      DEF Next, PodStep, Exit, Crash
  <1> QED
    BY <1>1, <1>2, <1>3, <1>4

LEMMA InitSend == Init => SendInv
  <1> SUFFICES ASSUME Init, NEW n \in Notif
               PROVE  SendOK(n)
    BY DEF SendInv
  <1>1. Quiet(n)
    BY InitFresh DEF FreshInv, Init, StoreInit, NoRow
  <1> QED
    BY <1>1, QuietSend

\* The dedup key and the division of labour between the request and the
\* scheduled worker keep their promise to clients who do not ask for the past:
\* whatever crashes, fails or gets lost, one primary message of a notification
\* is on its way at a time.
THEOREM SendIsSingle == Spec => []SingleSendInFlight
  <1>1. TypeOK /\ FreshInv /\ SendInv /\ [Next]_vars => SendInv'
    BY SendStep
  <1>2. SendInv => SingleSendInFlight
    BY DEF SendInv, SendOK, SingleSendInFlight, Calm
  <1>3. TypeOK /\ FreshInv /\ [Next]_vars => FreshInv'
    BY AbsentStep, RefusedStep DEF FreshInv
  <1> QED
    BY InitFresh, InitSend, <1>1, <1>2, <1>3, TypeCorrect, PTL DEF Spec

-----------------------------------------------------------------------------
(* The whole pipeline before the first fault. *)

\* A first send of n is to come, or has failed and is to be recorded; and the
\* same of a retry.
PrimaryDue(n) ==
    \/ sendQ[n] > 0
    \/ \E p \in Pods :
          n \in serving[p] \/ n \in poll[p].marked \/ At(sender[p], "failed", n)

RetryDue(n) ==
    \/ retryQ[n] > 0
    \/ \E p \in Pods : \/ RetryToPublish(p, n)
                       \/ At(retrier[p], "loaded", n) \/ At(retrier[p], "failed", n)

Fresh(n) == row[n].status = "PENDING" /\ row[n].attempts = 0 /\ sent[n] = 0
Target(n) == IsRetryTarget(row[n]) /\ sent[n] = 0

\* What is under way for a notification fits its row and its deliveries.
LifeOK(n) ==
    /\ PrimaryDue(n) => Fresh(n)
    /\ RetryDue(n) => Target(n)
    /\ \A p \in Pods : n \in poll[p].rows => Fresh(n) \/ dedup[n] >= 1
    /\ \A p \in Pods : At(sender[p], "sent", n) =>
          row[n].status = "PENDING" /\ row[n].attempts = 0 /\ sent[n] = 1
    /\ \A p \in Pods : At(retrier[p], "sent", n) =>
          IsRetryTarget(row[n]) /\ sent[n] = 1
    /\ row[n].status = "PENDING" =>
          \/ sent[n] = 0
          \/ \E p \in Pods : At(sender[p], "sent", n) \/ At(retrier[p], "sent", n)

Faultless == 0 \notin Schedules /\ struck = {}

LifeInv == Faultless => \A n \in Notif : LifeOK(n)

\* What the steps below rely on.
Supported ==
    /\ TypeOK /\ StatusMatchesAttempts /\ ClaimsAreExclusive
    /\ FreshInv /\ SendInv /\ LeaseInv

LEMMA FaultlessBefore ==
    ASSUME [Next]_vars, Faultless'
    PROVE  /\ Faultless /\ Calm /\ Calm'
           /\ \A kind : ~Fault(kind)
           /\ \A p \in Pods : ~Stop(p) /\ ~Crash(p)
  BY StruckGrows DEF Faultless, Calm, Spared, Fault, Stop, Crash

\* A step that leaves the status, the attempts and the deliveries of n.
Same(n) == /\ row'[n].status = row[n].status /\ row'[n].attempts = row[n].attempts
           /\ sent'[n] = sent[n]

LEMMA LifeKept ==
    ASSUME NEW n \in Notif, LifeOK(n), Same(n),
           PrimaryDue(n)' => PrimaryDue(n) \/ Fresh(n),
           RetryDue(n)' => RetryDue(n) \/ Target(n),
           \A p \in Pods : n \in poll'[p].rows => Fresh(n) \/ dedup'[n] >= 1,
           \A p \in Pods : At(sender'[p], "sent", n) <=> At(sender[p], "sent", n),
           \A p \in Pods : At(retrier'[p], "sent", n) <=> At(retrier[p], "sent", n)
    PROVE  LifeOK(n)'
  <1>1. Fresh(n) => Fresh(n)'
    BY DEF Fresh, Same
  <1>2. Target(n) => Target(n)'
    BY DEF Target, Same, IsRetryTarget
  <1>3. IsRetryTarget(row[n]) => IsRetryTarget(row'[n])
    BY DEF Same, IsRetryTarget
  <1>4. /\ PrimaryDue(n)' => Fresh(n)'
        /\ RetryDue(n)' => Target(n)'
    BY <1>1, <1>2 DEF LifeOK
  <1>5. \A p \in Pods : n \in poll'[p].rows => Fresh(n)' \/ dedup'[n] >= 1
    BY <1>1
  <1>6. \A p \in Pods : At(sender'[p], "sent", n) =>
            row'[n].status = "PENDING" /\ row'[n].attempts = 0 /\ sent'[n] = 1
    BY DEF LifeOK, Same
  <1>7. \A p \in Pods : At(retrier'[p], "sent", n) =>
            IsRetryTarget(row'[n]) /\ sent'[n] = 1
    BY <1>3 DEF LifeOK, Same
  <1>8. row'[n].status = "PENDING" =>
            \/ sent'[n] = 0
            \/ \E p \in Pods : At(sender'[p], "sent", n) \/ At(retrier'[p], "sent", n)
    BY DEF LifeOK, Same
  <1> QED
    BY <1>4, <1>5, <1>6, <1>7, <1>8 DEF LifeOK

-----------------------------------------------------------------------------
(* What excludes what. *)

\* Of a notification that is or has just been sent first, nothing is retried,
\* and a pass that has found it finds its key.
LEMMA FirstExcludes ==
    ASSUME Types, NEW n \in Notif, SendOK(n), RetryOK(n), LifeOK(n),
           row[n].status = "PENDING", row[n].attempts = 0
    PROVE  /\ ~RetryDue(n)
           /\ \A p \in Pods : ~At(retrier[p], "sent", n)
           /\ SendOnItsWay(n) => \A p \in Pods : n \in poll[p].rows => dedup[n] >= 1
           /\ \A p \in Pods : SendAt(p, n) =>
                 /\ sendQ[n] = 0
                 /\ \A q \in Pods : SendAt(q, n) => q = p
           /\ SendOnItsWay(n) => \A p \in Pods : n \notin serving[p]
  <1>1. ~IsRetryTarget(row[n])
    BY DEF IsRetryTarget
  <1>2. ASSUME SendOnItsWay(n), NEW p \in Pods, n \in poll[p].rows
        PROVE  dedup[n] >= 1
    <2>1. row[n].scheduledIn = 0
      BY <1>2 DEF SendOK
    <2> QED
      BY <1>2, <2>1 DEF SendOK, NoTime
  <1>3. \A p \in Pods : SendAt(p, n) =>
           sendQ[n] = 0 /\ \A q \in Pods : SendAt(q, n) => q = p
    BY DEF SendOK, SingleSend
  <1>4. SendOnItsWay(n) => \A p \in Pods : n \notin serving[p]
    BY DEF SendOK
  <1> QED
    BY <1>1, <1>2, <1>3, <1>4 DEF LifeOK, Target

\* Of a notification that is being retried, nothing is sent first.
LEMMA RetryExcludes ==
    ASSUME Types, NEW n \in Notif, SendOK(n), RetryOK(n), LifeOK(n), IsRetryTarget(row[n])
    PROVE  /\ ~PrimaryDue(n)
           /\ \A p \in Pods : ~At(sender[p], "sent", n)
           /\ \A p \in Pods : n \in poll[p].rows => dedup[n] >= 1
           /\ \A p \in Pods : RetryAt(p, n) =>
                 /\ retryQ[n] = 0
                 /\ \A q \in Pods : RetryAt(q, n) => q = p
                 /\ Holds(retrier[p], n) => \A q \in Pods : ~RetryToPublish(q, n)
  <1>1. row[n].attempts # 0
    BY DEF IsRetryTarget
  <1>2. ~Fresh(n)
    BY <1>1 DEF Fresh
  <1>3. \A p \in Pods : RetryAt(p, n) =>
           /\ retryQ[n] = 0
           /\ \A q \in Pods : RetryAt(q, n) => q = p
           /\ Holds(retrier[p], n) => \A q \in Pods : ~RetryToPublish(q, n)
    BY DEF RetryOK, SingleRetry, RetryAt
  <1> QED
    BY <1>1, <1>2, <1>3 DEF LifeOK

-----------------------------------------------------------------------------
(* The steps keep LifeOK. *)

LEMMA CreatingLife ==
    ASSUME Types, FreshInv, NEW n \in Notif, LifeOK(n),
           \A kind : ~Fault(kind), NEW p \in Pods, Creating(p)
    PROVE  LifeOK(n)'
  <1>1. PICK m \in Notif, s \in Schedules : CreateRow(p, m, s)
    BY DEF Creating
  <1>2. /\ UNCHANGED <<sendQ, retryQ, sent, sender, retrier, claim, poll, dedup>>
        /\ row' = [row EXCEPT ![m] = NewRow(s)]
        /\ serving' = [serving EXCEPT ![p] = serving[p] \union {m}]
    BY <1>1 DEF Creating, CreateRow, retryVars, scheduledVars
  <1>3. CASE m # n
    <2>1. row'[n] = row[n]
      BY <1>2, <1>3 DEF Types
    <2>2. \A q \in Pods : n \in serving'[q] => n \in serving[q]
      BY <1>2, <1>3 DEF Types
    <2>3. PrimaryDue(n)' => PrimaryDue(n)
      BY <1>2, <2>2 DEF PrimaryDue
    <2>4. RetryDue(n)' => RetryDue(n)
      BY <1>2 DEF RetryDue, RetryToPublish
    <2>5. Same(n)
      BY <1>2, <2>1 DEF Same
    <2>6. \A q \in Pods : n \in poll'[q].rows => Fresh(n) \/ dedup'[n] >= 1
      BY <1>2 DEF LifeOK
    <2> QED
      BY <1>2, <2>3, <2>4, <2>5, <2>6, LifeKept
  <1>4. CASE m = n
    <2>1. Quiet(n)
      BY <1>1, <1>4 DEF CreateRow, FreshInv
    <2>2. row'[n] = NewRow(s)
      BY <1>2, <1>4 DEF Types
    <2>3. row'[n].status = "PENDING" /\ row'[n].attempts = 0 /\ sent'[n] = 0
      BY <1>2, <2>1, <2>2 DEF NewRow, NoRow, Quiet
    <2>4. ~RetryDue(n)'
      BY <1>2, <2>1 DEF RetryDue, RetryToPublish, Quiet, At
    <2>5. \A q \in Pods : ~Holds(sender'[q], n) /\ ~Holds(retrier'[q], n)
      BY <1>2, <2>1 DEF Quiet
    <2> QED
      BY <2>3, <2>4, <2>5 DEF LifeOK, Fresh, At
  <1> QED
    BY <1>3, <1>4

LEMMA AnsweringLife ==
    ASSUME Types, NEW n \in Notif, LifeOK(n),
           \A kind : ~Fault(kind), NEW p \in Pods, Answering(p)
    PROVE  LifeOK(n)'
  <1>1. PICK m \in Notif : FinishRequest(p, m)
    BY DEF Answering
  <1>2. /\ UNCHANGED <<row, retryQ, sent, sender, retrier, claim, poll, dedup>>
        /\ m \in serving[p] /\ sendQ' \in {sendQ, Plus(sendQ, m)}
        /\ serving' = [serving EXCEPT ![p] = serving[p] \ {m}]
    BY <1>1 DEF Answering, FinishRequest, Answer, retryVars, scheduledVars
  <1>3. m # n => sendQ'[n] = sendQ[n]
    BY <1>2 DEF Types, Plus
  <1>4. \A q \in Pods : n \in serving'[q] => n \in serving[q]
    BY <1>2 DEF Types
  <1>5. PrimaryDue(n)' => PrimaryDue(n)
    BY <1>2, <1>3, <1>4 DEF PrimaryDue
  <1>6. RetryDue(n)' => RetryDue(n)
    BY <1>2 DEF RetryDue, RetryToPublish
  <1>7. Same(n)
    BY <1>2 DEF Same
  <1>8. \A q \in Pods : n \in poll'[q].rows => Fresh(n) \/ dedup'[n] >= 1
    BY <1>2 DEF LifeOK
  <1> QED
    BY <1>2, <1>5, <1>6, <1>7, <1>8, LifeKept

\* What a sender does with the message of m.
LEMMA SendPrimaryShape ==
    ASSUME Types, \A kind : ~Fault(kind), NEW p \in Pods, NEW m \in Notif, SendPrimary(p, m)
    PROVE  /\ sender[p] = Idle /\ sendQ[m] > 0 /\ sendQ' = Minus(sendQ, m)
           /\ UNCHANGED <<row, locked, retryQ, serving>>
           /\ \E pc \in {"sent", "failed"} :
                /\ sender' = [sender EXCEPT ![p] = Job(pc, m)]
                /\ pc = "sent" => sent' = Plus(sent, m)
                /\ pc = "failed" => sent' = sent
  BY DEF SendPrimary, Attempt

LEMMA SendPrimaryLife ==
    ASSUME Types, NEW n \in Notif, SendOK(n), RetryOK(n), LifeOK(n),
           \A kind : ~Fault(kind), NEW p \in Pods, NEW m \in Notif, SendPrimary(p, m),
           UNCHANGED <<retryVars, scheduledVars>>
    PROVE  LifeOK(n)'
  <1>1. /\ sender[p] = Idle /\ sendQ[m] > 0 /\ sendQ' = Minus(sendQ, m)
        /\ UNCHANGED <<row, retryQ, serving, claim, retrier, poll, dedup>>
    BY SendPrimaryShape DEF retryVars, scheduledVars
  <1>2. PICK pc \in {"sent", "failed"} :
          /\ sender' = [sender EXCEPT ![p] = Job(pc, m)]
          /\ pc = "sent" => sent' = Plus(sent, m)
          /\ pc = "failed" => sent' = sent
    BY SendPrimaryShape
  <1>3. sender'[p] = Job(pc, m) /\ \A q \in Pods : q # p => sender'[q] = sender[q]
    BY <1>2 DEF Types
  <1>4. RetryDue(n)' => RetryDue(n)
    BY <1>1 DEF RetryDue, RetryToPublish
  <1>5. CASE m # n
    <2>1. sendQ'[n] = sendQ[n] /\ Same(n)
      BY <1>1, <1>2, <1>5 DEF Types, Minus, Plus, Same
    <2>2. \A q \in Pods, x \in {"sent", "failed"} :
             At(sender'[q], x, n) <=> At(sender[q], x, n)
      BY <1>1, <1>3, <1>5, JobOf
    <2>3. PrimaryDue(n)' => PrimaryDue(n)
      BY <1>1, <2>1, <2>2 DEF PrimaryDue
    <2>4. \A q \in Pods : n \in poll'[q].rows => Fresh(n) \/ dedup'[n] >= 1
      BY <1>1 DEF LifeOK
    <2> QED
      BY <1>1, <1>4, <2>1, <2>2, <2>3, <2>4, LifeKept
  <1>6. CASE m = n
    <2>1. Fresh(n) /\ SendOnItsWay(n)
      BY <1>1, <1>6 DEF LifeOK, PrimaryDue, SendOnItsWay
    <2>2. /\ ~RetryDue(n) /\ \A q \in Pods : ~At(retrier[q], "sent", n)
          /\ \A q \in Pods : n \in poll[q].rows => dedup[n] >= 1
          /\ \A q \in Pods : n \notin serving[q]
      BY <2>1, FirstExcludes DEF Fresh
    <2>3. \A q \in Pods : ~SendAt(q, n)
      BY <1>1, <1>6 DEF SendOK, SingleSend
    <2>4. sendQ'[n] = 0
      BY <1>1, <1>6 DEF SendOK, SingleSend, Types, Minus
    <2>5. ~RetryDue(n)' /\ \A q \in Pods : ~At(retrier'[q], "sent", n)
      BY <1>1, <1>4, <2>2
    <2>6. \A q \in Pods : n \in poll'[q].rows => dedup'[n] >= 1
      BY <1>1, <2>2
    <2>7. \A q \in Pods : n \notin serving'[q] /\ n \notin poll'[q].marked
      BY <1>1, <2>2, <2>3 DEF SendAt
    <2>8. \A q \in Pods : \A x : At(sender'[q], x, n) => q = p /\ x = pc
      BY <1>3, <1>6, <2>3, JobOf DEF SendAt, At
    <2>9. row'[n].status = "PENDING" /\ row'[n].attempts = 0
      BY <1>1, <2>1 DEF Fresh
    <2>10. CASE pc = "failed"
      <3>1. sent'[n] = 0
        BY <1>2, <2>1, <2>10 DEF Fresh
      <3>2. \A q \in Pods : ~At(sender'[q], "sent", n)
        BY <2>8, <2>10
      <3> QED
        BY <2>5, <2>6, <2>9, <3>1, <3>2 DEF LifeOK, Fresh
    <2>11. CASE pc = "sent"
      <3>1. sent'[n] = 1
        BY <1>2, <1>6, <2>1, <2>11 DEF Fresh, Types, Plus
      <3>2. At(sender'[p], "sent", n)
        BY <1>3, <1>6, <2>11, JobOf
      <3>3. \A q \in Pods : ~At(sender'[q], "failed", n)
        BY <2>8, <2>11
      <3>4. ~PrimaryDue(n)'
        BY <2>4, <2>7, <3>3 DEF PrimaryDue
      <3> QED
        BY <2>5, <2>6, <2>9, <3>1, <3>2, <3>4 DEF LifeOK
    <2> QED
      BY <2>10, <2>11
  <1> QED
    BY <1>5, <1>6

LEMMA RecordPrimaryShape ==
    ASSUME Types, \A kind : ~Fault(kind), NEW p \in Pods, RecordPrimary(p)
    PROVE  /\ UNCHANGED <<sendQ, retryQ, sent, serving>>
           /\ \E m \in Notif, pc \in {"sent", "failed"} :
                /\ At(sender[p], pc, m) /\ Holds(sender[p], m)
                /\ sender' = [sender EXCEPT ![p] = Job("acking", m)]
                /\ row' = [row EXCEPT ![m] = IF pc = "sent"
                              THEN AfterFirstSuccess(row[m]) ELSE AfterSendFailure(row[m])]
  <1>1. sender[p].n \in Notif /\ sender[p] # Idle /\ sender[p].pc \in {"sent", "failed"}
    BY DEF RecordPrimary, Types, Idle, Jobs
  <1> QED
    BY <1>1 DEF RecordPrimary, At, Holds

LEMMA RecordPrimaryLife ==
    ASSUME Types, NEW n \in Notif, SendOK(n), RetryOK(n), LifeOK(n),
           \A kind : ~Fault(kind), NEW p \in Pods, RecordPrimary(p),
           UNCHANGED <<retryVars, scheduledVars>>
    PROVE  LifeOK(n)'
  <1>1. UNCHANGED <<sendQ, retryQ, sent, serving, claim, retrier, poll, dedup>>
    BY RecordPrimaryShape DEF retryVars, scheduledVars
  <1>2. PICK m \in Notif, pc \in {"sent", "failed"} :
          /\ At(sender[p], pc, m) /\ Holds(sender[p], m)
          /\ sender' = [sender EXCEPT ![p] = Job("acking", m)]
          /\ row' = [row EXCEPT ![m] = IF pc = "sent"
                        THEN AfterFirstSuccess(row[m]) ELSE AfterSendFailure(row[m])]
    BY RecordPrimaryShape
  <1>3. sender'[p] = Job("acking", m) /\ \A q \in Pods : q # p => sender'[q] = sender[q]
    BY <1>2 DEF Types
  <1>4. RetryDue(n)' => RetryDue(n)
    BY <1>1 DEF RetryDue, RetryToPublish
  <1>5. \A q \in Pods, x \in {"sent", "failed"} :
           At(sender'[q], x, n) => At(sender[q], x, n) /\ q # p
    BY <1>3, JobOf
  <1>6. CASE m # n
    <2>1. Same(n)
      BY <1>1, <1>2, <1>6 DEF Types, Same
    <2>2. \A q \in Pods, x \in {"sent", "failed"} :
             At(sender'[q], x, n) <=> At(sender[q], x, n)
      BY <1>2, <1>3, <1>6, JobOf DEF At, Holds
    <2>3. PrimaryDue(n)' => PrimaryDue(n)
      BY <1>1, <2>2 DEF PrimaryDue
    <2>4. \A q \in Pods : n \in poll'[q].rows => Fresh(n) \/ dedup'[n] >= 1
      BY <1>1 DEF LifeOK
    <2> QED
      BY <1>1, <1>4, <2>1, <2>2, <2>3, <2>4, LifeKept
  <1>7. CASE m = n
    <2>1. SendAt(p, n) /\ SendOnItsWay(n)
      BY <1>2, <1>7 DEF SendAt, SendOnItsWay
    <2>2. /\ row[n].status = "PENDING" /\ row[n].attempts = 0
          /\ pc = "failed" => sent[n] = 0
      BY <1>2, <1>7 DEF LifeOK, PrimaryDue, Fresh
    <2>3. /\ ~RetryDue(n) /\ \A q \in Pods : ~At(retrier[q], "sent", n)
          /\ \A q \in Pods : n \in poll[q].rows => dedup[n] >= 1
          /\ \A q \in Pods : n \notin serving[q]
          /\ sendQ[n] = 0 /\ \A q \in Pods : SendAt(q, n) => q = p
      BY <2>1, <2>2, FirstExcludes
    <2>4. \A q \in Pods : n \notin poll[q].marked
      BY <1>2, <1>7, <2>3 DEF SendAt, SendOK, SingleSend
    <2>5. \A q \in Pods, x \in {"sent", "failed"} : ~At(sender'[q], x, n)
      BY <1>5, <2>3 DEF SendAt, At
    <2>6. ~PrimaryDue(n)'
      BY <1>1, <2>3, <2>4, <2>5 DEF PrimaryDue
    <2>7. row'[n].status = "PENDING" => sent'[n] = 0
      <3>1. CASE pc = "sent"
        <4>1. row'[n] = AfterFirstSuccess(row[n])
          BY <1>2, <1>7, <3>1 DEF Types
        <4>2. row'[n].status = "COMPLETED"
          BY <4>1, WrittenRow DEF Types
        <4> QED
          BY <4>2
      <3>2. CASE pc = "failed"
        BY <1>1, <2>2, <3>2
      <3> QED
        BY <3>1, <3>2
    <2>8. /\ ~RetryDue(n)' /\ \A q \in Pods : ~At(retrier'[q], "sent", n)
          /\ \A q \in Pods : n \in poll'[q].rows => dedup'[n] >= 1
      BY <1>1, <1>4, <2>3
    <2> QED
      BY <2>5, <2>6, <2>7, <2>8 DEF LifeOK
  <1> QED
    BY <1>6, <1>7

LEMMA AckPrimaryLife ==
    ASSUME Types, NEW n \in Notif, LifeOK(n), NEW p \in Pods, AckPrimary(p),
           UNCHANGED <<retryVars, scheduledVars>>
    PROVE  LifeOK(n)'
  <1>1. /\ UNCHANGED <<row, sendQ, retryQ, sent, serving, claim, retrier, poll, dedup>>
        /\ sender[p].pc = "acking" /\ sender' = [sender EXCEPT ![p] = Idle]
    BY DEF AckPrimary, envVars, retryVars, scheduledVars
  <1>2. \A q \in Pods, x \in {"sent", "failed"} :
           At(sender'[q], x, n) <=> At(sender[q], x, n)
    BY <1>1, JobOf DEF Types, At
  <1>3. /\ PrimaryDue(n)' => PrimaryDue(n)
        /\ RetryDue(n)' => RetryDue(n)
        /\ Same(n)
    BY <1>1, <1>2 DEF PrimaryDue, RetryDue, RetryToPublish, Same
  <1>4. \A q \in Pods : n \in poll'[q].rows => Fresh(n) \/ dedup'[n] >= 1
    BY <1>1 DEF LifeOK
  <1> QED
    BY <1>1, <1>2, <1>3, <1>4, LifeKept

\* A step of the claims that sends nothing.
LEMMA RetryMoved ==
    ASSUME Types, NEW n \in Notif, LifeOK(n), Same(n),
           UNCHANGED <<sendQ, serving, sender, poll, dedup>>,
           RetryDue(n)' => RetryDue(n) \/ Target(n),
           \A p \in Pods : At(retrier'[p], "sent", n) <=> At(retrier[p], "sent", n)
    PROVE  LifeOK(n)'
  <1>1. PrimaryDue(n)' => PrimaryDue(n)
    BY DEF PrimaryDue
  <1>2. \A q \in Pods : n \in poll'[q].rows => Fresh(n) \/ dedup'[n] >= 1
    BY DEF LifeOK
  <1> QED
    BY <1>1, <1>2, LifeKept

LEMMA ClaimingLife ==
    ASSUME Types, TypeOK, ClaimsAreExclusive, NEW n \in Notif, SendOK(n), RetryOK(n),
           LifeOK(n), \A kind : ~Fault(kind), NEW p \in Pods, Claiming(p)
    PROVE  LifeOK(n)'
  <1>1. UNCHANGED <<sendQ, serving, sender, poll, dedup, retrier, sent>>
    BY DEF Claiming, ClaimRetries, CommitClaim, AbortClaim, PublishRetry, primaryVars,
           scheduledVars, envVars
  <1>2. \A q \in Pods : At(retrier'[q], "sent", n) <=> At(retrier[q], "sent", n)
    BY <1>1
  <1>3. CASE ClaimRetries(p)
    <2>1. \A q \in Pods : RetryToPublish(q, n)' => RetryToPublish(q, n)
      BY <1>3 DEF ClaimRetries, RetryToPublish, Types
    <2>2. RetryDue(n)' => RetryDue(n)
      BY <1>1, <1>3, <2>1 DEF RetryDue, ClaimRetries, envVars
    <2>3. Same(n)
      BY <1>1, <1>3 DEF ClaimRetries, Same
    <2> QED
      BY <1>1, <1>2, <2>2, <2>3, RetryMoved
  <1>4. CASE CommitClaim(p)
    <2>1. /\ claim[p].pc = "tx" /\ LeaseRows(claim[p].rows, claim[p].leaseIn)
          /\ retryQ' = retryQ
          /\ claim' = [claim EXCEPT ![p] =
                [pc |-> "publish", rows |-> claim[p].rows, leaseIn |-> 0]]
      BY <1>4 DEF CommitClaim, envVars
    <2>2. Same(n)
      <3>1. row'[n] \in {row[n], Leased(row[n], claim[p].leaseIn)}
        BY <2>1 DEF LeaseRows
      <3>2. \A x : /\ Leased(row[n], x).status = row[n].status
                   /\ Leased(row[n], x).attempts = row[n].attempts
        BY DEF Leased, Types, Rows
      <3> QED
        BY <1>1, <3>1, <3>2 DEF Same
    <2>3. RetryDue(n)' => RetryDue(n) \/ InTx(p, n)
      BY <1>1, <2>1 DEF RetryDue, RetryToPublish, InTx, Types
    <2>4. InTx(p, n) => Target(n)
      <3> SUFFICES ASSUME InTx(p, n) PROVE Target(n)
        OBVIOUS
      <3>1. IsRetryTarget(row[n])
        BY ClaimsRestated DEF IsRetryDue
      <3>2. \A q \in Pods : ~At(sender[q], "sent", n)
        BY <3>1, RetryExcludes
      <3>3. ~RetryOnItsWay(n)
        BY NotLeasedAgain DEF RetryOK
      <3>4. \A q \in Pods : ~At(retrier[q], "sent", n)
        BY <3>3 DEF RetryOnItsWay, RetryAt, At
      <3>5. row[n].status = "PENDING"
        BY <3>1 DEF IsRetryTarget
      <3> QED
        BY <3>1, <3>2, <3>4, <3>5 DEF LifeOK, Target
    <2> QED
      BY <1>1, <1>2, <2>2, <2>3, <2>4, RetryMoved
  <1>5. ASSUME NEW m \in Notif, PublishRetry(p, m)
        PROVE  LifeOK(n)'
    <2>1. /\ claim[p].pc = "publish" /\ m \in claim[p].rows
          /\ claim' = [claim EXCEPT ![p] = Without(claim[p], m)]
          /\ retryQ' \in {retryQ, Plus(retryQ, m)} /\ row' = row
      BY <1>5 DEF PublishRetry, storeVars
    <2>2. \A q \in Pods : RetryToPublish(q, n)' => RetryToPublish(q, n)
      BY <2>1 DEF RetryToPublish, Without, NoClaim, Types, Claims
    <2>3. retryQ'[n] > 0 => retryQ[n] > 0 \/ RetryToPublish(p, n)
      BY <2>1 DEF RetryToPublish, Types, Plus
    <2>4. RetryDue(n)' => RetryDue(n)
      BY <1>1, <2>2, <2>3 DEF RetryDue
    <2>5. Same(n)
      BY <1>1, <2>1 DEF Same
    <2> QED
      BY <1>1, <1>2, <2>4, <2>5, RetryMoved
  <1> QED
    BY <1>3, <1>4, <1>5 DEF Claiming, AbortClaim

LEMMA LoadRetryLife ==
    ASSUME Types, NEW n \in Notif, LifeOK(n), \A kind : ~Fault(kind),
           NEW p \in Pods, NEW m \in Notif, LoadRetry(p, m),
           UNCHANGED <<primaryVars, scheduledVars>>
    PROVE  LifeOK(n)'
  <1>1. UNCHANGED <<row, sendQ, sent, serving, sender, poll, dedup, claim>>
    BY DEF LoadRetry, storeVars, primaryVars, scheduledVars
  <1>2. /\ retrier[p] = Idle /\ retryQ[m] > 0 /\ retryQ' = Minus(retryQ, m)
        /\ \E pc \in {"loaded", "acking"} : retrier' = [retrier EXCEPT ![p] = Job(pc, m)]
    BY DEF LoadRetry
  <1>3. PICK pc \in {"loaded", "acking"} : retrier' = [retrier EXCEPT ![p] = Job(pc, m)]
    BY <1>2
  <1>4. retrier'[p] = Job(pc, m) /\ \A q \in Pods : q # p => retrier'[q] = retrier[q]
    BY <1>3 DEF Types
  <1>5. \A q \in Pods : At(retrier'[q], "sent", n) <=> At(retrier[q], "sent", n)
    BY <1>2, <1>4, JobOf
  <1>6. retryQ'[n] > 0 => retryQ[n] > 0
    BY <1>2 DEF Types, Minus
  <1>7. ASSUME NEW q \in Pods, NEW x \in {"loaded", "failed"}, At(retrier'[q], x, n)
        PROVE  RetryDue(n)
    <2>1. CASE q = p
      <3>1. m = n
        BY <1>4, <1>7, <2>1, JobOf
      <3> QED
        BY <1>2, <3>1 DEF RetryDue
    <2>2. CASE q # p
      BY <1>4, <1>7, <2>2 DEF RetryDue
    <2> QED
      BY <2>1, <2>2
  <1>8. RetryDue(n)' => RetryDue(n)
    BY <1>1, <1>6, <1>7 DEF RetryDue, RetryToPublish
  <1>9. Same(n)
    BY <1>1 DEF Same
  <1> QED
    BY <1>1, <1>5, <1>8, <1>9, RetryMoved

LEMMA SendRetryShape ==
    ASSUME Types, \A kind : ~Fault(kind), NEW p \in Pods, SendRetry(p)
    PROVE  /\ UNCHANGED <<row, sendQ, retryQ, claim>>
           /\ \E m \in Notif, pc \in {"sent", "failed"} :
                /\ At(retrier[p], "loaded", m)
                /\ retrier' = [retrier EXCEPT ![p] = Job(pc, m)]
                /\ pc = "sent" => sent' = Plus(sent, m)
                /\ pc = "failed" => sent' = sent
  <1>1. retrier[p] \in Jobs /\ retrier[p] # Idle /\ retrier[p].pc = "loaded"
    BY DEF SendRetry, Types, Idle, Jobs
  <1>2. PICK pc \in {"sent", "failed"} : /\ Attempt(retrier[p].n, pc)
                                        /\ retrier' = [retrier EXCEPT ![p].pc = pc]
    BY DEF SendRetry
  <1>3. retrier[p].n \in Notif /\ [retrier[p] EXCEPT !.pc = pc] = Job(pc, retrier[p].n)
    BY <1>1 DEF Jobs, Job
  <1>4. retrier' = [retrier EXCEPT ![p] = Job(pc, retrier[p].n)]
    BY <1>2, <1>3
  <1>5. (pc = "sent" => sent' = Plus(sent, retrier[p].n)) /\ (pc = "failed" => sent' = sent)
    BY <1>2 DEF Attempt
  <1>6. UNCHANGED <<row, sendQ, retryQ, claim>>
    BY DEF SendRetry, storeVars
  <1> QED
    BY <1>1, <1>3, <1>4, <1>5, <1>6 DEF At, Holds

LEMMA SendRetryLife ==
    ASSUME Types, NEW n \in Notif, SendOK(n), RetryOK(n), LifeOK(n),
           \A kind : ~Fault(kind), NEW p \in Pods, SendRetry(p),
           UNCHANGED <<primaryVars, scheduledVars>>
    PROVE  LifeOK(n)'
  <1>1. UNCHANGED <<row, sendQ, retryQ, claim, serving, sender, poll, dedup>>
    BY SendRetryShape DEF primaryVars, scheduledVars
  <1>2. PICK m \in Notif, pc \in {"sent", "failed"} :
          /\ At(retrier[p], "loaded", m)
          /\ retrier' = [retrier EXCEPT ![p] = Job(pc, m)]
          /\ pc = "sent" => sent' = Plus(sent, m)
          /\ pc = "failed" => sent' = sent
    BY SendRetryShape
  <1>3. retrier'[p] = Job(pc, m) /\ \A q \in Pods : q # p => retrier'[q] = retrier[q]
    BY <1>2 DEF Types
  <1>4. CASE m # n
    <2>1. Same(n)
      BY <1>1, <1>2, <1>4 DEF Types, Plus, Same
    <2>2. \A q \in Pods : \A x : At(retrier'[q], x, n) => At(retrier[q], x, n)
      BY <1>3, <1>4, JobOf
    <2>3. \A q \in Pods : At(retrier'[q], "sent", n) <=> At(retrier[q], "sent", n)
      BY <1>2, <1>3, <1>4, JobOf DEF At
    <2>4. RetryDue(n)' => RetryDue(n)
      BY <1>1, <2>2 DEF RetryDue, RetryToPublish
    <2> QED
      BY <1>1, <2>1, <2>3, <2>4, RetryMoved
  <1>5. CASE m = n
    <2>1. RetryDue(n) /\ Target(n) /\ RetryAt(p, n) /\ Holds(retrier[p], n)
      BY <1>2, <1>5 DEF LifeOK, RetryDue, RetryAt, At
    <2>2. /\ ~PrimaryDue(n) /\ \A q \in Pods : ~At(sender[q], "sent", n)
          /\ \A q \in Pods : n \in poll[q].rows => dedup[n] >= 1
          /\ retryQ[n] = 0 /\ \A q \in Pods : RetryAt(q, n) => q = p
          /\ \A q \in Pods : ~RetryToPublish(q, n)
      BY <2>1, RetryExcludes DEF Target
    <2>3. CASE pc = "failed"
      <3>1. Same(n)
        BY <1>1, <1>2, <2>3 DEF Same
      <3>2. \A q \in Pods : At(retrier'[q], "sent", n) <=> At(retrier[q], "sent", n)
        BY <1>2, <1>3, <2>3, JobOf DEF At
      <3> QED
        BY <1>1, <2>1, <3>1, <3>2, RetryMoved
    <2>4. CASE pc = "sent"
      <3>1. sent'[n] = 1
        BY <1>2, <1>5, <2>1, <2>4 DEF Target, Types, Plus
      <3>2. At(retrier'[p], "sent", n)
        BY <1>3, <1>5, <2>4, JobOf
      <3>3. \A q \in Pods, x \in {"loaded", "failed"} : ~At(retrier'[q], x, n)
        BY <1>3, <1>5, <2>2, <2>4, JobOf DEF RetryAt, At
      <3>4. ~RetryDue(n)'
        BY <1>1, <2>2, <3>3 DEF RetryDue, RetryToPublish
      <3>5. ~PrimaryDue(n)' /\ IsRetryTarget(row'[n])
        BY <1>1, <2>1, <2>2 DEF PrimaryDue, Target
      <3>6. /\ \A q \in Pods : ~At(sender'[q], "sent", n)
            /\ \A q \in Pods : n \in poll'[q].rows => dedup'[n] >= 1
        BY <1>1, <2>2
      <3> QED
        BY <3>1, <3>2, <3>4, <3>5, <3>6 DEF LifeOK
    <2> QED
      BY <2>3, <2>4
  <1> QED
    BY <1>4, <1>5

LEMMA RecordRetryShape ==
    ASSUME Types, \A kind : ~Fault(kind), NEW p \in Pods, RecordRetry(p)
    PROVE  /\ UNCHANGED <<sendQ, retryQ, sent, claim>>
           /\ \E m \in Notif, pc \in {"sent", "failed"} :
                /\ At(retrier[p], pc, m) /\ Holds(retrier[p], m)
                /\ retrier' = [retrier EXCEPT ![p] = Job("acking", m)]
                /\ row' = [row EXCEPT ![m] = IF pc = "sent"
                              THEN AfterRetrySuccess(row[m]) ELSE AfterSendFailure(row[m])]
  <1>1. /\ retrier[p] \in Jobs /\ retrier[p] # Idle
        /\ retrier[p].pc \in {"sent", "failed"}
    BY DEF RecordRetry, Types, Idle, Jobs
  <1>2. /\ retrier[p].n \in Notif
        /\ [retrier[p] EXCEPT !.pc = "acking"] = Job("acking", retrier[p].n)
    BY <1>1 DEF Jobs, Job
  <1>3. retrier' = [retrier EXCEPT ![p] = Job("acking", retrier[p].n)]
    BY <1>2 DEF RecordRetry
  <1>4. /\ UNCHANGED <<sendQ, retryQ, sent, claim>>
        /\ row' = [row EXCEPT ![retrier[p].n] = IF retrier[p].pc = "sent"
                      THEN AfterRetrySuccess(row[retrier[p].n])
                      ELSE AfterSendFailure(row[retrier[p].n])]
    BY DEF RecordRetry
  <1> QED
    BY <1>1, <1>2, <1>3, <1>4 DEF At, Holds

LEMMA RecordRetryLife ==
    ASSUME Types, NEW n \in Notif, SendOK(n), RetryOK(n), LifeOK(n),
           \A kind : ~Fault(kind), NEW p \in Pods, RecordRetry(p),
           UNCHANGED <<primaryVars, scheduledVars>>
    PROVE  LifeOK(n)'
  <1>1. UNCHANGED <<sendQ, retryQ, sent, claim, serving, sender, poll, dedup>>
    BY RecordRetryShape DEF primaryVars, scheduledVars
  <1>2. PICK m \in Notif, pc \in {"sent", "failed"} :
          /\ At(retrier[p], pc, m) /\ Holds(retrier[p], m)
          /\ retrier' = [retrier EXCEPT ![p] = Job("acking", m)]
          /\ row' = [row EXCEPT ![m] = IF pc = "sent"
                        THEN AfterRetrySuccess(row[m]) ELSE AfterSendFailure(row[m])]
    BY RecordRetryShape
  <1>3. retrier'[p] = Job("acking", m) /\ \A q \in Pods : q # p => retrier'[q] = retrier[q]
    BY <1>2 DEF Types
  <1>4. \A q \in Pods, x \in {"loaded", "sent", "failed"} :
           At(retrier'[q], x, n) => At(retrier[q], x, n) /\ q # p
    BY <1>3, JobOf
  <1>5. CASE m # n
    <2>1. Same(n)
      BY <1>1, <1>2, <1>5 DEF Types, Same
    <2>2. \A q \in Pods : At(retrier'[q], "sent", n) <=> At(retrier[q], "sent", n)
      BY <1>2, <1>3, <1>5, JobOf DEF At, Holds
    <2>3. RetryDue(n)' => RetryDue(n)
      BY <1>1, <1>4 DEF RetryDue, RetryToPublish
    <2> QED
      BY <1>1, <2>1, <2>2, <2>3, RetryMoved
  <1>6. CASE m = n
    <2>1. /\ IsRetryTarget(row[n]) /\ RetryAt(p, n) /\ Holds(retrier[p], n)
          /\ pc = "failed" => sent[n] = 0
      BY <1>2, <1>6 DEF LifeOK, RetryDue, Target, RetryAt
    <2>2. /\ ~PrimaryDue(n) /\ \A q \in Pods : ~At(sender[q], "sent", n)
          /\ \A q \in Pods : n \in poll[q].rows => dedup[n] >= 1
          /\ retryQ[n] = 0 /\ \A q \in Pods : RetryAt(q, n) => q = p
          /\ \A q \in Pods : ~RetryToPublish(q, n)
      BY <2>1, RetryExcludes
    <2>3. \A q \in Pods, x \in {"loaded", "sent", "failed"} : ~At(retrier'[q], x, n)
      BY <1>4, <2>2 DEF RetryAt, At
    <2>4. ~RetryDue(n)' /\ ~PrimaryDue(n)'
      BY <1>1, <2>2, <2>3 DEF RetryDue, RetryToPublish, PrimaryDue
    <2>5. row'[n].status = "PENDING" => sent'[n] = 0
      <3>1. CASE pc = "sent"
        <4>1. row'[n] = AfterRetrySuccess(row[n])
          BY <1>2, <1>6, <3>1 DEF Types
        <4>2. row'[n].status = "COMPLETED"
          BY <4>1, WrittenRow DEF Types
        <4> QED
          BY <4>2
      <3>2. CASE pc = "failed"
        BY <1>1, <2>1, <3>2
      <3> QED
        BY <3>1, <3>2
    <2>6. /\ \A q \in Pods : ~At(sender'[q], "sent", n)
          /\ \A q \in Pods : n \in poll'[q].rows => dedup'[n] >= 1
      BY <1>1, <2>2
    <2> QED
      BY <2>3, <2>4, <2>5, <2>6 DEF LifeOK
  <1> QED
    BY <1>5, <1>6

LEMMA AckRetryLife ==
    ASSUME Types, NEW n \in Notif, LifeOK(n), NEW p \in Pods, AckRetry(p),
           UNCHANGED <<primaryVars, scheduledVars>>
    PROVE  LifeOK(n)'
  <1>1. /\ UNCHANGED <<row, sendQ, retryQ, sent, claim, serving, sender, poll, dedup>>
        /\ retrier[p].pc = "acking" /\ retrier' = [retrier EXCEPT ![p] = Idle]
    BY DEF AckRetry, storeVars, envVars, primaryVars, scheduledVars
  <1>2. \A q \in Pods, x \in {"loaded", "sent", "failed"} :
           At(retrier'[q], x, n) <=> At(retrier[q], x, n)
    BY <1>1, JobOf DEF Types, At
  <1>3. RetryDue(n)' => RetryDue(n)
    BY <1>1, <1>2 DEF RetryDue, RetryToPublish
  <1>4. Same(n)
    BY <1>1 DEF Same
  <1> QED
    BY <1>1, <1>2, <1>3, <1>4, RetryMoved

LEMMA PollingLife ==
    ASSUME Types, NEW n \in Notif, SendOK(n), RetryOK(n), LifeOK(n),
           \A kind : ~Fault(kind), NEW p \in Pods, Polling(p)
    PROVE  LifeOK(n)'
  <1>1. UNCHANGED <<row, sent, serving, sender, retryQ, claim, retrier>>
    BY DEF Polling, PollScheduled, MarkScheduled, PublishScheduled, storeVars, envVars,
           primaryVars, retryVars
  <1>2. Same(n) /\ (RetryDue(n)' => RetryDue(n))
    BY <1>1 DEF Same, RetryDue, RetryToPublish
  <1>3. CASE PollScheduled(p)
    <2>1. PICK S \in LimitedTo(ScheduledBatch, ScheduledDue) :
             poll' = [poll EXCEPT ![p] = [NoPoll EXCEPT !.rows = S]]
      BY <1>3 DEF PollScheduled
    <2>2. UNCHANGED <<sendQ, dedup>>
      BY <1>3 DEF PollScheduled, envVars
    <2>3. \A q \in Pods : /\ n \in poll'[q].marked => n \in poll[q].marked
                          /\ n \in poll'[q].rows => n \in poll[q].rows \/ n \in S
      BY <2>1 DEF Types, NoPoll
    <2>4. PrimaryDue(n)' => PrimaryDue(n)
      BY <1>1, <2>2, <2>3 DEF PrimaryDue
    <2>5. ASSUME n \in S PROVE Fresh(n) \/ dedup[n] >= 1
      <3>1. IsScheduledDue(row[n])
        BY <2>5 DEF LimitedTo, ScheduledDue
      <3>2. /\ row[n].status = "PENDING" /\ row[n].attempts = 0
            /\ row[n].scheduledIn = 0
        BY <3>1 DEF IsScheduledDue
      <3>3. CASE sent[n] = 0
        BY <3>2, <3>3 DEF Fresh
      <3>4. CASE sent[n] # 0
        <4>1. \A q \in Pods : ~At(retrier[q], "sent", n)
          BY <3>2, FirstExcludes
        <4>2. SendOnItsWay(n)
          BY <3>2, <3>4, <4>1 DEF LifeOK, SendOnItsWay, SendAt, At
        <4> QED
          BY <3>2, <4>2 DEF SendOK, NoTime
      <3> QED
        BY <3>3, <3>4
    <2>6. \A q \in Pods : n \in poll'[q].rows => Fresh(n) \/ dedup'[n] >= 1
      BY <2>2, <2>3, <2>5 DEF LifeOK
    <2> QED
      BY <1>1, <1>2, <2>4, <2>6, LifeKept
  <1>4. ASSUME NEW m \in Notif, MarkScheduled(p, m)
        PROVE  LifeOK(n)'
    <2>1. /\ m \in poll[p].rows /\ sendQ' = sendQ
          /\ \/ dedup[m] = 0 /\ dedup' = [dedup EXCEPT ![m] = DedupTTL]
                /\ poll' = Looked(p, m, {m})
             \/ dedup' = dedup /\ poll' = Looked(p, m, {})
      BY <1>4 DEF MarkScheduled
    <2>2. \A q \in Pods : n \in poll'[q].rows => n \in poll[q].rows
      BY <2>1 DEF Looked, Types
    <2>3. \A q \in Pods : n \in poll'[q].marked =>
             n \in poll[q].marked \/ (m = n /\ dedup[n] = 0)
      BY <2>1 DEF Looked, Types
    <2>4. m = n /\ dedup[n] = 0 => Fresh(n)
      BY <2>1 DEF LifeOK
    <2>5. dedup[n] >= 1 => dedup'[n] >= 1
      BY <2>1, DedupAssumption DEF Types
    <2>6. PrimaryDue(n)' => PrimaryDue(n) \/ Fresh(n)
      BY <1>1, <2>1, <2>3, <2>4 DEF PrimaryDue
    <2>7. \A q \in Pods : n \in poll'[q].rows => Fresh(n) \/ dedup'[n] >= 1
      BY <2>2, <2>5 DEF LifeOK
    <2> QED
      BY <1>1, <1>2, <2>6, <2>7, LifeKept
  <1>5. ASSUME NEW m \in Notif, PublishScheduled(p, m)
        PROVE  LifeOK(n)'
    <2>1. /\ m \in poll[p].marked /\ sendQ' \in {sendQ, Plus(sendQ, m)}
          /\ dedup' = dedup /\ poll' = [poll EXCEPT ![p].marked = {}]
      BY <1>5 DEF PublishScheduled
    <2>2. \A q \in Pods : /\ poll'[q].rows = poll[q].rows
                          /\ n \in poll'[q].marked => n \in poll[q].marked
      BY <2>1 DEF Types, Polls
    <2>3. sendQ'[n] > 0 => sendQ[n] > 0 \/ m = n
      BY <2>1 DEF Types, Plus
    <2>4. PrimaryDue(n)' => PrimaryDue(n)
      BY <1>1, <2>1, <2>2, <2>3 DEF PrimaryDue
    <2>5. \A q \in Pods : n \in poll'[q].rows => Fresh(n) \/ dedup'[n] >= 1
      BY <2>1, <2>2 DEF LifeOK
    <2> QED
      BY <1>1, <1>2, <2>4, <2>5, LifeKept
  <1> QED
    BY <1>3, <1>4, <1>5 DEF Polling

LEMMA TickLife ==
    ASSUME Types, NEW n \in Notif, LifeOK(n), Timely, Tick
    PROVE  LifeOK(n)'
  <1>1. UNCHANGED <<sent, sendQ, retryQ, serving, sender, retrier>>
    BY DEF Tick, primaryVars
  <1>2. row'[n] = AgeRow(row[n]) /\ row[n] \in Rows
    BY DEF Tick, Types
  <1>3. Same(n)
    BY <1>1, <1>2, AgedRow DEF Same
  <1>4. \A q \in Pods : /\ poll'[q].rows = poll[q].rows
                        /\ poll'[q].marked = poll[q].marked
                        /\ claim'[q].pc = claim[q].pc /\ claim'[q].rows = claim[q].rows
    BY DEF Tick, Types, Polls, Claims
  <1>5. /\ PrimaryDue(n)' => PrimaryDue(n)
        /\ RetryDue(n)' => RetryDue(n)
    BY <1>1, <1>4 DEF PrimaryDue, RetryDue, RetryToPublish
  <1>6. ASSUME NEW q \in Pods, n \in poll'[q].rows
        PROVE  Fresh(n) \/ dedup'[n] >= 1
    <2>1. n \in poll[q].rows /\ dedup[n] # 1
      BY <1>4, <1>6 DEF Timely
    <2>2. Fresh(n) \/ dedup[n] >= 1
      BY <2>1 DEF LifeOK
    <2>3. dedup'[n] = Earlier(dedup[n]) /\ dedup[n] \in Nat
      BY DEF Tick, Types
    <2> QED
      BY <2>1, <2>2, <2>3 DEF Earlier
  <1> QED
    BY <1>1, <1>3, <1>5, <1>6, LifeKept

\* A step that only moves what the account does not mention.
LEMMA IdleLife ==
    ASSUME NEW n \in Notif, LifeOK(n),
           UNCHANGED <<storeVars, envVars, primaryVars, retryVars, scheduledVars>>
    PROVE  LifeOK(n)'
  <1>1. /\ UNCHANGED <<row, sent, sendQ, retryQ, serving, sender, claim, retrier>>
        /\ UNCHANGED <<dedup, poll>>
    BY DEF storeVars, envVars, primaryVars, retryVars, scheduledVars
  <1>2. /\ PrimaryDue(n)' => PrimaryDue(n)
        /\ RetryDue(n)' => RetryDue(n)
        /\ Same(n)
    BY <1>1 DEF PrimaryDue, RetryDue, RetryToPublish, Same
  <1>3. \A q \in Pods : n \in poll'[q].rows => Fresh(n) \/ dedup'[n] >= 1
    BY <1>1 DEF LifeOK
  <1> QED
    BY <1>1, <1>2, <1>3, LifeKept

\* What a pod that exits was doing can only be forgotten or published.
LEMMA ExitLife ==
    ASSUME Types, NEW n \in Notif, LifeOK(n), NEW p \in Pods, Exit(p)
    PROVE  LifeOK(n)'
  <1>1. /\ UNCHANGED <<row, sent, dedup>>
        /\ sender[p] = Idle /\ retrier[p] = Idle
        /\ retryQ' = retryQ /\ sender' = [sender EXCEPT ![p] = Idle]
        /\ retrier' = [retrier EXCEPT ![p] = Idle]
        /\ serving' = [serving EXCEPT ![p] = {}]
        /\ claim' = [claim EXCEPT ![p] = NoClaim] /\ poll' = [poll EXCEPT ![p] = NoPoll]
    BY DEF Exit, Vanish
  <1>2. sender' = sender /\ retrier' = retrier
    BY <1>1 DEF Types
  <1>3. sendQ'[n] > 0 => sendQ[n] > 0 \/ n \in serving[p]
    BY DEF Exit, Vanish, PlusEach
  <1>4. \A q \in Pods : /\ n \in serving'[q] => n \in serving[q]
                        /\ n \in poll'[q].marked => n \in poll[q].marked
                        /\ n \in poll'[q].rows => n \in poll[q].rows
                        /\ RetryToPublish(q, n)' => RetryToPublish(q, n)
    BY <1>1 DEF Types, NoPoll, NoClaim, RetryToPublish
  <1>5. PrimaryDue(n)' => PrimaryDue(n)
    BY <1>2, <1>3, <1>4 DEF PrimaryDue
  <1>6. RetryDue(n)' => RetryDue(n)
    BY <1>1, <1>2, <1>4 DEF RetryDue
  <1>7. \A q \in Pods : n \in poll'[q].rows => Fresh(n) \/ dedup'[n] >= 1
    BY <1>1, <1>4 DEF LifeOK
  <1>8. Same(n)
    BY <1>1 DEF Same
  <1> QED
    BY <1>2, <1>5, <1>6, <1>7, <1>8, LifeKept

LEMMA LifeStep == Supported /\ LifeInv /\ [Next]_vars => LifeInv'
  <1> SUFFICES ASSUME Supported, LifeInv, [Next]_vars, Faultless', NEW n \in Notif
               PROVE  LifeOK(n)'
    BY DEF LifeInv
  <1>1. /\ Faultless /\ Calm /\ Calm' /\ \A kind : ~Fault(kind)
        /\ \A p \in Pods : ~Stop(p) /\ ~Crash(p)
    BY FaultlessBefore
  <1>2. /\ Types /\ TypeOK /\ ClaimsAreExclusive /\ FreshInv
        /\ SendOK(n) /\ RetryOK(n) /\ LifeOK(n)
    BY <1>1, TypesOf DEF Supported, SendInv, LeaseInv, LifeInv, Faultless
  <1>3. CASE Tick
    BY <1>1, <1>2, <1>3, CalmTick, TickLife
  <1>4. ASSUME NEW p \in Pods, Creating(p) \/ Answering(p) \/ Claiming(p) \/ Polling(p)
        PROVE  LifeOK(n)'
    BY <1>1, <1>2, <1>4, CreatingLife, AnsweringLife, ClaimingLife, PollingLife
  <1>5. ASSUME NEW p \in Pods, Sending(p)
        PROVE  LifeOK(n)'
    BY <1>1, <1>2, <1>5, SendPrimaryLife, RecordPrimaryLife, AckPrimaryLife DEF Sending
  <1>6. ASSUME NEW p \in Pods, Retrying(p)
        PROVE  LifeOK(n)'
    BY <1>1, <1>2, <1>6, LoadRetryLife, SendRetryLife, RecordRetryLife, AckRetryLife
    DEF Retrying
  <1>7. ASSUME NEW p \in Pods, Exit(p)
        PROVE  LifeOK(n)'
    BY <1>2, <1>7, ExitLife
  <1>8. CASE UNCHANGED vars
    BY <1>2, <1>8, IdleLife DEF vars
  <1> QED
    BY <1>1, <1>3, <1>4, <1>5, <1>6, <1>7, <1>8 DEF Next, PodStep

-----------------------------------------------------------------------------
(* What a step does to one notification. *)

Asked(n) ==
    /\ row[n].status = "ABSENT" /\ row'[n].status = "PENDING"
    /\ row'[n].attempts = row[n].attempts /\ sent'[n] = sent[n]

Delivered(n) ==
    /\ row[n].status = "PENDING" /\ row'[n].status = "PENDING"
    /\ row'[n].attempts = row[n].attempts /\ sent[n] = 0 /\ sent'[n] = 1

Succeeded(n) ==
    /\ row[n].status = "PENDING" /\ row'[n].status = "COMPLETED"
    /\ row'[n].attempts = IF row[n].attempts = 0 THEN 1 ELSE row[n].attempts
    /\ sent[n] = 1 /\ sent'[n] = 1

Missed(n) ==
    /\ row[n].status = "PENDING"
    /\ row'[n].status = IF row[n].attempts + 1 = MaxAttempts THEN "FAILED" ELSE "PENDING"
    /\ row'[n].attempts = row[n].attempts + 1
    /\ sent[n] = 0 /\ sent'[n] = 0

Moves(n) == Asked(n) \/ Delivered(n) \/ Succeeded(n) \/ Missed(n)

\* The one notification a step moves, if it moves one.
OneMoves ==
    \/ \A n \in Notif : Same(n)
    \/ \E m \in Notif : Moves(m) /\ \A n \in Notif \ {m} : Same(n)

LEMMA NothingMoves ==
    ASSUME sent' = sent,
           \/ row' = row
           \/ Types /\ Tick
           \/ Types /\ \E S, lease : LeaseRows(S, lease)
    PROVE  OneMoves
  <1> SUFFICES ASSUME NEW n \in Notif PROVE Same(n)
    BY DEF OneMoves
  <1>1. CASE row' = row
    BY <1>1 DEF Same
  <1>2. CASE Types /\ Tick
    <2>1. row'[n] = AgeRow(row[n]) /\ row[n] \in Rows
      BY <1>2 DEF Tick, Types
    <2> QED
      BY <2>1, AgedRow DEF Same
  <1>3. ASSUME Types, NEW S, NEW lease, LeaseRows(S, lease)
        PROVE  Same(n)
    <2>1. row'[n] \in {row[n], Leased(row[n], lease)} /\ row[n] \in Rows
      BY <1>3 DEF LeaseRows, Types
    <2>2. /\ Leased(row[n], lease).status = row[n].status
          /\ Leased(row[n], lease).attempts = row[n].attempts
      BY <2>1 DEF Leased, Rows
    <2> QED
      BY <2>1, <2>2 DEF Same
  <1> QED
    BY <1>1, <1>2, <1>3

LEMMA DeliveryMoves ==
    ASSUME Types, NEW m \in Notif, row' = row, sent' = Plus(sent, m),
           row[m].status = "PENDING", sent[m] = 0
    PROVE  OneMoves
  <1>1. sent'[m] = 1 /\ \A n \in Notif \ {m} : sent'[n] = sent[n]
    BY DEF Types, Plus
  <1>2. Delivered(m) /\ \A n \in Notif \ {m} : Same(n)
    BY <1>1 DEF Delivered, Same
  <1> QED
    BY <1>2 DEF OneMoves, Moves

LEMMA SuccessMoves ==
    ASSUME Types, NEW m \in Notif, NEW r, row' = [row EXCEPT ![m] = r], sent' = sent,
           row[m].status = "PENDING", sent[m] = 1, r.status = "COMPLETED",
           r.attempts = IF row[m].attempts = 0 THEN 1 ELSE row[m].attempts
    PROVE  OneMoves
  <1>1. row'[m] = r /\ \A n \in Notif \ {m} : row'[n] = row[n]
    BY DEF Types
  <1>2. Succeeded(m) /\ \A n \in Notif \ {m} : Same(n)
    BY <1>1 DEF Succeeded, Same
  <1> QED
    BY <1>2 DEF OneMoves, Moves

LEMMA FailureMoves ==
    ASSUME Types, StatusMatchesAttempts, NEW m \in Notif,
           row' = [row EXCEPT ![m] = AfterSendFailure(row[m])], sent' = sent,
           row[m].status = "PENDING", sent[m] = 0
    PROVE  OneMoves
  <1>1. /\ row'[m] = AfterSendFailure(row[m]) /\ row[m] \in Rows
        /\ \A n \in Notif \ {m} : row'[n] = row[n]
    BY DEF Types
  <1>2. row[m].attempts < MaxAttempts /\ row[m].attempts \in Nat
    BY <1>1 DEF StatusMatchesAttempts, Rows
  <1>3. row'[m].attempts = row[m].attempts + 1
    BY <1>1, FailedRow
  <1>4. row'[m].status = IF row[m].attempts + 1 = MaxAttempts THEN "FAILED" ELSE "PENDING"
    <2>1. CASE row[m].attempts + 1 >= MaxAttempts
      <3>1. row'[m] = [row[m] EXCEPT !.attempts = row[m].attempts + 1,
                                     !.status = "FAILED"]
        BY <1>1, <2>1 DEF AfterSendFailure
      <3>2. row'[m].status = "FAILED"
        BY <1>1, <3>1 DEF Rows
      <3> QED
        BY <1>2, <2>1, <3>2, AttemptsAssumption
    <2>2. CASE ~(row[m].attempts + 1 >= MaxAttempts)
      <3>1. row'[m].status = "PENDING"
        BY <1>1, <2>2 DEF AfterSendFailure, Rows
      <3> QED
        BY <1>2, <2>2, <3>1, AttemptsAssumption
    <2> QED
      BY <2>1, <2>2
  <1>5. Missed(m) /\ \A n \in Notif \ {m} : Same(n)
    BY <1>1, <1>3, <1>4 DEF Missed, Same
  <1> QED
    BY <1>5 DEF OneMoves, Moves

LEMMA CreatingMoves ==
    ASSUME Types, FreshInv, NEW p \in Pods, Creating(p)
    PROVE  OneMoves
  <1>1. PICK m \in Notif, s \in Schedules : CreateRow(p, m, s)
    BY DEF Creating
  <1>2. /\ row' = [row EXCEPT ![m] = NewRow(s)] /\ sent' = sent
        /\ row[m].status = "ABSENT" /\ row[m].attempts = 0
    BY <1>1 DEF CreateRow, FreshInv, Quiet
  <1>3. row'[m] = NewRow(s) /\ \A n \in Notif \ {m} : row'[n] = row[n]
    BY <1>2 DEF Types
  <1>4. row'[m].status = "PENDING" /\ row'[m].attempts = 0
    BY <1>3 DEF NewRow, NoRow
  <1>5. Asked(m) /\ \A n \in Notif \ {m} : Same(n)
    BY <1>2, <1>3, <1>4 DEF Asked, Same
  <1> QED
    BY <1>5 DEF OneMoves, Moves

LEMMA SendingMoves ==
    ASSUME Types, StatusMatchesAttempts, \A n \in Notif : LifeOK(n),
           \A kind : ~Fault(kind), NEW p \in Pods, Sending(p)
    PROVE  OneMoves
  <1>1. ASSUME NEW m \in Notif, SendPrimary(p, m)
        PROVE  OneMoves
    <2>1. row' = row /\ (sent' = sent \/ sent' = Plus(sent, m)) /\ sendQ[m] > 0
      BY <1>1, SendPrimaryShape
    <2>2. row[m].status = "PENDING" /\ sent[m] = 0
      BY <2>1 DEF LifeOK, PrimaryDue, Fresh
    <2> QED
      BY <2>1, <2>2, NothingMoves, DeliveryMoves
  <1>2. CASE RecordPrimary(p)
    <2>1. sent' = sent
      BY <1>2, RecordPrimaryShape
    <2>2. PICK m \in Notif, pc \in {"sent", "failed"} :
            /\ At(sender[p], pc, m)
            /\ row' = [row EXCEPT ![m] = IF pc = "sent"
                          THEN AfterFirstSuccess(row[m]) ELSE AfterSendFailure(row[m])]
      BY <1>2, RecordPrimaryShape
    <2>3. CASE pc = "sent"
      <3>1. row[m].status = "PENDING" /\ row[m].attempts = 0 /\ sent[m] = 1
        BY <2>2, <2>3 DEF LifeOK
      <3>2. /\ AfterFirstSuccess(row[m]).status = "COMPLETED"
            /\ AfterFirstSuccess(row[m]).attempts = 1
        BY WrittenRow DEF Types
      <3> QED
        BY <2>1, <2>2, <2>3, <3>1, <3>2, SuccessMoves
    <2>4. CASE pc = "failed"
      <3>1. row[m].status = "PENDING" /\ sent[m] = 0
        BY <2>2, <2>4 DEF LifeOK, PrimaryDue, Fresh
      <3> QED
        BY <2>1, <2>2, <2>4, <3>1, FailureMoves
    <2> QED
      BY <2>3, <2>4
  <1>3. CASE AckPrimary(p)
    BY <1>3, NothingMoves DEF AckPrimary, envVars
  <1> QED
    BY <1>1, <1>2, <1>3 DEF Sending

LEMMA RetryingMoves ==
    ASSUME Types, StatusMatchesAttempts, \A n \in Notif : LifeOK(n),
           \A kind : ~Fault(kind), NEW p \in Pods, Retrying(p)
    PROVE  OneMoves
  <1>1. CASE SendRetry(p)
    <2>1. PICK m \in Notif : At(retrier[p], "loaded", m) /\ row' = row
                             /\ (sent' = sent \/ sent' = Plus(sent, m))
      BY <1>1, SendRetryShape
    <2>2. row[m].status = "PENDING" /\ sent[m] = 0
      BY <2>1 DEF LifeOK, RetryDue, Target, IsRetryTarget
    <2> QED
      BY <2>1, <2>2, NothingMoves, DeliveryMoves
  <1>2. CASE RecordRetry(p)
    <2>1. sent' = sent
      BY <1>2, RecordRetryShape
    <2>2. PICK m \in Notif, pc \in {"sent", "failed"} :
            /\ At(retrier[p], pc, m)
            /\ row' = [row EXCEPT ![m] = IF pc = "sent"
                          THEN AfterRetrySuccess(row[m]) ELSE AfterSendFailure(row[m])]
      BY <1>2, RecordRetryShape
    <2>3. CASE pc = "sent"
      <3>1. row[m].status = "PENDING" /\ row[m].attempts >= 1 /\ sent[m] = 1
        BY <2>2, <2>3 DEF LifeOK, IsRetryTarget
      <3>2. /\ AfterRetrySuccess(row[m]).status = "COMPLETED"
            /\ AfterRetrySuccess(row[m]).attempts = row[m].attempts
            /\ row[m].attempts # 0
        BY <3>1, WrittenRow DEF Types
      <3> QED
        BY <2>1, <2>2, <2>3, <3>1, <3>2, SuccessMoves
    <2>4. CASE pc = "failed"
      <3>1. row[m].status = "PENDING" /\ sent[m] = 0
        BY <2>2, <2>4 DEF LifeOK, RetryDue, Target, IsRetryTarget
      <3> QED
        BY <2>1, <2>2, <2>4, <3>1, FailureMoves
    <2> QED
      BY <2>3, <2>4
  <1>3. CASE AckRetry(p) \/ \E n \in Notif : LoadRetry(p, n)
    BY <1>3, NothingMoves DEF AckRetry, LoadRetry, storeVars, envVars
  <1> QED
    BY <1>1, <1>2, <1>3 DEF Retrying

LEMMA StepMoves ==
    ASSUME Supported, LifeInv, [Next]_vars, Faultless'
    PROVE  OneMoves
  <1>1. /\ Faultless /\ \A kind : ~Fault(kind)
        /\ \A p \in Pods : ~Stop(p) /\ ~Crash(p)
    BY FaultlessBefore
  <1>2. /\ Types /\ StatusMatchesAttempts /\ FreshInv
        /\ \A n \in Notif : LifeOK(n)
    BY <1>1, TypesOf DEF Supported, LifeInv
  <1>3. ASSUME NEW p \in Pods, Creating(p) \/ Sending(p) \/ Retrying(p)
        PROVE  OneMoves
    BY <1>1, <1>2, <1>3, CreatingMoves, SendingMoves, RetryingMoves
  <1>4. ASSUME NEW p \in Pods, Claiming(p)
        PROVE  OneMoves
    <2>1. ~AbortClaim(p)
      BY <1>1 DEF AbortClaim
    <2>2. sent' = sent /\ (row' = row \/ \E S, lease : LeaseRows(S, lease))
      BY <1>4, <2>1
      DEF Claiming, ClaimRetries, CommitClaim, PublishRetry, storeVars, envVars
    <2> QED
      BY <1>2, <2>2, NothingMoves
  <1>5. ASSUME NEW p \in Pods, Answering(p) \/ Polling(p) \/ Exit(p)
        PROVE  OneMoves
    <2>1. row' = row /\ sent' = sent
      BY <1>5
      DEF Answering, FinishRequest, Polling, PollScheduled, MarkScheduled,
          PublishScheduled, Exit, Vanish, storeVars, envVars
    <2> QED
      BY <2>1, NothingMoves
  <1>6. CASE Tick
    BY <1>2, <1>6, NothingMoves DEF Tick
  <1>7. CASE UNCHANGED vars
    BY <1>7, NothingMoves DEF vars, storeVars, envVars
  <1> QED
    BY <1>1, <1>3, <1>4, <1>5, <1>6, <1>7 DEF Next, PodStep

-----------------------------------------------------------------------------
(* The refinement. *)

StatusNow == [n \in Notif |-> row[n].status]
AttemptsNow == [n \in Notif |-> row[n].attempts]

LEMMA MoveIsStep ==
    ASSUME Types, sent' \in [Notif -> Nat], struck = {}, struck' = {}, NEW m \in Notif,
           Moves(m), \A n \in Notif \ {m} : Same(n)
    PROVE  Lifecycle!Step(m)
  <1>1. /\ StatusNow' = [StatusNow EXCEPT ![m] = row'[m].status]
        /\ AttemptsNow' = [AttemptsNow EXCEPT ![m] = row'[m].attempts]
    BY DEF StatusNow, AttemptsNow, Same
  <1>2. sent' = [sent EXCEPT ![m] = sent'[m]]
    BY DEF Types, Same
  <1>3. /\ row'[m].status = row[m].status => StatusNow' = StatusNow
        /\ row'[m].attempts = row[m].attempts => AttemptsNow' = AttemptsNow
        /\ sent'[m] = sent[m] => sent' = sent
    <2>1. /\ row'[m].status = row[m].status => \A n \in Notif : row'[n].status = row[n].status
          /\ row'[m].attempts = row[m].attempts =>
                \A n \in Notif : row'[n].attempts = row[n].attempts
          /\ sent'[m] = sent[m] => \A n \in Notif : sent'[n] = sent[n]
      BY DEF Same
    <2> QED
      BY <2>1 DEF Types, StatusNow, AttemptsNow
  <1>4. StatusNow[m] = row[m].status /\ AttemptsNow[m] = row[m].attempts
    BY DEF StatusNow, AttemptsNow
  <1>5. CASE Asked(m)
    <2>1. Lifecycle!Ask(m)
      BY <1>1, <1>3, <1>4, <1>5 DEF Asked, Lifecycle!Ask, StatusNow, AttemptsNow
    <2> QED
      BY <2>1 DEF Lifecycle!Step
  <1>6. CASE Delivered(m)
    <2>1. Lifecycle!Deliver(m)
      BY <1>2, <1>3, <1>4, <1>6 DEF Delivered, Lifecycle!Deliver, StatusNow, AttemptsNow
    <2> QED
      BY <2>1 DEF Lifecycle!Step
  <1>7. CASE Succeeded(m)
    <2>1. Lifecycle!Complete(m)
      BY <1>1, <1>3, <1>4, <1>7 DEF Succeeded, Lifecycle!Complete, StatusNow, AttemptsNow
    <2> QED
      BY <2>1 DEF Lifecycle!Step
  <1>8. CASE Missed(m)
    <2>1. Lifecycle!Miss(m)
      BY <1>1, <1>3, <1>4, <1>8 DEF Missed, Lifecycle!Miss, StatusNow, AttemptsNow
    <2> QED
      BY <2>1 DEF Lifecycle!Step
  <1> QED
    BY <1>5, <1>6, <1>7, <1>8 DEF Moves

LEMMA LifecycleStep ==
    ASSUME 0 \notin Schedules, Supported, TypeOK', LifeInv, [Next]_vars
    PROVE  [Lifecycle!Next]_(Lifecycle!vars)
  <1>1. CASE struck' # {}
    BY <1>1 DEF Lifecycle!Next
  <1>2. CASE struck' = {}
    <2>1. struck = {} /\ OneMoves /\ Types
      BY <1>2, FaultlessBefore, StepMoves, TypesOf DEF Faultless, Supported
    <2>2. CASE \A n \in Notif : Same(n)
      <3>1. /\ StatusNow' = StatusNow /\ AttemptsNow' = AttemptsNow
            /\ sent' = sent
        BY <2>1, <2>2 DEF StatusNow, AttemptsNow, Same, Types, TypeOK, EnvTypeOK
      <3> QED
        BY <1>2, <2>1, <3>1 DEF Lifecycle!vars, StatusNow, AttemptsNow
    <2>3. ASSUME NEW m \in Notif, Moves(m), \A n \in Notif \ {m} : Same(n)
          PROVE  Lifecycle!Next
      <3>1. Lifecycle!Step(m)
        BY <1>2, <2>1, <2>3, MoveIsStep DEF TypeOK, EnvTypeOK
      <3> QED
        BY <1>2, <2>1, <3>1 DEF Lifecycle!Next
    <2> QED
      BY <2>1, <2>2, <2>3 DEF OneMoves
  <1> QED
    BY <1>1, <1>2

LEMMA InitLife == Init => LifeInv
  <1> SUFFICES ASSUME Init, NEW n \in Notif
               PROVE  LifeOK(n)
    BY DEF LifeInv
  <1>1. Quiet(n) /\ row[n].status = "ABSENT"
    BY InitFresh DEF FreshInv, Init, StoreInit, NoRow
  <1>2. ~PrimaryDue(n) /\ ~RetryDue(n)
    BY <1>1 DEF Quiet, Unserved, PrimaryDue, RetryDue, RetryToPublish, At
  <1> QED
    BY <1>1, <1>2 DEF Quiet, LifeOK, At

\* As long as no client asks for the past, and until the first fault, the
\* queues, claims, leases and keys of any number of pods together treat each
\* notification as NotificationLifecycle says: one delivery at the most, every
\* failed attempt counted, and no change once it is decided.
THEOREM PipelineImplementsLifecycle ==
    ASSUME 0 \notin Schedules
    PROVE  Spec => ImplementsLifecycle
  <1>1. Init => FreshInv /\ SendInv /\ LeaseInv /\ LifeInv
    BY InitFresh, InitSend, InitLease, InitLife
  <1>2. TypeOK /\ ClaimsAreExclusive /\ FreshInv /\ SendInv /\ LeaseInv /\ [Next]_vars
           => FreshInv' /\ SendInv' /\ LeaseInv'
    <2>1. TypeOK /\ FreshInv /\ [Next]_vars => FreshInv'
      BY AbsentStep, RefusedStep DEF FreshInv
    <2> QED
      BY <2>1, SendStep, LeaseStep
  <1>3. /\ TypeOK /\ StatusMatchesAttempts /\ ClaimsAreExclusive
        /\ FreshInv /\ SendInv /\ LeaseInv /\ LifeInv /\ [Next]_vars
        => LifeInv'
    BY LifeStep DEF Supported
  <1>4. /\ TypeOK /\ StatusMatchesAttempts /\ ClaimsAreExclusive
        /\ FreshInv /\ SendInv /\ LeaseInv /\ LifeInv /\ [Next]_vars /\ TypeOK'
        => [Lifecycle!Next]_(Lifecycle!vars)
    BY LifecycleStep DEF Supported
  <1>5. Init => Lifecycle!Init
    BY DEF Init, StoreInit, EnvInit, NoRow, Lifecycle!Init
  <1> QED
    BY <1>1, <1>2, <1>3, <1>4, <1>5, TypeCorrect, AttemptsDecideStatus, ClaimsExclusive,
       PTL DEF Spec, ImplementsLifecycle, Lifecycle!Spec

-----------------------------------------------------------------------------
(* Decisions. *)

First(n) == row[n].status = "PENDING" /\ row[n].attempts = 0

\* A first send of n is to come, or to be recorded.
Coming(n) == SendAhead(n) \/ ~Unserved(n)

\* Whoever has still to write the row of n finds it as it was when its message
\* was published: not tried yet, or waiting for a retry.
FinalOK(n) ==
    /\ Coming(n) => First(n)
    /\ RetryAhead(n) => IsRetryTarget(row[n])
    /\ \A p \in Pods : n \in poll[p].rows => First(n) \/ dedup[n] >= 1

\* The inductive invariant behind DecidedIsFinal.
Unhurried == 0 \notin Schedules /\ Spared({"crash", "stop", "late"})

FinalInv == Unhurried => \A n \in Notif : FinalOK(n)

Steady(n) == row'[n].status = row[n].status /\ row'[n].attempts = row[n].attempts

LEMMA UnhurriedBefore ==
    ASSUME [Next]_vars, Unhurried'
    PROVE  /\ Unhurried /\ Calm /\ Calm'
           /\ \A p \in Pods : ~Stop(p) /\ ~Crash(p)
  BY SparedBefore DEF Unhurried, Calm, Spared, Stop, Crash

\* Only a request and the consumer that holds its message write the outcome.
LEMMA RowWrites ==
    ASSUME Types, [Next]_vars, NEW n \in Notif
    PROVE  \/ Steady(n)
           \/ row[n].status = "ABSENT"
           \/ \E p \in Pods : RecordPrimary(p) /\ Sending(p) /\ Handles(sender[p], n)
           \/ \E p \in Pods : RecordRetry(p) /\ Retrying(p) /\ Handles(retrier[p], n)
  <1>1. CASE row' = row
    BY <1>1 DEF Steady
  <1>2. CASE Tick
    <2>1. row'[n] = AgeRow(row[n]) /\ row[n] \in Rows
      BY <1>2 DEF Tick, Types
    <2> QED
      BY <2>1, AgedRow DEF Steady
  <1>3. ASSUME NEW p \in Pods, Creating(p)
        PROVE  Steady(n) \/ row[n].status = "ABSENT"
    BY <1>3 DEF Creating, CreateRow, Types, Steady
  <1>4. ASSUME NEW p \in Pods, Claiming(p)
        PROVE  Steady(n)
    <2>1. row' = row \/ LeaseRows(claim[p].rows, claim[p].leaseIn)
      BY <1>4 DEF Claiming, ClaimRetries, CommitClaim, AbortClaim, PublishRetry, storeVars
    <2>2. row'[n] \in {row[n], Leased(row[n], claim[p].leaseIn)} /\ row[n] \in Rows
      BY <2>1 DEF LeaseRows, Types
    <2> QED
      BY <2>2 DEF Leased, Rows, Steady
  <1>5. ASSUME NEW p \in Pods, Sending(p)
        PROVE  \/ Steady(n)
               \/ RecordPrimary(p) /\ Handles(sender[p], n)
    <2>1. CASE RecordPrimary(p)
      <3>1. sender[p] # Idle /\ sender[p].n \in Notif /\ sender[p].pc # "acking"
        BY <2>1 DEF RecordPrimary, Types, Idle, Jobs
      <3>2. sender[p].n # n => row'[n] = row[n]
        BY <2>1, <3>1 DEF RecordPrimary, Types
      <3> QED
        BY <2>1, <3>1, <3>2 DEF Steady, Handles, Holds
    <2>2. CASE ~RecordPrimary(p)
      <3>1. row' = row
        BY <1>5, <2>2 DEF Sending, SendPrimary, AckPrimary
      <3> QED
        BY <3>1 DEF Steady
    <2> QED
      BY <2>1, <2>2
  <1>6. ASSUME NEW p \in Pods, Retrying(p)
        PROVE  \/ Steady(n)
               \/ RecordRetry(p) /\ Handles(retrier[p], n)
    <2>1. CASE RecordRetry(p)
      <3>1. retrier[p] # Idle /\ retrier[p].n \in Notif /\ retrier[p].pc # "acking"
        BY <2>1 DEF RecordRetry, Types, Idle, Jobs
      <3>2. retrier[p].n # n => row'[n] = row[n]
        BY <2>1, <3>1 DEF RecordRetry, Types
      <3> QED
        BY <2>1, <3>1, <3>2 DEF Steady, Handles, Holds
    <2>2. CASE ~RecordRetry(p)
      <3>1. row' = row
        BY <1>6, <2>2 DEF Retrying, LoadRetry, SendRetry, AckRetry, storeVars
      <3> QED
        BY <3>1 DEF Steady
    <2> QED
      BY <2>1, <2>2
  <1>7. ASSUME NEW p \in Pods, Answering(p) \/ Polling(p) \/ Stop(p) \/ Exit(p) \/ Crash(p)
        PROVE  row' = row
    BY <1>7
    DEF Answering, FinishRequest, Polling, PollScheduled, MarkScheduled,
        PublishScheduled, Stop, Exit, Crash, Vanish, storeVars
  <1>8. CASE UNCHANGED vars
    BY <1>1, <1>8 DEF vars, storeVars
  <1> QED
    BY <1>1, <1>2, <1>3, <1>4, <1>5, <1>6, <1>7, <1>8 DEF Next, PodStep

\* A step that leaves the outcome of n and starts nothing for n that the row
\* does not call for.
LEMMA FinalKept ==
    ASSUME NEW n \in Notif, FinalOK(n), Steady(n),
           Coming(n)' => Coming(n) \/ First(n),
           RetryAhead(n)' => RetryAhead(n) \/ IsRetryTarget(row[n]),
           \A p \in Pods : n \in poll'[p].rows => First(n) \/ dedup'[n] >= 1
    PROVE  FinalOK(n)'
  <1>1. First(n) => First(n)'
    BY DEF First, Steady
  <1>2. IsRetryTarget(row[n]) => IsRetryTarget(row'[n])
    BY DEF IsRetryTarget, Steady
  <1> QED
    BY <1>1, <1>2 DEF FinalOK

\* The same of a step that publishes, holds and finds nothing more.
LEMMA FinalStays ==
    ASSUME NEW n \in Notif, FinalOK(n), Steady(n),
           Coming(n)' => Coming(n), RetryAhead(n)' => RetryAhead(n),
           UNCHANGED <<poll, dedup>>
    PROVE  FinalOK(n)'
  BY FinalKept DEF FinalOK

LEMMA RequestFinal ==
    ASSUME Types, NEW n \in Notif, FinalOK(n), Steady(n), row[n].status # "ABSENT",
           NEW p \in Pods, Creating(p) \/ Answering(p)
    PROVE  FinalOK(n)'
  <1>1. UNCHANGED <<sender, retryQ, retrier, claim, poll, dedup>>
    BY DEF Creating, CreateRow, Answering, FinishRequest, retryVars, scheduledVars
  <1>2. RetryAhead(n)' => RetryAhead(n)
    BY <1>1 DEF RetryAhead, RetryInHand, RetryToPublish
  <1>3. CASE Creating(p)
    <2>1. PICK m \in Notif, s \in Schedules : CreateRow(p, m, s)
      BY <1>3 DEF Creating
    <2>2. m # n
      BY <2>1 DEF CreateRow
    <2>3. sendQ' = sendQ /\ \A q \in Pods : n \in serving'[q] => n \in serving[q]
      BY <2>1, <2>2 DEF CreateRow, Types
    <2>4. Coming(n)' => Coming(n)
      BY <1>1, <2>3 DEF Coming, SendAhead, SendInHand, Unserved
    <2> QED
      BY <1>1, <1>2, <2>4, FinalStays
  <1>4. CASE Answering(p)
    <2>1. PICK m \in Notif : FinishRequest(p, m)
      BY <1>4 DEF Answering
    <2>2. /\ sendQ'[n] > 0 => sendQ[n] > 0 \/ n \in serving[p]
          /\ \A q \in Pods : n \in serving'[q] => n \in serving[q]
      BY <2>1 DEF FinishRequest, Answer, Plus, Types
    <2>3. Coming(n)' => Coming(n)
      BY <1>1, <2>2 DEF Coming, SendAhead, SendInHand, Unserved
    <2> QED
      BY <1>1, <1>2, <2>3, FinalStays
  <1> QED
    BY <1>3, <1>4

LEMMA SendingFinal ==
    ASSUME Types, NEW n \in Notif, FinalOK(n), Steady(n), NEW p \in Pods, Sending(p)
    PROVE  FinalOK(n)'
  <1>1. UNCHANGED <<serving, retryQ, retrier, claim, poll, dedup>>
    BY DEF Sending, SendPrimary, RecordPrimary, AckPrimary, envVars, retryVars,
           scheduledVars
  <1>2. RetryAhead(n)' => RetryAhead(n)
    BY <1>1 DEF RetryAhead, RetryInHand, RetryToPublish
  <1>3. ASSUME NEW m \in Notif, SendPrimary(p, m)
        PROVE  SendAhead(n)' => SendAhead(n)
    <2>1. PICK pc \in {"sent", "failed"} : sender' = [sender EXCEPT ![p] = Job(pc, m)]
      BY <1>3 DEF SendPrimary
    <2>2. sendQ[m] > 0 /\ (sendQ'[n] > 0 => sendQ[n] > 0)
      BY <1>3 DEF SendPrimary, Minus, Types
    <2>3. \A q \in Pods : Handles(sender'[q], n) => Handles(sender[q], n) \/ m = n
      BY <2>1, JobOf DEF Types, Handles
    <2> QED
      BY <1>1, <2>2, <2>3 DEF SendAhead, SendInHand
  <1>4. CASE RecordPrimary(p) \/ AckPrimary(p)
    <2>1. sendQ' = sendQ
      BY <1>4 DEF RecordPrimary, AckPrimary, envVars
    <2>2. \A q \in Pods : Handles(sender'[q], n) => Handles(sender[q], n)
      <3>1. \E c \in {Idle, Job("acking", sender[p].n)} : sender' = [sender EXCEPT ![p] = c]
        BY <1>4 DEF RecordPrimary, AckPrimary
      <3>2. ~Handles(sender'[p], n) /\ \A q \in Pods : q # p => sender'[q] = sender[q]
        BY <3>1 DEF Types, Handles, Holds, Job
      <3> QED
        BY <3>2
    <2>3. Coming(n)' => Coming(n)
      BY <1>1, <2>1, <2>2 DEF Coming, SendAhead, SendInHand, Unserved
    <2> QED
      BY <1>1, <1>2, <2>3, FinalStays
  <1> QED
    BY <1>1, <1>2, <1>3, <1>4, FinalStays DEF Sending, Coming, Unserved

LEMMA RetryFinal ==
    ASSUME Types, TypeOK, ClaimsAreExclusive, NEW n \in Notif, FinalOK(n), Steady(n),
           NEW p \in Pods, Claiming(p) \/ Retrying(p)
    PROVE  FinalOK(n)'
  <1>1. UNCHANGED <<serving, sender, sendQ, poll, dedup>>
    BY DEF Claiming, ClaimRetries, CommitClaim, AbortClaim, PublishRetry, Retrying,
           LoadRetry, SendRetry, RecordRetry, AckRetry, envVars, primaryVars,
           scheduledVars
  <1>2. Coming(n)' => Coming(n)
    BY <1>1 DEF Coming, SendAhead, SendInHand, Unserved
  <1>3. ASSUME retryQ'[n] > 0 => RetryAhead(n),
               \A q \in Pods : RetryInHand(q, n)' => RetryAhead(n) \/ IsRetryTarget(row[n])
        PROVE  FinalOK(n)'
    <2>1. RetryAhead(n)' => RetryAhead(n) \/ IsRetryTarget(row[n])
      BY <1>3 DEF RetryAhead
    <2>2. \A q \in Pods : n \in poll'[q].rows => First(n) \/ dedup'[n] >= 1
      BY <1>1 DEF FinalOK
    <2> QED
      BY <1>2, <2>1, <2>2, FinalKept
  <1>4. CASE Claiming(p)
    <2>1. retrier' = retrier
      BY <1>4 DEF Claiming, ClaimRetries, CommitClaim, AbortClaim, PublishRetry
    <2>2. retryQ'[n] > 0 => RetryAhead(n)
      <3>1. retryQ' = retryQ \/ \E m \in claim[p].rows :
                                   claim[p].pc = "publish" /\ retryQ' \in {retryQ, Plus(retryQ, m)}
        BY <1>4 DEF Claiming, ClaimRetries, CommitClaim, AbortClaim, PublishRetry, envVars
      <3> QED
        BY <3>1 DEF Types, Plus, RetryAhead, RetryInHand, RetryToPublish
    <2>3. ASSUME NEW q \in Pods, RetryToPublish(q, n)'
          PROVE  RetryToPublish(q, n) \/ InTx(p, n)
      <3>1. CASE ClaimRetries(p) \/ AbortClaim(p)
        BY <2>3, <3>1 DEF ClaimRetries, AbortClaim, RetryToPublish, NoClaim, Types
      <3>2. CASE CommitClaim(p)
        BY <2>3, <3>2 DEF CommitClaim, RetryToPublish, InTx, Types
      <3>3. ASSUME NEW m \in Notif, PublishRetry(p, m)
            PROVE  RetryToPublish(q, n)
        BY <2>3, <3>3 DEF PublishRetry, RetryToPublish, Without, NoClaim, Types, Claims
      <3> QED
        BY <1>4, <3>1, <3>2, <3>3 DEF Claiming
    <2>4. InTx(p, n) => IsRetryTarget(row[n])
      BY ClaimsRestated DEF IsRetryDue
    <2> QED
      BY <1>3, <2>1, <2>2, <2>3, <2>4 DEF RetryAhead, RetryInHand
  <1>5. CASE Retrying(p)
    <2>1. claim' = claim
      BY <1>5 DEF Retrying, LoadRetry, SendRetry, RecordRetry, AckRetry
    <2>2. retryQ'[n] > 0 => RetryAhead(n)
      <3>1. retryQ' = retryQ \/ \E m \in Notif : retryQ' = Minus(retryQ, m)
        BY <1>5 DEF Retrying, LoadRetry, SendRetry, RecordRetry, AckRetry, envVars
      <3> QED
        BY <3>1 DEF Types, Minus, RetryAhead
    <2>3. ASSUME NEW q \in Pods, Handles(retrier'[q], n)
          PROVE  RetryAhead(n)
      <3>1. ASSUME NEW m \in Notif, LoadRetry(p, m)
            PROVE  RetryAhead(n)
        <4>1. retryQ[m] > 0 /\ \E pc \in {"loaded", "acking"} :
                 retrier' = [retrier EXCEPT ![p] = Job(pc, m)]
          BY <3>1 DEF LoadRetry
        <4>2. CASE q = p
          <5>1. \E pc : retrier'[p] = Job(pc, m)
            BY <4>1 DEF Types
          <5>2. m = n
            BY <2>3, <4>2, <5>1, JobOf DEF Handles
          <5> QED
            BY <4>1, <5>2 DEF RetryAhead
        <4>3. CASE q # p
          BY <2>3, <4>1, <4>3 DEF Types, RetryAhead, RetryInHand
        <4> QED
          BY <4>2, <4>3
      <3>2. CASE SendRetry(p) \/ RecordRetry(p) \/ AckRetry(p)
        <4>1. CASE q = p
          <5>1. retrier[p] \in Jobs /\ retrier'[p] # Idle
            BY <2>3, <3>2, <4>1
            DEF SendRetry, RecordRetry, AckRetry, Types, Idle, Jobs, Handles, Holds
          <5>2. SendRetry(p) /\ retrier[p].pc = "loaded"
            BY <2>3, <3>2, <4>1, <5>1
            DEF SendRetry, RecordRetry, AckRetry, Types, Jobs, Handles, Holds
          <5>3. retrier'[p].n = retrier[p].n
            BY <5>1, <5>2 DEF SendRetry, Types, Jobs
          <5>4. retrier[p].n = n
            BY <2>3, <4>1, <5>3 DEF Handles, Holds
          <5>5. retrier[p] # Idle
            BY <5>2 DEF Idle
          <5>6. Handles(retrier[p], n)
            BY <5>2, <5>4, <5>5 DEF Handles, Holds
          <5> QED
            BY <5>6 DEF RetryAhead, RetryInHand
        <4>2. CASE q # p
          BY <2>3, <3>2, <4>2
          DEF SendRetry, RecordRetry, AckRetry, Types, RetryAhead, RetryInHand
        <4> QED
          BY <4>1, <4>2
      <3> QED
        BY <1>5, <3>1, <3>2 DEF Retrying
    <2>4. \A q \in Pods : RetryToPublish(q, n)' => RetryToPublish(q, n)
      BY <2>1 DEF RetryToPublish
    <2> QED
      BY <1>3, <2>2, <2>3, <2>4 DEF RetryAhead, RetryInHand
  <1> QED
    BY <1>4, <1>5

LEMMA PollingFinal ==
    ASSUME Types, NEW n \in Notif, FinalOK(n), Steady(n), NEW p \in Pods, Polling(p)
    PROVE  FinalOK(n)'
  <1>1. UNCHANGED <<serving, sender, retryQ, claim, retrier>>
    BY DEF Polling, PollScheduled, MarkScheduled, PublishScheduled, envVars, primaryVars,
           retryVars
  <1>2. RetryAhead(n)' => RetryAhead(n)
    BY <1>1 DEF RetryAhead, RetryInHand, RetryToPublish
  <1>3. CASE PollScheduled(p)
    <2>1. PICK S \in LimitedTo(ScheduledBatch, ScheduledDue) :
             poll' = [poll EXCEPT ![p] = [NoPoll EXCEPT !.rows = S]]
      BY <1>3 DEF PollScheduled
    <2>2. UNCHANGED <<sendQ, dedup>>
      BY <1>3 DEF PollScheduled, envVars
    <2>3. \A q \in Pods : /\ n \in poll'[q].marked => n \in poll[q].marked
                          /\ n \in poll'[q].rows => n \in poll[q].rows \/ n \in S
      BY <2>1 DEF Types, NoPoll
    <2>4. n \in S => First(n)
      BY DEF LimitedTo, ScheduledDue, IsScheduledDue, First
    <2>5. Coming(n)' => Coming(n)
      BY <1>1, <2>2, <2>3 DEF Coming, SendAhead, SendInHand, Unserved
    <2>6. \A q \in Pods : n \in poll'[q].rows => First(n) \/ dedup'[n] >= 1
      BY <2>2, <2>3, <2>4 DEF FinalOK
    <2> QED
      BY <1>2, <2>5, <2>6, FinalKept
  <1>4. ASSUME NEW m \in Notif, MarkScheduled(p, m)
        PROVE  FinalOK(n)'
    <2>1. /\ m \in poll[p].rows /\ sendQ' = sendQ
          /\ \/ dedup[m] = 0 /\ dedup' = [dedup EXCEPT ![m] = DedupTTL]
                /\ poll' = Looked(p, m, {m})
             \/ dedup' = dedup /\ poll' = Looked(p, m, {})
             \/ dedup[m] = 0 /\ dedup' = [dedup EXCEPT ![m] = DedupTTL]
                /\ poll' = Looked(p, m, {})
      BY <1>4 DEF MarkScheduled
    <2>2. \A q \in Pods :
             /\ n \in poll'[q].rows => n \in poll[q].rows
             /\ n \in poll'[q].marked => n \in poll[q].marked \/ (m = n /\ dedup[n] = 0)
      BY <2>1 DEF Looked, Types
    <2>3. m = n /\ dedup[n] = 0 => First(n)
      BY <2>1 DEF FinalOK
    <2>4. dedup[n] >= 1 => dedup'[n] >= 1
      BY <2>1, DedupAssumption DEF Types
    <2>5. Coming(n)' => Coming(n) \/ First(n)
      BY <1>1, <2>1, <2>2, <2>3 DEF Coming, SendAhead, SendInHand, Unserved
    <2>6. \A q \in Pods : n \in poll'[q].rows => First(n) \/ dedup'[n] >= 1
      BY <2>2, <2>4 DEF FinalOK
    <2> QED
      BY <1>2, <2>5, <2>6, FinalKept
  <1>5. ASSUME NEW m \in Notif, PublishScheduled(p, m)
        PROVE  FinalOK(n)'
    <2>1. /\ m \in poll[p].marked /\ sendQ' \in {sendQ, Plus(sendQ, m)}
          /\ dedup' = dedup /\ poll' = [poll EXCEPT ![p].marked = {}]
      BY <1>5 DEF PublishScheduled
    <2>2. \A q \in Pods : /\ poll'[q].rows = poll[q].rows
                          /\ n \in poll'[q].marked => n \in poll[q].marked
      BY <2>1 DEF Types, Polls
    <2>3. sendQ'[n] > 0 => sendQ[n] > 0 \/ m = n
      BY <2>1 DEF Types, Plus
    <2>4. Coming(n)' => Coming(n)
      BY <1>1, <2>1, <2>2, <2>3 DEF Coming, SendAhead, SendInHand, Unserved
    <2>5. \A q \in Pods : n \in poll'[q].rows => First(n) \/ dedup'[n] >= 1
      BY <2>1, <2>2 DEF FinalOK
    <2> QED
      BY <1>2, <2>4, <2>5, FinalKept
  <1> QED
    BY <1>3, <1>4, <1>5 DEF Polling

LEMMA TickFinal ==
    ASSUME Types, NEW n \in Notif, FinalOK(n), Steady(n), Timely, Tick
    PROVE  FinalOK(n)'
  <1>1. UNCHANGED <<sendQ, retryQ, serving, sender, retrier>>
    BY DEF Tick, primaryVars
  <1>2. \A q \in Pods : /\ poll'[q].rows = poll[q].rows
                        /\ poll'[q].marked = poll[q].marked
                        /\ claim'[q].pc = claim[q].pc /\ claim'[q].rows = claim[q].rows
    BY DEF Tick, Types, Polls, Claims
  <1>3. /\ Coming(n)' => Coming(n)
        /\ RetryAhead(n)' => RetryAhead(n)
    BY <1>1, <1>2
    DEF Coming, SendAhead, SendInHand, Unserved, RetryAhead, RetryInHand, RetryToPublish
  <1>4. ASSUME NEW q \in Pods, n \in poll'[q].rows
        PROVE  First(n) \/ dedup'[n] >= 1
    <2>1. n \in poll[q].rows /\ dedup[n] # 1
      BY <1>2, <1>4 DEF Timely
    <2>2. First(n) \/ dedup[n] >= 1
      BY <2>1 DEF FinalOK
    <2>3. dedup'[n] = Earlier(dedup[n]) /\ dedup[n] \in Nat
      BY DEF Tick, Types
    <2> QED
      BY <2>1, <2>2, <2>3 DEF Earlier
  <1> QED
    BY <1>3, <1>4, FinalKept

LEMMA ExitFinal ==
    ASSUME Types, NEW n \in Notif, FinalOK(n), Steady(n), NEW p \in Pods, Exit(p)
    PROVE  FinalOK(n)'
  <1>1. /\ UNCHANGED <<dedup, retryQ>>
        /\ sender' = sender /\ retrier' = retrier
        /\ serving' = [serving EXCEPT ![p] = {}]
        /\ claim' = [claim EXCEPT ![p] = NoClaim] /\ poll' = [poll EXCEPT ![p] = NoPoll]
    BY DEF Exit, Vanish, Types
  <1>2. sendQ'[n] > 0 => sendQ[n] > 0 \/ n \in serving[p]
    BY DEF Exit, Vanish, PlusEach
  <1>3. \A q \in Pods : /\ n \in serving'[q] => n \in serving[q]
                        /\ n \in poll'[q].marked => n \in poll[q].marked
                        /\ n \in poll'[q].rows => n \in poll[q].rows
                        /\ RetryToPublish(q, n)' => RetryToPublish(q, n)
    BY <1>1 DEF Types, NoPoll, NoClaim, RetryToPublish
  <1>4. Coming(n)' => Coming(n)
    BY <1>1, <1>2, <1>3 DEF Coming, SendAhead, SendInHand, Unserved
  <1>5. RetryAhead(n)' => RetryAhead(n)
    BY <1>1, <1>3 DEF RetryAhead, RetryInHand
  <1>6. \A q \in Pods : n \in poll'[q].rows => First(n) \/ dedup'[n] >= 1
    BY <1>1, <1>3 DEF FinalOK
  <1> QED
    BY <1>4, <1>5, <1>6, FinalKept

\* The one primary message of n has been recorded: nothing is left to come.
LEMMA RecordedFinal ==
    ASSUME Types, NEW n \in Notif, SendOK(n), FinalOK(n),
           NEW p \in Pods, RecordPrimary(p), Sending(p), Handles(sender[p], n)
    PROVE  FinalOK(n)'
  <1>1. UNCHANGED <<sendQ, serving, retryQ, retrier, claim, poll, dedup>>
    BY DEF Sending, RecordPrimary, retryVars, scheduledVars
  <1>2. SendAhead(n) /\ SendAt(p, n) /\ SendOnItsWay(n)
    BY DEF SendAhead, SendInHand, SendAt, SendOnItsWay, Handles
  <1>3. First(n) /\ ~RetryAhead(n)
    BY <1>2 DEF FinalOK, Coming, First, IsRetryTarget
  <1>4. /\ sendQ[n] = 0 /\ \A q \in Pods : SendAt(q, n) => q = p
        /\ n \notin poll[p].marked /\ Unserved(n)
    BY <1>2 DEF SendOK, SingleSend, Unserved, Handles
  <1>5. \A q \in Pods : ~Handles(sender'[q], n) /\ n \notin poll[q].marked
    BY <1>4, JobOf DEF RecordPrimary, Types, SendAt, Handles, Job
  <1>6. ~Coming(n)'
    BY <1>1, <1>4, <1>5 DEF Coming, SendAhead, SendInHand, Unserved
  <1>7. ~RetryAhead(n)'
    BY <1>1, <1>3 DEF RetryAhead, RetryInHand, RetryToPublish
  <1>8. \A q \in Pods : n \in poll'[q].rows => dedup'[n] >= 1
    BY <1>1, <1>2 DEF SendOK, NoTime
  <1> QED
    BY <1>6, <1>7, <1>8 DEF FinalOK

\* The same of its one retry.
LEMMA RetriedFinal ==
    ASSUME Types, NEW n \in Notif, RetryOK(n), FinalOK(n),
           NEW p \in Pods, RecordRetry(p), Retrying(p), Handles(retrier[p], n)
    PROVE  FinalOK(n)'
  <1>1. UNCHANGED <<sendQ, serving, sender, retryQ, claim, poll, dedup>>
    BY DEF Retrying, RecordRetry, primaryVars, scheduledVars
  <1>2. RetryAhead(n) /\ RetryAt(p, n)
    BY DEF RetryAhead, RetryInHand, RetryAt, Handles
  <1>3. IsRetryTarget(row[n]) /\ ~First(n)
    BY <1>2 DEF FinalOK, First, IsRetryTarget
  <1>4. /\ ~Coming(n)
        /\ \A q \in Pods : n \in poll[q].rows => dedup[n] >= 1
    BY <1>3 DEF FinalOK
  <1>5. /\ retryQ[n] = 0 /\ \A q \in Pods : RetryAt(q, n) => q = p
        /\ ~RetryToPublish(p, n)
    BY <1>2 DEF RetryOK, SingleRetry, Handles
  <1>6. \A q \in Pods : ~Handles(retrier'[q], n) /\ ~RetryToPublish(q, n)
    <2>1. retrier[p] \in Jobs
      BY DEF Handles, Holds, Types
    <2>2. retrier'[p].pc = "acking"
      BY <2>1 DEF RecordRetry, Types, Jobs
    <2>3. \A q \in Pods : q # p => retrier'[q] = retrier[q]
      BY DEF RecordRetry, Types
    <2> QED
      BY <1>5, <2>2, <2>3 DEF RetryAt, Handles
  <1>7. ~RetryAhead(n)'
    BY <1>1, <1>5, <1>6 DEF RetryAhead, RetryInHand, RetryToPublish
  <1>8. ~Coming(n)'
    BY <1>1, <1>4 DEF Coming, SendAhead, SendInHand, Unserved
  <1> QED
    BY <1>1, <1>4, <1>7, <1>8 DEF FinalOK

LEMMA NewFinal ==
    ASSUME Types, TypeOK, FreshInv, [Next]_vars, NEW n \in Notif, row[n].status = "ABSENT"
    PROVE  FinalOK(n)'
  <1>1. Quiet(n)
    BY DEF FreshInv
  <1>2. CASE Created(n)
    <2>1. PICK p \in Pods, s \in Schedules : CreateRow(p, n, s)
      BY <1>2 DEF Created
    <2>2. UNCHANGED <<sendQ, retryQ, sender, retrier, claim, poll>>
      BY <1>2, <2>1 DEF Created, CreateRow, retryVars, scheduledVars
    <2>3. First(n)'
      <3>1. row'[n] = NewRow(s)
        BY <2>1 DEF CreateRow, Types
      <3> QED
        BY <3>1 DEF First, NewRow, NoRow
    <2>4. ~RetryAhead(n)'
      BY <1>1, <2>2 DEF Quiet, RetryAhead, RetryInHand, RetryToPublish, Handles
    <2> QED
      BY <2>3, <2>4 DEF FinalOK
  <1>3. CASE ~Created(n)
    <2>1. Quiet(n)'
      BY <1>1, <1>3, QuietStays
    <2>2. ~Coming(n)' /\ ~RetryAhead(n)' /\ \A p \in Pods : n \notin poll'[p].rows
      BY <2>1 DEF Quiet, Coming, SendAhead, SendInHand, RetryAhead, RetryInHand,
                  RetryToPublish, Handles, Unserved
    <2> QED
      BY <2>2 DEF FinalOK
  <1> QED
    BY <1>2, <1>3

LEMMA FinalStep ==
    /\ TypeOK /\ ClaimsAreExclusive /\ FreshInv /\ SendInv /\ LeaseInv
    /\ FinalInv /\ [Next]_vars
    => FinalInv'
  <1> SUFFICES ASSUME TypeOK, ClaimsAreExclusive, FreshInv, SendInv, LeaseInv, FinalInv,
                      [Next]_vars, Unhurried', NEW n \in Notif
               PROVE  FinalOK(n)'
    BY DEF FinalInv
  <1>1. /\ Types /\ SendOK(n) /\ RetryOK(n) /\ FinalOK(n) /\ Calm'
        /\ \A p \in Pods : ~Stop(p) /\ ~Crash(p)
    BY UnhurriedBefore, TypesOf DEF SendInv, LeaseInv, FinalInv, Unhurried
  <1>2. CASE row[n].status = "ABSENT"
    BY <1>1, <1>2, NewFinal
  <1>3. ASSUME NEW p \in Pods, RecordPrimary(p), Sending(p), Handles(sender[p], n)
        PROVE  FinalOK(n)'
    BY <1>1, <1>3, RecordedFinal
  <1>4. ASSUME NEW p \in Pods, RecordRetry(p), Retrying(p), Handles(retrier[p], n)
        PROVE  FinalOK(n)'
    BY <1>1, <1>4, RetriedFinal
  <1>5. CASE Steady(n) /\ row[n].status # "ABSENT"
    <2>1. ASSUME NEW p \in Pods, Creating(p) \/ Answering(p)
          PROVE  FinalOK(n)'
      BY <1>1, <1>5, <2>1, RequestFinal
    <2>2. ASSUME NEW p \in Pods, Sending(p)
          PROVE  FinalOK(n)'
      BY <1>1, <1>5, <2>2, SendingFinal
    <2>3. ASSUME NEW p \in Pods, Claiming(p) \/ Retrying(p)
          PROVE  FinalOK(n)'
      BY <1>1, <1>5, <2>3, RetryFinal
    <2>4. ASSUME NEW p \in Pods, Polling(p)
          PROVE  FinalOK(n)'
      BY <1>1, <1>5, <2>4, PollingFinal
    <2>5. ASSUME NEW p \in Pods, Exit(p)
          PROVE  FinalOK(n)'
      BY <1>1, <1>5, <2>5, ExitFinal
    <2>6. CASE Tick
      BY <1>1, <1>5, <2>6, CalmTick, TickFinal
    <2>7. CASE UNCHANGED vars
      <3>1. UNCHANGED <<sendQ, retryQ, serving, sender, retrier, claim, poll, dedup>>
        BY <2>7 DEF vars, envVars, primaryVars, retryVars, scheduledVars
      <3>2. (Coming(n)' => Coming(n)) /\ (RetryAhead(n)' => RetryAhead(n))
        BY <3>1 DEF Coming, SendAhead, SendInHand, Unserved, RetryAhead, RetryInHand,
                    RetryToPublish
      <3> QED
        BY <1>1, <1>5, <3>1, <3>2, FinalStays
    <2> QED
      BY <1>1, <2>1, <2>2, <2>3, <2>4, <2>5, <2>6, <2>7 DEF Next, PodStep
  <1> QED
    BY <1>1, <1>2, <1>3, <1>4, <1>5, RowWrites

\* Where the invariant holds, no step writes the outcome of a decided row.
LEMMA DecidedStep ==
    ASSUME TypeOK, FinalInv, [Next]_vars, Unhurried, NEW n \in Notif, Decided(n)
    PROVE  Steady(n)
  <1>1. Types /\ FinalOK(n)
    BY TypesOf DEF FinalInv
  <1>2. ~First(n) /\ ~IsRetryTarget(row[n]) /\ row[n].status # "ABSENT"
    BY DEF Decided, First, IsRetryTarget
  <1>3. \A p \in Pods : ~Handles(sender[p], n) /\ ~Handles(retrier[p], n)
    BY <1>1, <1>2 DEF FinalOK, Coming, SendAhead, SendInHand, RetryAhead, RetryInHand
  <1> QED
    BY <1>1, <1>2, <1>3, RowWrites

LEMMA InitFinal == Init => FinalInv
  <1> SUFFICES ASSUME Init, NEW n \in Notif
               PROVE  FinalOK(n)
    BY DEF FinalInv
  <1>1. Quiet(n)
    BY InitFresh DEF FreshInv, Init, StoreInit, NoRow
  <1> QED
    BY <1>1 DEF Quiet, FinalOK, Coming, SendAhead, SendInHand, RetryAhead, RetryInHand,
                RetryToPublish, Handles, Unserved

\* A notification that is COMPLETED or FAILED keeps its status and its number
\* of attempts for good, whatever Publish, the database, Redis or a provider do
\* wrong, as long as no pod dies or is stopped, no timer is overrun and nobody
\* asks for the past: the two updates that look at nothing
\* (RecordSendFailure and Update) never meet a row that was decided meanwhile.
THEOREM DecidedStaysDecided == Spec => DecidedIsFinal
  <1>1. Init => FreshInv /\ SendInv /\ LeaseInv /\ FinalInv
    BY InitFresh, InitSend, InitLease, InitFinal
  <1>2. TypeOK /\ ClaimsAreExclusive /\ FreshInv /\ SendInv /\ LeaseInv /\ [Next]_vars
           => FreshInv' /\ SendInv' /\ LeaseInv'
    <2>1. TypeOK /\ FreshInv /\ [Next]_vars => FreshInv'
      BY AbsentStep, RefusedStep DEF FreshInv
    <2> QED
      BY <2>1, SendStep, LeaseStep
  <1>3. TypeOK /\ FinalInv /\ [Next]_vars
           => [0 \notin Schedules /\ Spared({"crash", "stop", "late"}) =>
                 \A n \in Notif : Decided(n) => /\ row'[n].status = row[n].status
                                               /\ row'[n].attempts = row[n].attempts]_vars
    BY DecidedStep DEF Unhurried, Steady
  <1> QED
    BY <1>1, <1>2, <1>3, FinalStep, TypeCorrect, ClaimsExclusive,
       PTL DEF Spec, DecidedIsFinal

=============================================================================
