------------------------ MODULE ScheduledWorkerProofs ------------------------
(***************************************************************************)
(* Theorems about ScheduledWorker, for any rows, pods, instants, zones,    *)
(* batch and life of a key.                                                *)
(***************************************************************************)
EXTENDS ScheduledWorker, FiniteSetTheorems, TLAPS

LEMMA TypeInit == Init => TypeOK
BY BoundsAssumption DEF Init, TypeOK, Rows, NoRow, Passes, Ready

\* Moving a loop on.
LEMMA LoopType ==
    ASSUME pass \in [Pods -> Passes], NEW p \in Pods, NEW S \in SUBSET Notif, LoopOver(p, S)
    PROVE  /\ pass' \in [Pods -> Passes]
           /\ pass'[p].rows = S
           /\ \A q \in Pods : q # p => pass'[q] = pass[q]
<1>1. CASE S = {}
  <2>1. Over \in Passes /\ Over.rows = {}
    BY DEF Over, Passes
  <2>2. pass' = [pass EXCEPT ![p] = Over]
    BY <1>1 DEF LoopOver
  <2>3. QED
    BY <1>1, <2>1, <2>2
<1>2. CASE S # {}
  <2>1. [pc |-> "looping", rows |-> S] \in Passes
    BY DEF Passes
  <2>2. pass' = [pass EXCEPT ![p] = [pc |-> "looping", rows |-> S]]
    BY <1>2 DEF LoopOver
  <2>3. QED
    BY <2>1, <2>2
<1>3. QED
  BY <1>1, <1>2

\* What a request writes.
LEMMA EnqueueType ==
    ASSUME TypeOK, NEW n \in Notif, NEW at \in Instants, NEW zone \in Zones,
           Enqueue(n, at, zone)
    PROVE  /\ row'[n] = [status |-> "PENDING", at |-> at,
                         column |-> at + zone, createdAt |-> now]
           /\ row' \in [Notif -> Rows] /\ queue' \in [Notif -> Nat]
           /\ \A m \in Notif : m # n => row'[m] = row[m] /\ queue'[m] = queue[m]
<1>1. at \in Nat /\ at + zone \in Int /\ now \in Nat
  BY InstantsAssumption, BoundsAssumption DEF TypeOK
<1> DEFINE r == [status |-> "PENDING", at |-> at, column |-> at + zone,
                 createdAt |-> now]
<1>2. r \in Rows
  BY <1>1 DEF Rows
<1>3. row' = [row EXCEPT ![n] = r]
  BY DEF Enqueue
<1>4. queue' \in [Notif -> Nat] /\ \A m \in Notif : m # n => queue'[m] = queue[m]
  BY DEF Enqueue, Publish, TypeOK
<1> HIDE DEF r
<1>5. row'[n] = r /\ row' \in [Notif -> Rows]
      /\ \A m \in Notif : m # n => row'[m] = row[m]
  BY <1>2, <1>3 DEF TypeOK
<1>6. QED
  BY <1>4, <1>5 DEF r

\* Every step keeps the types of the variables.
LEMMA TypeStep == TypeOK /\ [Next]_vars => TypeOK'
<1> SUFFICES ASSUME TypeOK, [Next]_vars PROVE TypeOK'
  OBVIOUS
<1>0. now \in Nat /\ now' \in Nat => now + DedupTTL \in Nat
  BY TTLAssumption
<1>1. ASSUME Tick PROVE TypeOK'
  <2>1. Ready \in Passes
    BY DEF Ready, Passes
  <2>2. now' \in 0 .. Horizon
    BY <1>1, BoundsAssumption DEF Tick, TypeOK
  <2>3. QED
    BY <1>1, <2>1, <2>2 DEF Tick, TypeOK
<1>2. ASSUME NEW n \in Notif, Consume(n) PROVE TypeOK'
  <2>1. row' \in [Notif -> Rows]
    BY <1>2 DEF Consume, TypeOK, Rows
  <2>2. queue' \in [Notif -> Nat]
    BY <1>2 DEF Consume, TypeOK
  <2>3. losses' \in 0 .. MaxLosses
    BY <1>2, BoundsAssumption DEF Consume, TypeOK, Loss
  <2>4. QED
    BY <1>2, <2>1, <2>2, <2>3 DEF Consume, TypeOK
<1>3. ASSUME NEW n \in Notif, NEW at \in Instants, NEW zone \in Zones,
             Enqueue(n, at, zone)
      PROVE  TypeOK'
  BY <1>3, EnqueueType DEF Enqueue, TypeOK
<1>4. ASSUME NEW n \in Notif, NEW p \in Pods, Look(p, n) PROVE TypeOK'
  <2>1. pass' \in [Pods -> Passes]
    <3>1. pass[p].rows \ {n} \in SUBSET Notif
      BY DEF TypeOK, Passes
    <3>2. QED
      BY <1>4, <3>1, LoopType DEF Look, TypeOK
  <2>2. key' \in [Notif -> Nat]
    <3>1. now + DedupTTL \in Nat
      BY TTLAssumption, BoundsAssumption DEF TypeOK
    <3>2. QED
      BY <1>4, <3>1 DEF Look, TypeOK
  <2>3. queue' \in [Notif -> Nat]
    BY <1>4 DEF Look, Publish, TypeOK
  <2>4. losses' \in 0 .. MaxLosses
    BY <1>4, BoundsAssumption DEF Look, Loss, TypeOK
  <2>5. QED
    BY <1>4, <2>1, <2>2, <2>3, <2>4 DEF Look, TypeOK
<1>5. ASSUME NEW p \in Pods, Query(p) PROVE TypeOK'
  <2>1. PICK S \in SUBSET Notif : LoopOver(p, S)
    BY <1>5 DEF Query, OldestFirst, Due
  <2>2. pass' \in [Pods -> Passes]
    BY <2>1, LoopType DEF TypeOK
  <2>3. losses' \in 0 .. MaxLosses
    BY <1>5, BoundsAssumption DEF Query, Loss, TypeOK
  <2>4. QED
    BY <1>5, <2>2, <2>3 DEF Query, TypeOK
<1>6. ASSUME NEW p \in Pods, Crash(p) PROVE TypeOK'
  <2>1. pass' \in [Pods -> Passes]
    BY <1>6, LoopType DEF Crash, TypeOK
  <2>2. losses' \in 0 .. MaxLosses
    BY <1>6, BoundsAssumption DEF Crash, Loss, TypeOK
  <2>3. QED
    BY <1>6, <2>1, <2>2 DEF Crash, TypeOK
<1>7. CASE UNCHANGED vars
  BY <1>7 DEF vars, TypeOK
<1>8. QED
  BY <1>1, <1>2, <1>3, <1>4, <1>5, <1>6, <1>7 DEF Next

\* The clock, the rows, the queue and the passes always have their types.
THEOREM TypeCorrect == Spec => []TypeOK
<1>1. QED
  BY TypeInit, TypeStep, PTL DEF Spec

-----------------------------------------------------------------------------
(* No send before its time. *)

\* What a pass still has to look at was due when it was read, so it is due now;
\* and there is no message for a row that has not been written.
DueWhenRead ==
    \A p \in Pods : \A n \in pass[p].rows :
        row[n].status # "ABSENT" /\ row[n].column <= now

QueuedIsWritten == \A n \in Notif : queue[n] > 0 => row[n].status # "ABSENT"

ScheduleInv == TypeOK /\ NotBeforeSchedule /\ DueWhenRead /\ QueuedIsWritten

LEMMA ScheduleInit == Init => ScheduleInv
<1> SUFFICES ASSUME Init PROVE ScheduleInv
  OBVIOUS
<1>1. \A p \in Pods : pass[p].rows = {}
  BY DEF Init, Ready
<1>2. \A n \in Notif : queue[n] = 0 /\ row[n].status = "ABSENT"
  BY DEF Init, NoRow
<1>3. QED
  BY <1>1, <1>2, TypeInit
     DEF ScheduleInv, NotBeforeSchedule, Published, DueWhenRead, QueuedIsWritten

LEMMA EnqueueKeeps ==
    ASSUME ScheduleInv, TypeOK', NEW n \in Notif, NEW at \in Instants,
           NEW zone \in Zones, Enqueue(n, at, zone)
    PROVE  ScheduleInv'
<1>1. TypeOK /\ now' = now /\ pass' = pass /\ row[n].status = "ABSENT"
  BY DEF ScheduleInv, Enqueue
<1>2. /\ row'[n] = [status |-> "PENDING", at |-> at,
                    column |-> at + zone, createdAt |-> now]
      /\ \A m \in Notif : m # n => row'[m] = row[m] /\ queue'[m] = queue[m]
  BY <1>1, EnqueueType
<1>3. row'[n].status = "PENDING" /\ row'[n].at = at
  BY <1>2
<1>4. queue[n] = 0
  BY <1>1 DEF ScheduleInv, QueuedIsWritten, TypeOK
<1>5. queue'[n] > 0 => now >= at
  <2>1. at \in Nat /\ now \in Nat
    BY <1>1, InstantsAssumption DEF TypeOK
  <2>2. at > now => queue'[n] = 0
    BY <1>4 DEF Enqueue
  <2>3. QED
    BY <2>1, <2>2
<1>6. NotBeforeSchedule'
  <2> SUFFICES ASSUME NEW m \in Notif, Published(m)', (row[m].column >= row[m].at)'
               PROVE  (now >= row[m].at)'
    BY DEF NotBeforeSchedule
  <2>1. CASE m = n
    BY <1>1, <1>3, <1>5, <2>1 DEF Published
  <2>2. CASE m # n
    BY <1>1, <1>2, <2>2 DEF ScheduleInv, NotBeforeSchedule, Published
  <2>3. QED
    BY <2>1, <2>2
<1>7. DueWhenRead'
  <2> SUFFICES ASSUME NEW p \in Pods, NEW m \in pass[p].rows
               PROVE  (row[m].status # "ABSENT" /\ row[m].column <= now)'
    BY <1>1 DEF DueWhenRead
  <2>1. row[m].status # "ABSENT" /\ row[m].column <= now /\ m \in Notif
    BY <1>1 DEF ScheduleInv, DueWhenRead, TypeOK, Passes
  <2>2. QED
    BY <1>1, <1>2, <2>1
<1>8. QueuedIsWritten'
  BY <1>2, <1>3 DEF ScheduleInv, QueuedIsWritten
<1>9. QED
  BY <1>6, <1>7, <1>8 DEF ScheduleInv

\* One iteration publishes only what the pass has read as due.
LEMMA LookKeeps ==
    ASSUME ScheduleInv, TypeOK', NEW n \in Notif, NEW p \in Pods, Look(p, n)
    PROVE  ScheduleInv'
<1>1. TypeOK /\ now' = now /\ row' = row /\ n \in pass[p].rows
  BY DEF ScheduleInv, Look
<1>2. row[n].status # "ABSENT" /\ row[n].column <= now
  BY <1>1 DEF ScheduleInv, DueWhenRead
<1>3. \A m \in Notif : m # n => queue'[m] = queue[m]
  BY <1>1 DEF Look, Publish, TypeOK
<1>4. NotBeforeSchedule'
  <2> SUFFICES ASSUME NEW m \in Notif, Published(m)', row[m].column >= row[m].at
               PROVE  now >= row[m].at
    BY <1>1 DEF NotBeforeSchedule
  <2>1. CASE m = n
    <3>1. row[n].column \in Int /\ row[n].at \in Int /\ now \in Int
      BY <1>1 DEF TypeOK, Rows
    <3>2. QED
      BY <1>2, <2>1, <3>1
  <2>2. CASE m # n
    BY <1>1, <1>3, <2>2 DEF ScheduleInv, NotBeforeSchedule, Published
  <2>3. QED
    BY <2>1, <2>2
<1>5. DueWhenRead'
  <2>1. /\ pass'[p].rows = pass[p].rows \ {n}
        /\ \A q \in Pods : q # p => pass'[q] = pass[q]
    <3>1. pass[p].rows \ {n} \in SUBSET Notif
      BY <1>1 DEF TypeOK, Passes
    <3>2. QED
      BY <1>1, <3>1, LoopType DEF Look, TypeOK
  <2>2. \A q \in Pods : pass'[q].rows \subseteq pass[q].rows
    BY <2>1
  <2>3. QED
    BY <1>1, <2>2 DEF ScheduleInv, DueWhenRead
<1>6. QueuedIsWritten'
  BY <1>1, <1>2, <1>3 DEF ScheduleInv, QueuedIsWritten
<1>7. QED
  BY <1>4, <1>5, <1>6 DEF ScheduleInv

LEMMA QueryKeeps ==
    ASSUME ScheduleInv, TypeOK', NEW p \in Pods, Query(p) \/ Crash(p)
    PROVE  ScheduleInv'
<1>1. TypeOK /\ now' = now /\ row' = row /\ queue' = queue
  BY DEF ScheduleInv, Query, Crash
<1>2. PICK S \in SUBSET Due : LoopOver(p, S)
  BY DEF Query, Crash, OldestFirst
<1>3. S \in SUBSET Notif
  BY <1>2 DEF Due
<1>4. pass'[p].rows = S /\ \A q \in Pods : q # p => pass'[q] = pass[q]
  BY <1>1, <1>2, <1>3, LoopType DEF TypeOK
<1>5. DueWhenRead'
  <2> SUFFICES ASSUME NEW q \in Pods, NEW n \in pass'[q].rows
               PROVE  row[n].status # "ABSENT" /\ row[n].column <= now
    BY <1>1 DEF DueWhenRead
  <2>1. CASE q = p
    <3>1. n \in Due
      BY <1>2, <1>4, <2>1
    <3>2. QED
      BY <3>1 DEF Due
  <2>2. CASE q # p
    BY <1>4, <2>2 DEF ScheduleInv, DueWhenRead
  <2>3. QED
    BY <2>1, <2>2
<1>6. NotBeforeSchedule' /\ QueuedIsWritten'
  BY <1>1 DEF ScheduleInv, NotBeforeSchedule, Published, QueuedIsWritten
<1>7. QED
  BY <1>5, <1>6 DEF ScheduleInv

\* A row whose message is consumed had been published already.
LEMMA ConsumeKeeps ==
    ASSUME ScheduleInv, TypeOK', NEW n \in Notif, Consume(n)
    PROVE  ScheduleInv'
<1>1. TypeOK /\ now' = now /\ pass' = pass /\ queue[n] > 0
  BY DEF ScheduleInv, Consume
<1>2. \A m \in Notif : /\ row'[m].at = row[m].at /\ row'[m].column = row[m].column
                       /\ row[m].status # "ABSENT" => row'[m].status # "ABSENT"
                       /\ m # n => row'[m] = row[m] /\ queue'[m] = queue[m]
  BY <1>1 DEF Consume, TypeOK, Rows
<1>3. \A m \in Notif : Published(m)' => Published(m)
  BY <1>1, <1>2 DEF Published
<1>4. NotBeforeSchedule'
  BY <1>1, <1>2, <1>3 DEF ScheduleInv, NotBeforeSchedule
<1>5. DueWhenRead'
  <2> SUFFICES ASSUME NEW p \in Pods, NEW m \in pass[p].rows
               PROVE  (row[m].status # "ABSENT" /\ row[m].column <= now)'
    BY <1>1 DEF DueWhenRead
  <2>1. row[m].status # "ABSENT" /\ row[m].column <= now /\ m \in Notif
    BY <1>1 DEF ScheduleInv, DueWhenRead, TypeOK, Passes
  <2>2. QED
    BY <1>1, <1>2, <2>1
<1>6. QueuedIsWritten'
  <2> SUFFICES ASSUME NEW m \in Notif, queue'[m] > 0 PROVE row'[m].status # "ABSENT"
    BY DEF QueuedIsWritten
  <2>1. queue[m] > 0
    BY <1>1, <1>2
  <2>2. QED
    BY <1>2, <2>1 DEF ScheduleInv, QueuedIsWritten
<1>7. QED
  BY <1>4, <1>5, <1>6 DEF ScheduleInv

LEMMA TickKeeps == ASSUME ScheduleInv, TypeOK', Tick PROVE ScheduleInv'
<1>1. TypeOK /\ now' = now + 1 /\ row' = row /\ queue' = queue
  BY DEF ScheduleInv, Tick
<1>2. now \in Int /\ \A n \in Notif : row[n].at \in Int
  BY <1>1 DEF TypeOK, Rows
<1>3. NotBeforeSchedule'
  BY <1>1, <1>2 DEF ScheduleInv, NotBeforeSchedule, Published
<1>4. DueWhenRead'
  BY DEF Tick, DueWhenRead, Ready
<1>5. QueuedIsWritten'
  BY <1>1 DEF ScheduleInv, QueuedIsWritten
<1>6. QED
  BY <1>3, <1>4, <1>5 DEF ScheduleInv

LEMMA ScheduleStep == ScheduleInv /\ [Next]_vars => ScheduleInv'
<1> SUFFICES ASSUME ScheduleInv, [Next]_vars PROVE ScheduleInv'
  OBVIOUS
<1>0. TypeOK'
  BY TypeStep DEF ScheduleInv
<1>1. CASE UNCHANGED vars
  BY <1>1 DEF vars, ScheduleInv, TypeOK, NotBeforeSchedule, Published,
              DueWhenRead, QueuedIsWritten
<1>2. CASE Next
  BY <1>0, <1>2, EnqueueKeeps, LookKeeps, QueryKeeps, ConsumeKeeps, TickKeeps DEF Next
<1>3. QED
  BY <1>1, <1>2

\* Nothing is sent before the instant that its client meant, unless its client
\* wrote it in a zone west of Greenwich: the query reads the column, and a pass
\* that reads the row and dies, stops or is late only makes the send later.
THEOREM SentOnlyWhenDue == Spec => []NotBeforeSchedule
<1>1. Spec => []ScheduleInv
  BY ScheduleInit, ScheduleStep, PTL DEF Spec
<1>2. ScheduleInv => NotBeforeSchedule
  BY DEF ScheduleInv
<1>3. QED
  BY <1>1, <1>2, PTL

-----------------------------------------------------------------------------
(* How long a row can wait.                                                *)
(* An account is kept for each notification n that has never been          *)
(* published.  Every tick that n is overdue costs it the places of a       *)
(* batch.  They are covered by the rows that have been sent, and by the    *)
(* places that failures were allowed to take, of which the rows that still *)
(* hold a key have not used up all.                                        *)

Waiting(n) == row[n].status # "DONE" /\ key[n] = 0

Overdue(n) ==
    IF row[n].status = "ABSENT" \/ FoundAt(n) > now THEN 0 ELSE now - FoundAt(n)

\* The other rows that have been sent, and those that a key keeps in the query.
Settled(n) == {m \in Notif \ {n} : row[m].status = "DONE"}
Held(n) == {m \in Notif \ {n} : row[m].status = "PENDING" /\ key[m] > now}

\* The places that rows whose messages are gone will still fill.
Owed(n) ==
    {o \in Notif \X (now + 1 .. now + DedupTTL) :
        o[1] \in Held(n) /\ queue[o[1]] = 0 /\ o[2] <= key[o[1]]}

Credit == losses * PlacesLost

\* Up to this tick, the account is covered.
Covered(n) ==
    ScheduledBatch * Overdue(n) + Cardinality(Owed(n))
        <= Cardinality(Settled(n)) + Credit

\* So it is for this tick, once p has found rows in it that are not n: they are
\* settled, or held, or p will come to them.
Turn(n, p) ==
    /\ pass[p].pc # "ready" /\ n \notin pass[p].rows
    /\ row[n].status # "ABSENT" /\ FoundAt(n) <= now
    => ScheduledBatch * (Overdue(n) + 1) + Cardinality(Owed(n))
        <= Cardinality(Settled(n) \union Held(n) \union pass[p].rows) + Credit

\* A key lives no longer than DedupTTL, and is set for rows only.
KeysInv ==
    \A n \in Notif : /\ key[n] <= now + DedupTTL
                     /\ row[n].status = "ABSENT" => key[n] = 0

WaitInv ==
    /\ ScheduleInv
    /\ KeysInv
    /\ \A n \in Notif : Waiting(n) => Covered(n) /\ \A p \in Pods : Turn(n, p)

\* Everything counted is finite.
Finite ==
    \A n \in Notif :
        /\ IsFiniteSet(Settled(n)) /\ IsFiniteSet(Held(n)) /\ IsFiniteSet(Owed(n))
        /\ Cardinality(Settled(n)) \in Nat /\ Cardinality(Held(n)) \in Nat
        /\ Cardinality(Owed(n)) \in Nat
        /\ \A p \in Pods :
            /\ IsFiniteSet(Settled(n) \union Held(n) \union pass[p].rows)
            /\ Cardinality(Settled(n) \union Held(n) \union pass[p].rows) \in Nat

LEMMA Counts == TypeOK => Finite
<1> SUFFICES ASSUME TypeOK, NEW n \in Notif
             PROVE
        /\ IsFiniteSet(Settled(n)) /\ IsFiniteSet(Held(n)) /\ IsFiniteSet(Owed(n))
        /\ Cardinality(Settled(n)) \in Nat /\ Cardinality(Held(n)) \in Nat
        /\ Cardinality(Owed(n)) \in Nat
        /\ \A p \in Pods :
            /\ IsFiniteSet(Settled(n) \union Held(n) \union pass[p].rows)
            /\ Cardinality(Settled(n) \union Held(n) \union pass[p].rows) \in Nat
  BY DEF Finite
<1>1. now + 1 \in Int /\ now + DedupTTL \in Int
  BY TTLAssumption, BoundsAssumption DEF TypeOK
<1>2. IsFiniteSet(now + 1 .. now + DedupTTL)
  BY <1>1, FS_Interval
<1>3. IsFiniteSet(Notif \X (now + 1 .. now + DedupTTL))
  BY <1>2, NotifAssumption, FS_Product
<1>4. Owed(n) \in SUBSET (Notif \X (now + 1 .. now + DedupTTL))
  BY DEF Owed
<1>5. /\ Settled(n) \in SUBSET Notif /\ Held(n) \in SUBSET Notif
      /\ \A p \in Pods : (Settled(n) \union Held(n) \union pass[p].rows) \in SUBSET Notif
  BY DEF Settled, Held, TypeOK, Passes
<1>6. IsFiniteSet(Owed(n))
  BY <1>3, <1>4, FS_Subset
<1>7. /\ IsFiniteSet(Settled(n)) /\ IsFiniteSet(Held(n))
      /\ \A p \in Pods : IsFiniteSet(Settled(n) \union Held(n) \union pass[p].rows)
  BY <1>5, NotifAssumption, FS_Subset
<1>8. QED
  BY <1>6, <1>7, FS_CardinalityType

\* The numbers of the account.
LEMMA Numbers ==
    ASSUME TypeOK
    PROVE  /\ PlacesLost \in Nat /\ PlacesLost >= DedupTTL /\ PlacesLost >= ScheduledBatch
           /\ DedupTTL \in Nat /\ ScheduledBatch \in Nat
           /\ Credit \in Nat
           /\ \A k \in Nat : (k + 1) * PlacesLost = k * PlacesLost + PlacesLost
           /\ \A n \in Notif : /\ Overdue(n) \in Nat /\ FoundAt(n) \in Int
                               /\ ScheduledBatch * Overdue(n) \in Nat
                               /\ ScheduledBatch * (Overdue(n) + 1)
                                    = ScheduledBatch * Overdue(n) + ScheduledBatch
<1>1. /\ PlacesLost \in Nat /\ PlacesLost >= DedupTTL /\ PlacesLost >= ScheduledBatch
      /\ DedupTTL \in Nat /\ ScheduledBatch \in Nat
  BY BatchAssumption, TTLAssumption DEF PlacesLost
<1>2. \A a, b \in Nat : a * b \in Nat /\ (a + 1) * b = a * b + b /\ b * (a + 1) = b * a + b
  OBVIOUS
<1>3. losses \in Nat /\ now \in Nat
  BY BoundsAssumption DEF TypeOK
<1>4. \A n \in Notif : Overdue(n) \in Nat /\ FoundAt(n) \in Int
  <2> SUFFICES ASSUME NEW n \in Notif PROVE Overdue(n) \in Nat /\ FoundAt(n) \in Int
    OBVIOUS
  <2>1. row[n].column \in Int /\ row[n].createdAt \in Nat
    BY DEF TypeOK, Rows
  <2>2. FoundAt(n) \in Int
    BY <2>1 DEF FoundAt
  <2>3. QED
    BY <1>3, <2>2 DEF Overdue
<1>5. Credit \in Nat
  BY <1>1, <1>2, <1>3 DEF Credit
<1>6. \A n \in Notif : ScheduledBatch * Overdue(n) \in Nat
  BY <1>1, <1>2, <1>4
<1>7. QED
  BY <1>1, <1>2, <1>4, <1>5, <1>6

\* A failure pays in PlacesLost.
LEMMA LossPays ==
    ASSUME TypeOK, losses' = losses + 1
    PROVE  Credit' = Credit + PlacesLost
<1>1. losses \in Nat
  BY BoundsAssumption DEF TypeOK
<1>2. QED
  BY <1>1, Numbers DEF Credit, PlacesLost

\* One more row whose message is gone owes no more than the life of a key.
LEMMA OwedGrows ==
    ASSUME TypeOK, TypeOK', NEW n \in Notif, NEW m \in Notif, now' = now,
           Owed(n)' \subseteq Owed(n) \union ({m} \X (now + 1 .. now + DedupTTL))
    PROVE  Cardinality(Owed(n)') <= Cardinality(Owed(n)) + DedupTTL
<1> DEFINE I == now + 1 .. now + DedupTTL
           O == Owed(n)
           P == {m} \X I
           N == Owed(n)'
<1>1. now \in Nat /\ DedupTTL \in Nat /\ DedupTTL > 0
  BY TTLAssumption, BoundsAssumption DEF TypeOK
<1>2. IsFiniteSet(I) /\ Cardinality(I) = DedupTTL
  BY <1>1, FS_Interval
<1>3. IsFiniteSet({m}) /\ Cardinality({m}) = 1
  BY FS_Singleton
<1>4. IsFiniteSet(P) /\ Cardinality(P) = DedupTTL
  <2> HIDE DEF I
  <2>1. IsFiniteSet({m} \X I) /\ Cardinality({m} \X I) = Cardinality({m}) * Cardinality(I)
    BY <1>2, <1>3, FS_Product
  <2>2. QED
    BY <1>1, <1>2, <1>3, <2>1
<1>5. IsFiniteSet(O) /\ Cardinality(O) \in Nat
  BY Counts DEF Finite
<1>6. N \in SUBSET (O \union P)
  OBVIOUS
<1> HIDE DEF O, P, N
<1>7. /\ IsFiniteSet(O \union P)
      /\ Cardinality(O \union P) = Cardinality(O) + Cardinality(P) - Cardinality(O \cap P)
  BY <1>4, <1>5, FS_Union
<1>8. Cardinality(O \cap P) \in Nat
  <2>1. IsFiniteSet(O \cap P)
    BY <1>5, FS_Subset
  <2>2. QED
    BY <2>1, FS_CardinalityType
<1>9. IsFiniteSet(N) /\ Cardinality(N) <= Cardinality(O \union P)
  BY <1>6, <1>7, FS_Subset
<1>10. Cardinality(N) \in Nat
  BY <1>9, FS_CardinalityType
<1>11. QED
  BY <1>1, <1>4, <1>5, <1>7, <1>8, <1>9, <1>10 DEF O, N

-----------------------------------------------------------------------------

\* Within a tick: either nothing more is owed, or a failure pays for one key.
Pays(n) ==
    \/ losses' = losses /\ Owed(n)' \subseteq Owed(n)
    \/ /\ losses' = losses + 1
       /\ \E m \in Notif :
            Owed(n)' \subseteq Owed(n) \union ({m} \X (now + 1 .. now + DedupTTL))

\* Then what is owed and what is allowed grow by the same at least.
LEMMA Balance ==
    ASSUME TypeOK, TypeOK', NEW n \in Notif, now' = now, Pays(n)
    PROVE  /\ Credit \in Nat /\ Credit' \in Nat
           /\ Cardinality(Owed(n)) \in Nat /\ Cardinality(Owed(n)') \in Nat
           /\ Cardinality(Owed(n)') + Credit <= Cardinality(Owed(n)) + Credit'
<1>1. Finite /\ Finite'
  BY Counts, PTL
<1>2. Cardinality(Owed(n)) \in Nat /\ Cardinality(Owed(n)') \in Nat
  BY <1>1 DEF Finite
<1>3. /\ Credit \in Nat /\ PlacesLost \in Nat
      /\ PlacesLost >= DedupTTL /\ DedupTTL \in Nat
  BY Numbers
<1>4. CASE losses' = losses /\ Owed(n)' \subseteq Owed(n)
  <2>1. Credit' = Credit
    BY <1>4 DEF Credit, PlacesLost
  <2>2. Cardinality(Owed(n)') <= Cardinality(Owed(n))
    BY <1>1, <1>4, FS_Subset DEF Finite
  <2>3. QED
    BY <1>2, <1>3, <2>1, <2>2
<1>5. ASSUME losses' = losses + 1, NEW m \in Notif,
             Owed(n)' \subseteq Owed(n) \union ({m} \X (now + 1 .. now + DedupTTL))
      PROVE  Credit' \in Nat
             /\ Cardinality(Owed(n)') + Credit <= Cardinality(Owed(n)) + Credit'
  <2>1. Credit' = Credit + PlacesLost
    BY <1>5, LossPays
  <2>2. Cardinality(Owed(n)') <= Cardinality(Owed(n)) + DedupTTL
    BY <1>5, OwedGrows
  <2>3. QED
    BY <1>2, <1>3, <2>1, <2>2
<1>6. QED
  BY <1>2, <1>3, <1>4, <1>5 DEF Pays

\* A row that the step leaves as it is stays covered.
LEMMA CoveredStays ==
    ASSUME TypeOK, TypeOK', NEW n \in Notif, Covered(n), now' = now,
           Overdue(n)' = Overdue(n), Settled(n) \subseteq Settled(n)', Pays(n)
    PROVE  Covered(n)'
<1>1. Finite /\ Finite'
  BY Counts, PTL
<1>2. Cardinality(Settled(n)) <= Cardinality(Settled(n)')
      /\ Cardinality(Settled(n)) \in Nat /\ Cardinality(Settled(n)') \in Nat
  BY <1>1, FS_Subset DEF Finite
<1>3. ScheduledBatch * Overdue(n) \in Nat
  BY Numbers
<1> DEFINE x == ScheduledBatch * Overdue(n)
<1>4. x' = x
  OBVIOUS
<1>5. x + Cardinality(Owed(n)) <= Cardinality(Settled(n)) + Credit
  BY DEF Covered
<1> HIDE DEF x
<1>6. x' + Cardinality(Owed(n)') <= Cardinality(Settled(n)') + Credit'
  BY <1>2, <1>3, <1>4, <1>5, Balance DEF x
<1>7. QED
  BY <1>6 DEF Covered, x

\* The same for the turn of p, if the rows it had to come to are settled or held.
LEMMA TurnStays ==
    ASSUME TypeOK, TypeOK', NEW n \in Notif, NEW p \in Pods, Turn(n, p), now' = now,
           Overdue(n)' = Overdue(n), FoundAt(n)' = FoundAt(n), Pays(n),
           row[n].status = "ABSENT" => row'[n].status = "ABSENT",
           n \in pass[p].rows => n \in pass'[p].rows,
           pass[p].pc = "ready" => pass'[p].pc = "ready",
           (Settled(n) \union Held(n) \union pass[p].rows)
                \subseteq (Settled(n) \union Held(n) \union pass[p].rows)'
    PROVE  Turn(n, p)'
<1> DEFINE F == Settled(n) \union Held(n) \union pass[p].rows
           x == ScheduledBatch * (Overdue(n) + 1)
<1>1. Finite /\ Finite'
  BY Counts, PTL
<1>2. Cardinality(F) <= Cardinality(F') /\ Cardinality(F) \in Nat /\ Cardinality(F') \in Nat
  BY <1>1, FS_Subset DEF Finite
<1>3. x \in Nat /\ x' = x
  BY Numbers
<1> SUFFICES ASSUME (pass[p].pc # "ready" /\ n \notin pass[p].rows
                        /\ row[n].status # "ABSENT" /\ FoundAt(n) <= now)'
             PROVE  (x + Cardinality(Owed(n)) <= Cardinality(F) + Credit)'
  BY DEF Turn
<1>4. x + Cardinality(Owed(n)) <= Cardinality(F) + Credit
  BY DEF Turn
<1> HIDE DEF x, F
<1>5. QED
  BY <1>2, <1>3, <1>4, Balance

\* A failure that leaves nothing more to owe pays for the turn of every pod.
LEMMA LossPaysTurn ==
    ASSUME TypeOK, TypeOK', NEW n \in Notif, NEW p \in Pods, Covered(n), now' = now,
           Overdue(n)' = Overdue(n), Settled(n) \subseteq Settled(n)',
           losses' = losses + 1, Owed(n)' \subseteq Owed(n)
    PROVE  Turn(n, p)'
<1> DEFINE F == Settled(n) \union Held(n) \union pass[p].rows
           x == ScheduledBatch * Overdue(n)
           y == ScheduledBatch * (Overdue(n) + 1)
<1>1. Finite /\ Finite'
  BY Counts, PTL
<1>2. Settled(n) \subseteq F'
  OBVIOUS
<1>3. /\ Cardinality(Settled(n)) <= Cardinality(F')
      /\ Cardinality(Settled(n)) \in Nat /\ Cardinality(F') \in Nat
  BY <1>1, <1>2, FS_Subset DEF Finite
<1>4. /\ Cardinality(Owed(n)') <= Cardinality(Owed(n))
      /\ Cardinality(Owed(n)) \in Nat /\ Cardinality(Owed(n)') \in Nat
  BY <1>1, FS_Subset DEF Finite
<1>5. /\ x \in Nat /\ y = x + ScheduledBatch /\ y' = y
      /\ Credit \in Nat /\ PlacesLost >= ScheduledBatch
      /\ PlacesLost \in Nat /\ ScheduledBatch \in Nat
  BY Numbers
<1>6. Credit' = Credit + PlacesLost
  BY LossPays
<1>7. x + Cardinality(Owed(n)) <= Cardinality(Settled(n)) + Credit
  BY DEF Covered
<1> HIDE DEF x, y, F
<1>8. (y + Cardinality(Owed(n)) <= Cardinality(F) + Credit)'
  BY <1>3, <1>4, <1>5, <1>6, <1>7
<1>9. QED
  BY <1>8 DEF Turn, y, F

\* A row that is left as it is is overdue as before.
LEMMA SameRow ==
    ASSUME NEW n \in Notif, row'[n] = row[n], now' = now
    PROVE  Overdue(n)' = Overdue(n) /\ FoundAt(n)' = FoundAt(n)
BY DEF Overdue, FoundAt

Account(n) == Covered(n) /\ \A p \in Pods : Turn(n, p)

\* A message that is consumed settles its row, or a failure pays for its key.
LEMMA ConsumeAccount ==
    ASSUME WaitInv, TypeOK', NEW c \in Notif, Consume(c), NEW n \in Notif, Waiting(n)'
    PROVE  Account(n)'
<1>1. TypeOK /\ now' = now /\ pass' = pass /\ key' = key
  BY DEF WaitInv, ScheduleInv, Consume
<1>2. /\ \A m \in Notif : m # c => row'[m] = row[m] /\ queue'[m] = queue[m]
      /\ row' = row \/ row'[c].status = "DONE"
  BY <1>1 DEF Consume, TypeOK, Rows
<1>3. row'[n] = row[n] /\ Waiting(n)
  BY <1>1, <1>2 DEF Waiting
<1>4. Overdue(n)' = Overdue(n) /\ FoundAt(n)' = FoundAt(n)
  BY <1>1, <1>3, SameRow
<1>5. Settled(n) \subseteq Settled(n)'
  BY <1>2 DEF Settled
<1>6. Held(n) \subseteq (Settled(n) \union Held(n))'
  BY <1>1, <1>2 DEF Settled, Held
<1>7. Pays(n)
  <2> DEFINE I == now + 1 .. now + DedupTTL
  <2>1. CASE row'[c].status = "DONE" /\ UNCHANGED losses
    <3>1. Held(n)' \subseteq Held(n) \ {c}
      BY <1>1, <1>2, <2>1 DEF Held
    <3>2. Owed(n)' \subseteq Owed(n)
      BY <1>1, <1>2, <3>1 DEF Owed
    <3>3. QED
      BY <2>1, <3>2 DEF Pays
  <2>2. CASE row' = row /\ Loss
    <3>1. Held(n)' = Held(n)
      BY <1>1, <2>2 DEF Held
    <3>2. Owed(n)' \subseteq Owed(n) \union ({c} \X I)
      <4> SUFFICES ASSUME NEW o \in Notif \X I, o[1] \in Held(n), o[2] <= key[o[1]],
                          queue'[o[1]] = 0, o[1] # c
                   PROVE  o \in Owed(n)
        BY <1>1, <3>1 DEF Owed
      <4>1. queue[o[1]] = 0
        BY <1>2
      <4>2. QED
        BY <4>1 DEF Owed
    <3>3. QED
      BY <2>2, <3>2 DEF Pays, Loss
  <2>3. row' = [row EXCEPT ![c].status = "DONE"] => row'[c].status = "DONE"
    BY <1>1 DEF TypeOK, Rows
  <2>4. QED
    BY <2>1, <2>2, <2>3 DEF Consume
<1>8. Covered(n)'
  BY <1>1, <1>3, <1>4, <1>5, <1>7, CoveredStays DEF WaitInv
<1>9. ASSUME NEW p \in Pods PROVE Turn(n, p)'
  <2>1. Turn(n, p)
    BY <1>3 DEF WaitInv
  <2>2. (Settled(n) \union Held(n) \union pass[p].rows)
            \subseteq (Settled(n) \union Held(n) \union pass[p].rows)'
    BY <1>1, <1>5, <1>6
  <2>3. QED
    BY <1>1, <1>3, <1>4, <1>7, <2>1, <2>2, TurnStays
<1>10. QED
  BY <1>8, <1>9 DEF Account

\* A new row is not overdue yet, and is nobody's burden.
LEMMA EnqueueAccount ==
    ASSUME WaitInv, TypeOK', NEW c \in Notif, NEW at \in Instants, NEW zone \in Zones,
           Enqueue(c, at, zone), NEW n \in Notif, Waiting(n)'
    PROVE  Account(n)'
<1>1. /\ TypeOK /\ now' = now /\ pass' = pass /\ key' = key /\ losses' = losses
      /\ row[c].status = "ABSENT" /\ key[c] = 0 /\ now \in Nat
  BY DEF WaitInv, ScheduleInv, Enqueue, KeysInv, TypeOK
<1>2. /\ row'[c] = [status |-> "PENDING", at |-> at,
                    column |-> at + zone, createdAt |-> now]
      /\ \A m \in Notif : m # c => row'[m] = row[m] /\ queue'[m] = queue[m]
  BY <1>1, EnqueueType
<1>3. row'[c].status = "PENDING" /\ row'[c].column = at + zone /\ row'[c].createdAt = now
  BY <1>2
<1>4. Settled(n)' = Settled(n)
  BY <1>1, <1>2, <1>3 DEF Settled
<1>5. Held(n)' = Held(n) /\ c \notin Held(n)
  BY <1>1, <1>2, <1>3 DEF Held
<1>6. Owed(n)' \subseteq Owed(n)
  BY <1>1, <1>2, <1>5 DEF Owed
<1>7. Pays(n)
  BY <1>1, <1>6 DEF Pays
<1>8. Waiting(n)
  BY <1>1, <1>2 DEF Waiting
<1>9. Overdue(n)' = Overdue(n)
  <2>1. CASE n = c
    <3>1. Overdue(n) = 0
      BY <1>1, <2>1 DEF Overdue
    <3>2. FoundAt(n)' > now
      <4>1. at + zone \in Int
        BY InstantsAssumption
      <4>2. QED
        BY <1>1, <1>3, <2>1, <4>1 DEF FoundAt
    <3>3. QED
      BY <1>1, <3>1, <3>2 DEF Overdue
  <2>2. CASE n # c
    BY <1>1, <1>2, <2>2, SameRow
  <2>3. QED
    BY <2>1, <2>2
<1>10. Covered(n)'
  BY <1>1, <1>4, <1>7, <1>8, <1>9, CoveredStays DEF WaitInv
<1>11. ASSUME NEW p \in Pods PROVE Turn(n, p)'
  <2>1. CASE n = c
    <3>1. at + zone \in Int
      BY InstantsAssumption
    <3>2. (FoundAt(n) > now)' /\ FoundAt(n)' \in Int
      BY <1>1, <1>3, <2>1, <3>1 DEF FoundAt
    <3>3. QED
      BY <1>1, <3>2 DEF Turn
  <2>2. CASE n # c
    <3>1. Turn(n, p) /\ row'[n] = row[n]
      BY <1>2, <1>8, <2>2 DEF WaitInv
    <3>2. FoundAt(n)' = FoundAt(n)
      BY <1>1, <3>1, SameRow
    <3>3. QED
      BY <1>1, <1>4, <1>5, <1>7, <1>9, <3>1, <3>2, TurnStays
  <2>3. QED
    BY <2>1, <2>2
<1>12. QED
  BY <1>10, <1>11 DEF Account

\* Looking at a row settles nothing, but a row whose key is free gets one, or a
\* failure pays.
LEMMA LookAccount ==
    ASSUME WaitInv, TypeOK', NEW c \in Notif, NEW q \in Pods, Look(q, c),
           NEW n \in Notif, Waiting(n)'
    PROVE  Account(n)'
<1> DEFINE I == now + 1 .. now + DedupTTL
<1>1. /\ TypeOK /\ now' = now /\ row' = row /\ now \in Nat
      /\ c \in pass[q].rows /\ pass[q].pc = "looping"
  BY BoundsAssumption DEF WaitInv, ScheduleInv, Look, TypeOK
<1>2. row[c].status \in {"PENDING", "DONE"}
  BY <1>1 DEF WaitInv, ScheduleInv, DueWhenRead, TypeOK, Rows
<1>3. /\ \A m \in Notif : m # c => key'[m] = key[m] /\ queue'[m] = queue[m]
      /\ key'[c] = key[c] \/ key'[c] = now + DedupTTL
  BY <1>1 DEF Look, Publish, TypeOK
<1>4. /\ pass'[q].rows = pass[q].rows \ {c}
      /\ \A p \in Pods : p # q => pass'[p] = pass[p]
  <2>1. pass[q].rows \ {c} \in SUBSET Notif
    BY <1>1 DEF TypeOK, Passes
  <2>2. QED
    BY <1>1, <2>1, LoopType DEF Look, TypeOK
<1>5. row'[n] = row[n] /\ Overdue(n)' = Overdue(n) /\ FoundAt(n)' = FoundAt(n)
  BY <1>1, SameRow
<1>6. now + DedupTTL > now /\ now + DedupTTL \in Nat
  BY <1>1, TTLAssumption
<1>7. key'[n] = 0 /\ key[n] = 0
  BY <1>1, <1>3, <1>6 DEF Waiting
<1>8. Covered(n) /\ \A p \in Pods : Turn(n, p)
  BY <1>1, <1>7 DEF WaitInv, Waiting
<1>9. Settled(n)' = Settled(n)
  BY <1>1 DEF Settled
<1>10. Held(n) \subseteq Held(n)' /\ Held(n)' \subseteq Held(n) \union {c}
  <2>1. key[c] \in Nat /\ (key'[c] = key[c] \/ key'[c] > now)
    BY <1>1, <1>3, <1>6 DEF TypeOK
  <2>2. QED
    BY <1>1, <1>3, <2>1 DEF Held
<1>11. Held(n)' = Held(n) /\ key' = key /\ queue' = queue => Owed(n)' = Owed(n)
  BY <1>1 DEF Owed
<1>12. CASE c # n /\ Pays(n) /\ key'[c] > now
  <2>1. c \in (Settled(n) \union Held(n))'
    BY <1>1, <1>2, <1>12 DEF Settled, Held
  <2>2. ASSUME NEW p \in Pods
        PROVE  (Settled(n) \union Held(n) \union pass[p].rows)
                    \subseteq (Settled(n) \union Held(n) \union pass[p].rows)'
    BY <1>4, <1>9, <1>10, <2>1
  <2>3. ASSUME NEW p \in Pods
        PROVE  /\ n \in pass[p].rows => n \in pass'[p].rows
               /\ pass[p].pc = "ready" => pass'[p].pc = "ready"
    BY <1>1, <1>4, <1>12
  <2>4. \A p \in Pods : Turn(n, p)'
    BY <1>1, <1>5, <1>8, <1>12, <2>2, <2>3, TurnStays
  <2>5. Covered(n)'
    BY <1>1, <1>5, <1>8, <1>9, <1>12, CoveredStays
  <2>6. QED
    BY <2>4, <2>5 DEF Account
<1>13. CASE key' = key /\ queue' = queue /\ Loss
  <2>1. Held(n)' = Held(n)
    BY <1>1, <1>13 DEF Held
  <2>2. Owed(n)' \subseteq Owed(n) /\ losses' = losses + 1 /\ Pays(n)
    BY <1>11, <1>13, <2>1 DEF Loss, Pays
  <2>3. \A p \in Pods : Turn(n, p)'
    BY <1>1, <1>5, <1>8, <1>9, <2>2, LossPaysTurn
  <2>4. Covered(n)'
    BY <1>1, <1>5, <1>8, <1>9, <2>2, CoveredStays
  <2>5. QED
    BY <2>3, <2>4 DEF Account
<1>14. CASE key[c] > now /\ UNCHANGED <<key, queue, losses>>
  <2>1. Held(n)' = Held(n)
    BY <1>1, <1>14 DEF Held
  <2>2. Pays(n) /\ c # n /\ key'[c] > now
    BY <1>1, <1>7, <1>11, <1>14, <2>1 DEF Pays
  <2>3. QED
    BY <1>12, <2>2
<1>15. CASE /\ key' = [key EXCEPT ![c] = now + DedupTTL]
            /\ Publish(c) /\ UNCHANGED losses
  <2>1. key'[c] = now + DedupTTL /\ queue'[c] # 0
    BY <1>1, <1>15 DEF Publish, TypeOK
  <2>2. c # n /\ key'[c] > now
    BY <1>1, <1>6, <1>7, <2>1
  <2>3. Owed(n)' \subseteq Owed(n)
    BY <1>1, <1>3, <1>10, <2>1 DEF Owed
  <2>4. QED
    BY <1>12, <1>15, <2>2, <2>3 DEF Pays
<1>16. CASE /\ key' = [key EXCEPT ![c] = now + DedupTTL]
            /\ Loss /\ UNCHANGED queue
  <2>1. key'[c] = now + DedupTTL
    BY <1>1, <1>16 DEF TypeOK
  <2>2. c # n /\ key'[c] > now
    BY <1>1, <1>6, <1>7, <2>1
  <2>3. Owed(n)' \subseteq Owed(n) \union ({c} \X I)
    <3> SUFFICES ASSUME NEW o \in Notif \X I, o[1] \in Held(n)', o[2] <= key'[o[1]],
                        queue'[o[1]] = 0, o[1] # c
                 PROVE  o \in Owed(n)
      BY <1>1 DEF Owed
    <3>1. key'[o[1]] = key[o[1]] /\ o[1] \in Held(n) /\ queue[o[1]] = 0
      BY <1>3, <1>10
    <3>2. QED
      BY <3>1 DEF Owed
  <2>4. Pays(n)
    BY <1>16, <2>3 DEF Pays, Loss
  <2>5. QED
    BY <1>12, <2>2, <2>4
<1>17. QED
  BY <1>13, <1>14, <1>15, <1>16 DEF Look

\* A pass that finds n comes to it; one that does not has found a full batch of
\* other rows to settle.  One that fails is paid for.
LEMMA PassAccount ==
    ASSUME WaitInv, TypeOK', NEW q \in Pods, Query(q) \/ Crash(q),
           NEW n \in Notif, Waiting(n)'
    PROVE  Account(n)'
<1>1. /\ TypeOK /\ now' = now /\ row' = row /\ key' = key /\ queue' = queue
      /\ now \in Nat
  BY BoundsAssumption DEF WaitInv, ScheduleInv, Query, Crash, TypeOK
<1>2. row'[n] = row[n] /\ Overdue(n)' = Overdue(n) /\ FoundAt(n)' = FoundAt(n)
  BY <1>1, SameRow
<1>3. Covered(n) /\ \A p \in Pods : Turn(n, p)
  BY <1>1 DEF WaitInv, Waiting
<1>4. Settled(n)' = Settled(n) /\ Held(n)' = Held(n)
  BY <1>1 DEF Settled, Held
<1>5. Owed(n)' = Owed(n)
  BY <1>1, <1>4 DEF Owed
<1>6. CASE Loss
  <2>1. losses' = losses + 1 /\ Pays(n)
    BY <1>5, <1>6 DEF Loss, Pays
  <2>2. \A p \in Pods : Turn(n, p)'
    BY <1>1, <1>2, <1>3, <1>4, <1>5, <2>1, LossPaysTurn
  <2>3. Covered(n)'
    BY <1>1, <1>2, <1>3, <1>4, <2>1, CoveredStays
  <2>4. QED
    BY <2>2, <2>3 DEF Account
<1>7. ASSUME NEW S \in OldestFirst(Due), LoopOver(q, S), losses' = losses
      PROVE  Account(n)'
  <2>1. Pays(n) /\ Credit' = Credit
    BY <1>5, <1>7 DEF Pays, Credit, PlacesLost
  <2>2. Covered(n)'
    BY <1>1, <1>2, <1>3, <1>4, <2>1, CoveredStays
  <2>3. /\ S \subseteq Due /\ Due \subseteq Notif
        /\ Cardinality(S) = IF Cardinality(Due) < ScheduledBatch
                            THEN Cardinality(Due) ELSE ScheduledBatch
    BY <1>7 DEF OldestFirst, Due
  <2>4. pass'[q].rows = S /\ \A p \in Pods : p # q => pass'[p] = pass[p]
    BY <1>1, <1>7, <2>3, LoopType DEF TypeOK
  <2>5. ASSUME NEW p \in Pods, p # q PROVE Turn(n, p)'
    BY <1>1, <1>2, <1>3, <1>4, <2>1, <2>4, <2>5, TurnStays
  <2>6. Turn(n, q)'
    <3> SUFFICES ASSUME n \notin S, row[n].status # "ABSENT", FoundAt(n) <= now
                 PROVE  (ScheduledBatch * (Overdue(n) + 1) + Cardinality(Owed(n))
                            <= Cardinality(Settled(n) \union Held(n) \union pass[q].rows)
                                + Credit)'
      BY <1>1, <1>2, <2>4 DEF Turn
    <3>1. n \in Due
      <4>1. row[n].status = "PENDING"
        BY <1>1 DEF Waiting, TypeOK, Rows
      <4>2. row[n].column \in Int /\ row[n].createdAt \in Nat
        BY <1>1 DEF TypeOK, Rows
      <4>3. row[n].column <= now
        BY <1>1, <4>2 DEF FoundAt
      <4>4. QED
        BY <4>1, <4>3 DEF Due
    <3>2. IsFiniteSet(Due) /\ IsFiniteSet(S)
          /\ Cardinality(Due) \in Nat /\ Cardinality(S) \in Nat
      BY <2>3, NotifAssumption, FS_Subset, FS_CardinalityType
    <3>3. Cardinality(S) = ScheduledBatch
      <4>1. Cardinality(S) # Cardinality(Due)
        BY <2>3, <3>1, <3>2, FS_Subset
      <4>2. QED
        BY <2>3, <4>1
    <3>4. S \cap Settled(n) = {}
      BY <2>3 DEF Settled, Due
    <3>5. Finite /\ Finite'
      BY <1>1, Counts, PTL
    <3>6. Cardinality(Settled(n) \union S) = Cardinality(Settled(n)) + ScheduledBatch
          /\ Cardinality(Settled(n)) \in Nat
      <4>1. Settled(n) \cap S = {} /\ Cardinality(Settled(n) \cap S) = 0
        BY <3>4, FS_EmptySet
      <4>2. Cardinality(Settled(n) \union S)
                = Cardinality(Settled(n)) + Cardinality(S) - Cardinality(Settled(n) \cap S)
        BY <3>2, <3>5, FS_Union DEF Finite
      <4>3. QED
        BY <3>2, <3>3, <3>5, <4>1, <4>2 DEF Finite
    <3> DEFINE F == Settled(n) \union Held(n) \union pass[q].rows
               x == ScheduledBatch * Overdue(n)
    <3>7. Cardinality(Settled(n) \union S) <= Cardinality(F') /\ Cardinality(F') \in Nat
      <4>1. Settled(n) \union S \subseteq F'
        BY <1>4, <2>4
      <4>2. QED
        BY <3>5, <4>1, FS_Subset DEF Finite
    <3>8. /\ x + Cardinality(Owed(n)) <= Cardinality(Settled(n)) + Credit
          /\ x \in Nat /\ Credit \in Nat /\ Cardinality(Owed(n)) \in Nat
          /\ ScheduledBatch \in Nat
          /\ ScheduledBatch * (Overdue(n) + 1) = x + ScheduledBatch
      BY <1>1, <1>3, <3>5, Numbers DEF Covered, Finite
    <3> HIDE DEF x, F
    <3>9. x + ScheduledBatch + Cardinality(Owed(n)) <= Cardinality(F') + Credit
      BY <3>6, <3>7, <3>8
    <3>10. (ScheduledBatch * (Overdue(n) + 1))' = x + ScheduledBatch
      BY <1>2, <3>8
    <3>11. QED
      BY <1>5, <2>1, <3>9, <3>10 DEF F
  <2>7. QED
    BY <2>2, <2>5, <2>6 DEF Account
<1>8. QED
  BY <1>6, <1>7 DEF Query, Crash

\* When a tick is over, the rows that a pass has found are settled or held, and
\* those that are held have used up one of the places they owed.
LEMMA TickAccount ==
    ASSUME WaitInv, TypeOK', Tick, NEW n \in Notif, Waiting(n)'
    PROVE  Account(n)'
<1>1. /\ TypeOK /\ now' = now + 1 /\ row' = row /\ key' = key /\ queue' = queue
      /\ losses' = losses /\ now \in Nat /\ \A m \in Notif : queue[m] = 0
  BY BoundsAssumption DEF WaitInv, ScheduleInv, Tick, TypeOK
<1>2. Covered(n) /\ \A p \in Pods : Turn(n, p)
  BY <1>1 DEF WaitInv, Waiting
<1>3. Settled(n)' = Settled(n) /\ Credit' = Credit /\ FoundAt(n)' = FoundAt(n)
  BY <1>1 DEF Settled, Credit, PlacesLost, FoundAt
<1>4. Finite /\ Finite'
  BY <1>1, Counts, PTL
<1>5. Cardinality(Owed(n)') + Cardinality(Held(n)) <= Cardinality(Owed(n))
  <2> DEFINE H == Held(n) \X {now + 1}
             N == Owed(n)'
             O == Owed(n)
  <2>1. N \subseteq O
    <3> SUFFICES ASSUME NEW m \in Notif, NEW t \in now' + 1 .. now' + DedupTTL,
                        m \in Held(n)', t <= key'[m]
                 PROVE  <<m, t>> \in Owed(n)
      BY DEF Owed
    <3>1. t \in Int /\ t <= key[m] /\ key[m] <= now + DedupTTL /\ key[m] \in Nat
          /\ DedupTTL \in Nat
      BY <1>1, TTLAssumption DEF WaitInv, KeysInv, TypeOK
    <3>2. t \in now + 1 .. now + DedupTTL
      BY <1>1, <3>1
    <3>3. m \in Held(n)
      BY <1>1, <3>1 DEF Held
    <3>4. QED
      BY <1>1, <3>1, <3>2, <3>3 DEF Owed
  <2>2. H \subseteq O
    <3> SUFFICES ASSUME NEW m \in Held(n) PROVE <<m, now + 1>> \in Owed(n)
      OBVIOUS
    <3>1. m \in Notif /\ now < key[m] /\ key[m] \in Nat
      BY <1>1 DEF Held, TypeOK
    <3>2. now + 1 \in now + 1 .. now + DedupTTL /\ now + 1 <= key[m]
      BY <1>1, <3>1, TTLAssumption
    <3>3. QED
      BY <1>1, <3>1, <3>2 DEF Owed
  <2>3. H \cap N = {}
    <3> SUFFICES ASSUME NEW h \in H, h \in N PROVE FALSE
      OBVIOUS
    <3>1. h[2] = now + 1 /\ h[2] \in now' + 1 .. now' + DedupTTL
      BY DEF Owed
    <3>2. QED
      BY <1>1, <3>1, TTLAssumption
  <2>4. IsFiniteSet(H) /\ Cardinality(H) = Cardinality(Held(n))
    <3>1. /\ IsFiniteSet(Held(n)) /\ Cardinality(Held(n)) \in Nat
          /\ IsFiniteSet({now + 1}) /\ Cardinality({now + 1}) = 1
      BY <1>4, FS_Singleton DEF Finite
    <3>2. IsFiniteSet(H) /\ Cardinality(H) = Cardinality(Held(n)) * Cardinality({now + 1})
      BY <3>1, FS_Product
    <3>3. QED
      BY <3>1, <3>2
  <2>5. IsFiniteSet(O) /\ IsFiniteSet(N) /\ Cardinality(N) \in Nat /\ Cardinality(H) \in Nat
    BY <1>4, <2>4 DEF Finite
  <2> HIDE DEF H, N, O
  <2>6. IsFiniteSet(H \union N) /\ Cardinality(H \union N) = Cardinality(H) + Cardinality(N)
    <3>1. Cardinality(H \cap N) = 0
      BY <2>3, FS_EmptySet
    <3>2. /\ IsFiniteSet(H \union N)
          /\ Cardinality(H \union N) = Cardinality(H) + Cardinality(N) - Cardinality(H \cap N)
      BY <2>4, <2>5, FS_Union
    <3>3. QED
      BY <2>5, <3>1, <3>2
  <2>7. Cardinality(H \union N) <= Cardinality(O)
    BY <2>1, <2>2, <2>5, FS_Subset
  <2>8. QED
    BY <2>4, <2>5, <2>6, <2>7 DEF N, O
<1>6. /\ Cardinality(Owed(n)) \in Nat /\ Cardinality(Owed(n)') \in Nat
      /\ Cardinality(Held(n)) \in Nat /\ Cardinality(Settled(n)) \in Nat
      /\ Credit \in Nat
  BY <1>1, <1>4, Numbers DEF Finite
<1>7. Covered(n)'
  <2>1. FoundAt(n) \in Int /\ Overdue(n) \in Nat /\ ScheduledBatch \in Nat
        /\ ScheduledBatch * Overdue(n) \in Nat /\ ScheduledBatch * 0 = 0
    BY <1>1, Numbers
  <2>2. CASE row[n].status = "ABSENT" \/ FoundAt(n) > now
    <3>1. Overdue(n)' = 0
      BY <1>1, <1>3, <2>1, <2>2 DEF Overdue
    <3>2. Cardinality(Owed(n)) <= Cardinality(Settled(n)) + Credit
      BY <1>2, <1>6, <2>1 DEF Covered
    <3>3. Cardinality(Owed(n)') <= Cardinality(Settled(n)) + Credit
      BY <1>5, <1>6, <3>2
    <3>4. QED
      BY <1>3, <1>6, <2>1, <3>1, <3>3 DEF Covered
  <2>3. CASE row[n].status # "ABSENT" /\ FoundAt(n) <= now
    <3>1. Overdue(n)' = Overdue(n) + 1
      BY <1>1, <1>3, <2>1, <2>3 DEF Overdue
    <3>2. PICK p \in Pods : pass[p] = Over
      BY PodsAssumption DEF Tick
    <3>3. pass[p].pc = "over" /\ pass[p].rows = {}
      BY <3>2 DEF Over
    <3> DEFINE y == ScheduledBatch * (Overdue(n) + 1)
    <3>4. y + Cardinality(Owed(n)) <= Cardinality(Settled(n) \union Held(n)) + Credit
      BY <1>2, <2>3, <3>3 DEF Turn
    <3>5. y \in Nat
      BY <2>1
    <3>6. Cardinality(Settled(n) \union Held(n)) \in Nat /\
          Cardinality(Settled(n) \union Held(n)) <= Cardinality(Settled(n)) + Cardinality(Held(n))
      <4>1. /\ IsFiniteSet(Settled(n)) /\ IsFiniteSet(Held(n))
            /\ Cardinality(Settled(n) \union Held(n) \union {}) \in Nat
        BY <1>4, <3>3 DEF Finite
      <4>2. Settled(n) \union Held(n) \union {} = Settled(n) \union Held(n)
        OBVIOUS
      <4>3. Cardinality(Settled(n) \cap Held(n)) \in Nat
        BY <4>1, FS_Subset, FS_CardinalityType
      <4>4. Cardinality(Settled(n) \union Held(n))
                = Cardinality(Settled(n)) + Cardinality(Held(n))
                    - Cardinality(Settled(n) \cap Held(n))
        BY <4>1, FS_Union
      <4>5. QED
        BY <1>6, <4>1, <4>2, <4>3, <4>4
    <3>7. (ScheduledBatch * Overdue(n))' = y
      BY <3>1
    <3> HIDE DEF y
    <3>8. y + Cardinality(Owed(n)') <= Cardinality(Settled(n)) + Credit
      BY <1>5, <1>6, <3>4, <3>5, <3>6
    <3>9. QED
      BY <1>3, <3>7, <3>8 DEF Covered
  <2>4. QED
    BY <1>1, <2>1, <2>2, <2>3
<1>8. \A p \in Pods : Turn(n, p)'
  BY DEF Turn, Tick, Ready
<1>9. QED
  BY <1>7, <1>8 DEF Account

-----------------------------------------------------------------------------

LEMMA KeysStep == ASSUME ScheduleInv, KeysInv, [Next]_vars PROVE KeysInv'
<1>1. TypeOK /\ now \in Nat /\ DedupTTL \in Nat
  BY TTLAssumption, BoundsAssumption DEF ScheduleInv, TypeOK
<1> DEFINE Key(n) == /\ key[n] <= now + DedupTTL
                     /\ row[n].status = "ABSENT" => key[n] = 0
<1> SUFFICES ASSUME NEW n \in Notif PROVE Key(n)'
  BY DEF KeysInv
<1>2. Key(n) /\ key[n] \in Nat
  BY <1>1 DEF KeysInv, TypeOK
<1>3. CASE key'[n] = key[n] /\ (row'[n].status = "ABSENT" => row[n].status = "ABSENT")
            /\ now' \in {now, now + 1}
  BY <1>1, <1>2, <1>3
<1>4. CASE Tick
  BY <1>3, <1>4 DEF Tick
<1>5. ASSUME NEW c \in Notif, Consume(c) PROVE Key(n)'
  BY <1>1, <1>3, <1>5 DEF Consume, TypeOK, Rows
<1>6. ASSUME NEW c \in Notif, NEW at \in Instants, NEW zone \in Zones,
             Enqueue(c, at, zone)
      PROVE  Key(n)'
  <2>1. /\ row'[c] = [status |-> "PENDING", at |-> at,
                      column |-> at + zone, createdAt |-> now]
        /\ \A m \in Notif : m # c => row'[m] = row[m]
    BY <1>1, <1>6, EnqueueType
  <2>2. row'[c].status = "PENDING"
    BY <2>1
  <2>3. QED
    BY <1>3, <1>6, <2>1, <2>2 DEF Enqueue
<1>7. ASSUME NEW c \in Notif, NEW p \in Pods, Look(p, c) PROVE Key(n)'
  <2>1. /\ row' = row /\ now' = now /\ row[c].status # "ABSENT"
        /\ key'[n] = key[n] \/ (n = c /\ key'[n] = now + DedupTTL)
    BY <1>1, <1>7 DEF Look, ScheduleInv, DueWhenRead, TypeOK
  <2>2. QED
    BY <1>1, <1>2, <2>1
<1>8. ASSUME NEW p \in Pods, Query(p) \/ Crash(p) PROVE Key(n)'
  BY <1>3, <1>8 DEF Query, Crash
<1>9. CASE UNCHANGED vars
  BY <1>3, <1>9 DEF vars
<1>10. QED
  BY <1>4, <1>5, <1>6, <1>7, <1>8, <1>9 DEF Next

LEMMA WaitInit == Init => WaitInv
<1> SUFFICES ASSUME Init PROVE WaitInv
  OBVIOUS
<1>1. ScheduleInv /\ TypeOK
  BY ScheduleInit DEF ScheduleInv
<1>2. KeysInv
  BY TTLAssumption DEF Init, KeysInv
<1>3. ASSUME NEW n \in Notif PROVE Covered(n) /\ \A p \in Pods : Turn(n, p)
  <2>1. Overdue(n) = 0 /\ row[n].status = "ABSENT"
    BY DEF Init, NoRow, Overdue
  <2>2. Owed(n) = {} /\ Cardinality(Owed(n)) = 0
    BY FS_EmptySet DEF Init, NoRow, Owed, Held
  <2>3. Cardinality(Settled(n)) \in Nat /\ Credit \in Nat /\ ScheduledBatch * 0 = 0
    BY <1>1, Counts, Numbers DEF Finite
  <2>4. QED
    BY <2>1, <2>2, <2>3 DEF Covered, Turn
<1>4. QED
  BY <1>1, <1>2, <1>3 DEF WaitInv

LEMMA WaitStep == WaitInv /\ [Next]_vars => WaitInv'
<1> SUFFICES ASSUME WaitInv, [Next]_vars PROVE WaitInv'
  OBVIOUS
<1>1. ScheduleInv' /\ TypeOK'
  BY ScheduleStep DEF WaitInv, ScheduleInv
<1>2. KeysInv'
  BY KeysStep DEF WaitInv
<1>3. ASSUME NEW n \in Notif, Waiting(n)' PROVE Account(n)'
  <2>1. CASE UNCHANGED vars
    <3>1. /\ Waiting(n)' = Waiting(n) /\ Covered(n)' = Covered(n)
          /\ \A p \in Pods : Turn(n, p)' = Turn(n, p)
      BY <2>1 DEF vars, Waiting, Covered, Turn, Overdue, FoundAt, Owed, Held, Settled,
                  Credit, PlacesLost
    <3>2. QED
      BY <1>3, <3>1 DEF WaitInv, Account
  <2>2. CASE Next
    BY <1>1, <1>3, <2>2, TickAccount, ConsumeAccount, EnqueueAccount, LookAccount,
       PassAccount DEF Next
  <2>3. QED
    BY <2>1, <2>2
<1>4. QED
  BY <1>1, <1>2, <1>3 DEF WaitInv, Account

\* A scheduled notification whose message has not been lost is sent in time:
\* for any number of pods, rows and failures, any batch and any life of a key,
\* it waits for the rows before it and for the places that failures have taken.
THEOREM BacklogMovesOn == Spec => []WaitIsBounded
<1>1. WaitInv => WaitIsBounded
  <2> SUFFICES ASSUME WaitInv, NEW n \in Notif, row[n].status = "PENDING", key[n] = 0
               PROVE  now - FoundAt(n) <= LongestWait
    BY DEF WaitIsBounded
  <2>1. TypeOK /\ Finite /\ Covered(n) /\ now \in Nat
    BY Counts, BoundsAssumption DEF WaitInv, ScheduleInv, Waiting, TypeOK
  <2>2. Cardinality(Settled(n)) <= Cardinality(Notif) - 1 /\ Cardinality(Notif) \in Nat
    <3>1. /\ Cardinality(Notif) \in Nat /\ IsFiniteSet(Notif \ {n})
          /\ Cardinality(Notif \ {n}) = Cardinality(Notif) - 1
      BY NotifAssumption, FS_CardinalityType, FS_RemoveElement
    <3>2. Settled(n) \in SUBSET (Notif \ {n})
      BY DEF Settled
    <3>3. QED
      BY <3>1, <3>2, FS_Subset
  <2>3. /\ Credit \in Nat /\ Overdue(n) \in Nat /\ FoundAt(n) \in Int
        /\ ScheduledBatch * Overdue(n) \in Nat
    BY <2>1, Numbers
  <2>4. Cardinality(Owed(n)) \in Nat /\ Cardinality(Settled(n)) \in Nat
    BY <2>1 DEF Finite
  <2> DEFINE room == Cardinality(Notif) - 1 + Credit
  <2>5. ScheduledBatch * Overdue(n) <= room /\ room \in Int
    BY <2>1, <2>2, <2>3, <2>4 DEF Covered
  <2>6. Overdue(n) <= room \div ScheduledBatch
    <3> HIDE DEF room
    <3>1. \A a \in Nat, r \in Int, b \in Nat \ {0} : b * a <= r => a <= r \div b
      OBVIOUS
    <3>2. QED
      BY <2>3, <2>5, <3>1, BatchAssumption
  <2>7. now - FoundAt(n) <= Overdue(n)
    BY <2>1, <2>3 DEF Overdue
  <2>8. room \div ScheduledBatch \in Int
    BY <2>5, BatchAssumption
  <2>9. QED
    BY <2>1, <2>3, <2>6, <2>7, <2>8 DEF LongestWait, Credit
<1>2. QED
  BY <1>1, WaitInit, WaitStep, PTL DEF Spec

=============================================================================
