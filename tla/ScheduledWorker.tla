--------------------------- MODULE ScheduledWorker ---------------------------
(***************************************************************************)
(* The backlog of scheduled notifications, which ScheduledPath leaves out: *)
(* rows with their instants, the ORDER BY and the LIMIT of the query, and  *)
(* rows that keep their places in the query while their keys live.         *)
(*                                                                         *)
(* One tick is one interval of the tickers (ScheduledPollIntervalSec): in  *)
(* each tick every pod makes one pass, and consumers are done with what    *)
(* was published before the next tick.                                     *)
(*                                                                         *)
(* scheduled_at is a timestamp without time zone.  The driver writes what  *)
(* the client's clock shows and drops the zone; the workers compare it     *)
(* with UTC.  A client east of Greenwich has a positive zone.              *)
(***************************************************************************)
EXTENDS Integers, FiniteSets

CONSTANTS
    Notif,            \* notifications
    Pods,             \* replicas of the service
    Instants,         \* the instants clients ask for
    Zones,            \* the zones they write them in
    ScheduledBatch,   \* ScheduledBatchSize
    DedupTTL,         \* ScheduledDedupTTLSec, in ticks
    MaxLosses,        \* bound on failures
    Horizon           \* bound on time

ASSUME NotifAssumption == IsFiniteSet(Notif)
ASSUME PodsAssumption == Pods # {}
ASSUME InstantsAssumption == Instants \subseteq Nat /\ Zones \subseteq Int
ASSUME BatchAssumption == ScheduledBatch \in Nat \ {0}
ASSUME TTLAssumption == DedupTTL \in Nat \ {0}
ASSUME BoundsAssumption == MaxLosses \in Nat /\ Horizon \in Nat

VARIABLES
    now,         \* the clock
    row,         \* row[n]: status, at (what the client meant), column, createdAt
    key,         \* key[n]: when the key scheduled_enqueue:n expires, 0 if never set
    queue,       \* queue[n]: messages for n in notifications.send
    pass,        \* pass[p]: the pass of p in this tick
    losses       \* failures so far

vars == <<now, row, key, queue, pass, losses>>

Rows == [status : {"ABSENT", "PENDING", "DONE"}, at : Nat, column : Int,
         createdAt : Nat]
NoRow == [status |-> "ABSENT", at |-> 0, column |-> 0, createdAt |-> 0]
Passes == [pc : {"ready", "looping", "over"}, rows : SUBSET Notif]
Ready == [pc |-> "ready", rows |-> {}]
Over == [pc |-> "over", rows |-> {}]

TypeOK ==
    /\ now \in 0 .. Horizon
    /\ row \in [Notif -> Rows]
    /\ key \in [Notif -> Nat]
    /\ queue \in [Notif -> Nat]
    /\ pass \in [Pods -> Passes]
    /\ losses \in 0 .. MaxLosses

Init ==
    /\ now = 0
    /\ row = [n \in Notif |-> NoRow]
    /\ key = [n \in Notif |-> 0]
    /\ queue = [n \in Notif |-> 0]
    /\ pass = [p \in Pods |-> Ready]
    /\ losses = 0

Publish(n) == queue' = [queue EXCEPT ![n] = @ + 1]
Loss == losses < MaxLosses /\ losses' = losses + 1

-----------------------------------------------------------------------------

\* EnqueueNotification: the instants are compared before one is written.
\* Requests for the past are left to ScheduledPath.
Enqueue(n, at, zone) ==
    /\ row[n].status = "ABSENT" /\ at >= now
    /\ row' = [row EXCEPT ![n] = [status |-> "PENDING", at |-> at,
                                  column |-> at + zone, createdAt |-> now]]
    /\ IF at > now THEN queue' = queue ELSE Publish(n)
    /\ UNCHANGED <<now, key, pass, losses>>

\* Variant with a bug: the query does not look at the time.
DueAnyTime == {n \in Notif : row[n].status = "PENDING"}

Due == {n \in Notif : row[n].status = "PENDING" /\ row[n].column <= now}

\* ORDER BY scheduled_at LIMIT ScheduledBatch.
OldestFirst(S) ==
    {T \in SUBSET S :
        /\ Cardinality(T) = IF Cardinality(S) < ScheduledBatch
                            THEN Cardinality(S) ELSE ScheduledBatch
        /\ \A m \in T, n \in S \ T : row[m].column <= row[n].column}

\* The loop of p goes on to the rows of S.
LoopOver(p, S) ==
    pass' = [pass EXCEPT ![p] = IF S = {} THEN Over
                                ELSE [pc |-> "looping", rows |-> S]]

\* FindDueScheduledNotifications, or its error.
Query(p) ==
    /\ pass[p].pc = "ready"
    /\ \/ (\E S \in OldestFirst(Due) : LoopOver(p, S)) /\ UNCHANGED losses
       \/ LoopOver(p, {}) /\ Loss
    /\ UNCHANGED <<now, row, key, queue>>

\* Variant with a bug: looking at a living key gives it a new life.
LookRenews(p, n) ==
    /\ pass[p].pc = "looping" /\ n \in pass[p].rows
    /\ \A m \in pass[p].rows : row[n].column <= row[m].column
    /\ key' = [key EXCEPT ![n] = now + DedupTTL]
    /\ \/ key[n] > now /\ UNCHANGED <<queue, losses>>
       \/ key[n] <= now /\ Publish(n) /\ UNCHANGED losses
       \/ key[n] <= now /\ Loss /\ UNCHANGED queue
    /\ LoopOver(p, pass[p].rows \ {n})
    /\ UNCHANGED <<now, row>>

\* One iteration: SetNX, and Publish if the key was free.  An error of SetNX,
\* or of Publish, or a message that the broker loses, leaves the key or not.
Look(p, n) ==
    /\ pass[p].pc = "looping" /\ n \in pass[p].rows
    /\ \A m \in pass[p].rows : row[n].column <= row[m].column
    /\ \/ key[n] > now /\ UNCHANGED <<key, queue, losses>>
       \/ /\ key[n] <= now
          /\ key' = [key EXCEPT ![n] = now + DedupTTL]
          /\ Publish(n) /\ UNCHANGED losses
       \/ /\ key[n] <= now
          /\ key' \in {key, [key EXCEPT ![n] = now + DedupTTL]}
          /\ Loss /\ UNCHANGED queue
    /\ LoopOver(p, pass[p].rows \ {n})
    /\ UNCHANGED <<now, row>>

\* The pod dies or is stopped; it comes back for the next tick.
Crash(p) ==
    /\ pass[p].pc = "looping"
    /\ LoopOver(p, {})
    /\ Loss
    /\ UNCHANGED <<now, row, key, queue>>

\* Variant with a bug: a message that is not there is consumed.
ConsumeNothing(n) ==
    /\ queue' = [queue EXCEPT ![n] = @ - 1]
    /\ row' = [row EXCEPT ![n].status = "DONE"]
    /\ UNCHANGED <<now, key, pass, losses>>

\* The consumer sends n and records the result, good or bad: the row no longer
\* matches the query.  If the record is refused, the row stays as it is.
Consume(n) ==
    /\ queue[n] > 0
    /\ queue' = [queue EXCEPT ![n] = @ - 1]
    /\ \/ row' = [row EXCEPT ![n].status = "DONE"] /\ UNCHANGED losses
       \/ row' = row /\ Loss
    /\ UNCHANGED <<now, key, pass>>

Tick ==
    /\ now < Horizon
    /\ \A p \in Pods : pass[p] = Over
    /\ \A n \in Notif : queue[n] = 0
    /\ now' = now + 1
    /\ pass' = [p \in Pods |-> Ready]
    /\ UNCHANGED <<row, key, queue, losses>>

Next ==
    \/ Tick
    \/ \E n \in Notif :
        \/ Consume(n)
        \/ \E at \in Instants, zone \in Zones : Enqueue(n, at, zone)
        \/ \E p \in Pods : Look(p, n)
    \/ \E p \in Pods : Query(p) \/ Crash(p)

Spec == Init /\ [][Next]_vars

-----------------------------------------------------------------------------

\* A message for n has been published.
Published(n) == queue[n] > 0 \/ row[n].status = "DONE"

\* Nothing is sent before the instant its client meant, unless the client
\* wrote it in a zone west of Greenwich.
NotBeforeSchedule ==
    \A n \in Notif : Published(n) /\ row[n].column >= row[n].at => now >= row[n].at

\* The first tick whose passes all look for n.
FoundAt(n) ==
    IF row[n].column > row[n].createdAt THEN row[n].column
                                        ELSE row[n].createdAt + 1

\* What a failure can take from the rows behind: the places that the key of a
\* lost message fills while it lives, or all those of a pass.
PlacesLost == IF DedupTTL > ScheduledBatch THEN DedupTTL ELSE ScheduledBatch

\* How long n can be overdue: the ticks it takes to send the other rows in full
\* batches, and those whose places are lost.
LongestWait == (Cardinality(Notif) - 1 + losses * PlacesLost) \div ScheduledBatch

\* A scheduled notification whose message has not been lost is sent within
\* that time, however many older rows are stuck before it.
WaitIsBounded ==
    \A n \in Notif :
        row[n].status = "PENDING" /\ key[n] = 0 /\ queue[n] = 0
            => now - FoundAt(n) <= LongestWait

=============================================================================
