-------------------------- MODULE NotificationStore --------------------------
(***************************************************************************)
(* The notifications table (internal/model/notification.go) as the         *)
(* statements of internal/repository/notification.go read and write it.    *)
(*                                                                         *)
(* Time is relative: a timestamp column holds the number of ticks left     *)
(* until that instant, 0 once it has passed, and NoTime for NULL and for   *)
(* the zero time.  An instant has come when its column is at most 0.       *)
(***************************************************************************)
EXTENDS Integers

CONSTANTS
    Notif,            \* notifications, one for each idempotency key
    MaxAttempts,      \* max_attempts, copied from the configuration
    BackoffInitial,   \* first backoff, in ticks
    BackoffMax,       \* cap of the backoff, in ticks
    Schedules         \* the scheduled_at values clients ask for

VARIABLES
    row,              \* row[n]: the columns the delivery pipeline reads
    locked            \* the rows an open transaction holds FOR UPDATE

storeVars == <<row, locked>>

NoTime == -1
Times == Nat \union {NoTime}

\* backoffInitialSec * 2^attempt_count, capped: the LEAST of RecordSendFailure.
Backoff(attempts) ==
    IF BackoffInitial * 2^attempts < BackoffMax
    THEN BackoffInitial * 2^attempts
    ELSE BackoffMax

ASSUME AttemptsAssumption == MaxAttempts \in Nat \ {0}
ASSUME SchedulesAssumption == Schedules \subseteq Times
ASSUME BackoffAssumption ==
    \A a \in 0 .. MaxAttempts - 1 : Backoff(a) \in Nat \ {0}

Rows == [status : {"ABSENT", "PENDING", "COMPLETED", "FAILED"},
         attempts : Nat, retryIn : Times, scheduledIn : Times]

NoRow == [status |-> "ABSENT", attempts |-> 0,
          retryIn |-> NoTime, scheduledIn |-> NoTime]

StoreTypeOK == row \in [Notif -> Rows] /\ locked \subseteq Notif

StoreInit == row = [n \in Notif |-> NoRow] /\ locked = {}

-----------------------------------------------------------------------------
(* Rows as the statements write them. *)

NewRow(s) == [NoRow EXCEPT !.status = "PENDING", !.scheduledIn = s]

\* Variant with a bug: the exhausted row is one attempt late.
AfterSendFailureLate(r) ==
    IF r.attempts + 1 > MaxAttempts
    THEN [r EXCEPT !.attempts = @ + 1, !.status = "FAILED"]
    ELSE [r EXCEPT !.attempts = @ + 1, !.retryIn = Backoff(r.attempts)]

\* RecordSendFailure.  The UPDATE has no guard on the status it finds.
AfterSendFailure(r) ==
    IF r.attempts + 1 >= MaxAttempts
    THEN [r EXCEPT !.attempts = @ + 1, !.status = "FAILED"]
    ELSE [r EXCEPT !.attempts = @ + 1, !.retryIn = Backoff(r.attempts)]

\* Update(Status, SentAt, AttemptCount) of the primary consumer.
AfterFirstSuccess(r) == [r EXCEPT !.status = "COMPLETED", !.attempts = 1]

\* Variants with a bug: a status outside the enumeration; the status left out
\* of the selected columns.
AfterRetrySuccessSent(r) == [r EXCEPT !.status = "SENT"]
AfterRetrySuccessNoStatus(r) == r

\* Update(Status, SentAt) of the retry consumer.
AfterRetrySuccess(r) == [r EXCEPT !.status = "COMPLETED"]

\* Variant with a bug: the lease is not written.
NotLeased(r, lease) == r

\* UpdateNextRetryAt with the lease the claim computed.
Leased(r, lease) == [r EXCEPT !.retryIn = lease]

-----------------------------------------------------------------------------
(* Rows as the queries select them. *)

\* What the retry consumer requires of the row it loads.
IsRetryTarget(r) ==
    r.status = "PENDING" /\ r.attempts >= 1 /\ r.attempts < MaxAttempts

\* Variant with a bug: the query takes only rows never leased or backed off.
IsRetryDueOnce(r) == IsRetryTarget(r) /\ r.retryIn = NoTime

\* The WHERE clause of LockPendingRetriesDueForUpdate.
IsRetryDue(r) == IsRetryTarget(r) /\ r.retryIn <= 0

\* Variant with a bug: a row without a schedule is always due.
IsScheduledDueUnset(r) == r.status = "PENDING" /\ r.attempts = 0 /\ r.scheduledIn <= 0

\* FindDueScheduledNotifications.
IsScheduledDue(r) == r.status = "PENDING" /\ r.attempts = 0 /\ r.scheduledIn = 0

\* One tick of the clock on a timestamp.
Earlier(t) == IF t > 0 THEN t - 1 ELSE t

AgeRow(r) == [r EXCEPT !.retryIn = Earlier(@), !.scheduledIn = Earlier(@)]

=============================================================================
