----------------------------- MODULE RetryConfig -----------------------------
(***************************************************************************)
(* The configuration of the backoff, from the environment to the values in *)
(* use, and its arithmetic, on one notification that fails again and       *)
(* again.                                                                  *)
(*                                                                         *)
(* When retries are made is the matter of NotificationService; here they   *)
(* only follow one another.  Seconds are integers; a bigint of Postgres    *)
(* has a bound, which TLC's instances scale down.                          *)
(***************************************************************************)
EXTENDS Integers

CONSTANTS
    Environments,   \* the environments the service may be started in
    Unset,          \* a variable that is not set, or not to a number
    BigintMax,      \* the largest bigint, 2^63 - 1
    MaxSends        \* bound on the sends that are followed

Variables == {"MaxAttempts", "RetryBackoffInitialSec", "RetryBackoffMaxSec"}

ASSUME EnvironmentsAssumption == Environments \subseteq [Variables -> Int \union {Unset}]
ASSUME UnsetAssumption == Unset \notin Int
ASSUME BigintAssumption == BigintMax \in Nat /\ MaxSends \in Nat

VARIABLES
    env,          \* the environment of the pods
    row,          \* the row of the notification
    sends         \* how often a send of it has been tried

vars == <<env, row, sends>>

\* backoff: the seconds after which the last failure lets it be retried.
Rows == [status : {"PENDING", "COMPLETED", "FAILED"}, attempts : Nat,
         backoff : 0 .. BigintMax]

TypeOK ==
    /\ env \in Environments
    /\ row \in Rows
    /\ sends \in 0 .. MaxSends

Init ==
    /\ env \in Environments
    /\ row = [status |-> "PENDING", attempts |-> 0, backoff |-> 0]
    /\ sends = 0

-----------------------------------------------------------------------------
(* From the environment to the values in use. *)

\* setFieldValue leaves a field zero for a value it cannot parse.  The default
\* tags of the fields are not read by anyone.
Loaded(v) == IF env[v] = Unset THEN 0 ELSE env[v]

\* MaxAttempts is taken as it is, but the ORM writes the column's default for
\* zero.
EffectiveMaxAttempts ==
    IF Loaded("MaxAttempts") = 0 THEN 3 ELSE Loaded("MaxAttempts")

AtLeast(lower, x) == IF x < lower THEN lower ELSE x
AtMost(upper, x) == IF x > upper THEN upper ELSE x

\* backoffParams
PositiveOr(default, v) == IF Loaded(v) <= 0 THEN default ELSE Loaded(v)
InitialSec == PositiveOr(30, "RetryBackoffInitialSec")
MaxSec == AtLeast(InitialSec, PositiveOr(3600, "RetryBackoffMaxSec"))

-----------------------------------------------------------------------------

\* RecordSendFailure has clamps of its own.
Base == AtLeast(1, InitialSec)
Cap == AtLeast(Base, MaxSec)

\* POWER(2, n).
Pow2[n \in Nat] == IF n = 0 THEN 1 ELSE 2 * Pow2[n - 1]

\* The double that RecordSendFailure casts to a bigint, and only then caps.
Uncapped(attempts) == Base * Pow2[attempts]

Exhausted == row.attempts + 1 >= EffectiveMaxAttempts
Fail(status, backoff) ==
    row' = [status |-> status, attempts |-> row.attempts + 1, backoff |-> backoff]

\* Variant with a bug: the power is that of the attempts after the failure.
RecordSendFailureAfter ==
    \/ Exhausted /\ Fail("FAILED", row.backoff)
    \/ ~Exhausted /\ Fail("PENDING", AtMost(Cap, Uncapped(row.attempts + 1)))

\* The UPDATE of RecordSendFailure.  A cast out of range is an error, which
\* the consumer logs before it acknowledges the message: the row is as before.
RecordSendFailure ==
    \/ Exhausted /\ Fail("FAILED", row.backoff)
    \/ /\ ~Exhausted /\ Uncapped(row.attempts) <= BigintMax
       /\ Fail("PENDING", AtMost(Cap, Uncapped(row.attempts)))
    \/ ~Exhausted /\ Uncapped(row.attempts) > BigintMax /\ row' = row

\* Variant with a bug: a row that has failed once is sent to without end.
SendableAlways == row.status # "COMPLETED"

\* The first send, or a retry of a row that a claim may take.
Sendable ==
    /\ row.status = "PENDING"
    /\ sends = 0 \/ (row.attempts >= 1 /\ row.attempts < EffectiveMaxAttempts)

SendFails ==
    /\ Sendable /\ sends < MaxSends
    /\ sends' = sends + 1
    /\ RecordSendFailure
    /\ UNCHANGED env

\* Variant with a bug: a status outside the enumeration.
SendSucceedsSent ==
    /\ Sendable /\ sends < MaxSends
    /\ sends' = sends + 1
    /\ row' = [row EXCEPT !.status = "SENT"]
    /\ UNCHANGED env

SendSucceeds ==
    /\ Sendable /\ sends < MaxSends
    /\ sends' = sends + 1
    /\ row' = [row EXCEPT !.status = "COMPLETED",
                          !.attempts = IF sends = 0 THEN 1 ELSE @]
    /\ UNCHANGED env

Next == SendFails \/ SendSucceeds

Spec == Init /\ [][Next]_vars

-----------------------------------------------------------------------------

\* min(initial * 2^attempts, max) without a bound on integers: doubled from
\* one attempt to the next, and held at max.
Capped[attempts \in Nat] ==
    IF attempts = 0 THEN AtMost(MaxSec, InitialSec)
    ELSE AtMost(MaxSec, 2 * Capped[attempts - 1])

\* However the environment is set, a row that waits for a retry has the backoff
\* that is documented, doubled from failure to failure and capped.
BackoffIsCappedDoubling ==
    row.status = "PENDING" /\ row.attempts >= 1
        => row.backoff = Capped[row.attempts - 1]

\* More sends than MaxAttempts, or than one if that is not positive, are tried
\* only when the number of seconds, before the cap, is beyond a bigint.
OnlyOverflowExceedsMax ==
    sends > AtLeast(1, EffectiveMaxAttempts) => Uncapped(row.attempts) > BigintMax

=============================================================================
