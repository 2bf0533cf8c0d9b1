# Verification of dreon-notification

TLA+ modules that model the notification service, TLC configurations that check
them on small instances, and proofs that TLAPS checks for every instance.
`S` below is `src/internal/service/notification.go`, `R` is
`src/internal/repository/notification.go`.

## 1. Inventory of the system

| Component | State | Operations | Interacts with |
|---|---|---|---|
| Notifications table (`R`, `internal/model/notification.go`) | status, attempt_count, next_retry_at, scheduled_at, unique idempotency_key | Create, Update, RecordSendFailure, FindDueScheduledNotifications, LockPendingRetriesDueForUpdate, UpdateNextRetryAt | shared by all pods through Postgres |
| Primary path (`S` 105-171, `presentation/grpc/server.go`) | the request in hand, the message in hand | EnqueueNotification, ProcessNotificationFromQueue | table, `notifications.send`, providers |
| Retry path (`S` 225-312, `presentation/worker/retry.go`) | an open transaction, the claimed rows, the message in hand | EnqueuePendingRetries, ProcessNotificationRetryFromQueue | table, `notifications.retry`, providers |
| Scheduled path (`S` 173-223, `presentation/worker/scheduled.go`) | the rows found, Redis dedup keys | EnqueueDueScheduledNotifications | table, Redis, `notifications.send` |
| Queues and consumers (`presentation/events`) | ready and unacknowledged messages | publish, deliver, acknowledge, requeue | all paths |
| Channels (`S` 314-490, `pkg/fcm`, `pkg/sms`, `pkg/email`) | what providers accepted, mailbox rows | sendEmail, sendSMS, sendPush, sendInApp | providers, mailbox table |
| Retry configuration (`S` 329-350, `config/config.go`, `R` 73-113) | none | clamps and defaults, capped exponential | retry path |
| FCM token registry (`internal/service/fcmtoken.go`) | tokens with an owner, soft deletion | Register, ListForUser, DeleteForUser | Postgres |
| Push topics (`internal/service/pushtopic.go`) | topics with a unique name | Create, Update, GetAll | Postgres |
| Mailbox (`internal/service/mailbox.go`) | messages with an owner and a read flag | Create, ListForUser, GetForUser, MarkAsRead | in-app channel |
| Cache, HTTP, gRPC, rendering, validation, start-up | none that steers delivery | | |

What is hard in it:

* Several pods run everything at once over one table; only the retry claim uses a
  transaction. Rows are read before a send and written after it, with no guard.
* Messages are always acknowledged, so what a failed write or publish leaves
  behind must be found again by a query, or is lost.
* Correctness of the retry path rests on time: the lease has to outlast the work.
  The scheduled path rests on a key that expires, and on instants that are written
  without a time zone.
* Delivery to a provider and the write that records it are not atomic, and a
  crash between them has the message redelivered.
* A pod that is asked to terminate hands its messages back to the broker while its
  handlers run on.

What makes each component correct:

* table: status and attempt count agree; a row that is not decided can still be
  found by some query;
* primary path: an accepted notification is not forgotten; COMPLETED means delivered;
* retry path: claims exclude each other; one retry at a time under a lease; every
  row that failed is retried until it is decided;
* scheduled path: one send for one due row, across pods; never before its time; a
  lost send comes back, and does not hold up the rows behind it for longer than
  its key lives;
* channels: COMPLETED means that the recipients were reached; a pass serves a
  recipient once, and what its repetition costs is known for each channel;
* retry configuration: the backoff doubles up to its cap, whatever is configured;
* registry: calls act on a token at one instant each, and a user can register a
  token unless something has gone wrong;
* topics: answers are right, updates do not undo each other.

`PROJECT.json` lists the hazards with the lines where they bite and the
properties that watch them. A hazard against which the code has nothing, such as the
reply that names another user when two registrations meet, has a note instead: the
properties that hold until it strikes (`Spared`, `Undisturbed...`) confine it and do
not catch it.

## 2. Modules

```
NotificationStore          rows, what statements write and queries select
  Environment              queues, providers, faults, consumers' jobs
    PrimarySend            EnqueueNotification, ProcessNotificationFromQueue
    RetryPath              EnqueuePendingRetries, ProcessNotificationRetryFromQueue
    ScheduledPath          EnqueueDueScheduledNotifications
      NotificationService  the pods together, time, shutdown, crashes, fairness,
                           properties
        MCNotificationService        instances for TLC
        NotificationServiceProofs    types, statuses, deliveries, claims
          InFlightProofs             refusals, accepted requests, leases, duplicates
            LifecycleProofs          one send at a time, the refinement, final decisions
NotificationLifecycle      the promise to one notification, implemented by
                           NotificationService until something fails

ScheduledWorker            the scheduled backlog: instants, zones, ORDER BY, LIMIT
  MCScheduledWorker, ScheduledWorkerProofs
ChannelDelivery            SendNotification recipient by recipient
  MCChannelDelivery, ChannelDeliveryProofs
RetryConfig                settings, defaults, clamps, backoff arithmetic
  MCRetryConfig, RetryConfigProofs
TokenDirectory             what the token registry promises
TokenRegistry              Register and DeleteForUser, implements TokenDirectory
  MCTokenRegistry, TokenRegistryProofs
PushTopics                 Create and Update of push topics
  MCPushTopics, PushTopicsProofs
```

### State and code

| Variable | In the code |
|---|---|
| `row[n]` | the row of idempotency key `n`; `status` is `ABSENT` before Create |
| `locked` | rows an open transaction holds FOR UPDATE |
| `sendQ[n]`, `retryQ[n]` | ready messages for `n` in the two topics |
| `sent[n]` | how often a provider accepted `n` |
| `request[n]` | the answer of SendNotification to its client |
| `serving[p]` | requests at pod `p` between Create (`S` 114) and Publish (`S` 137) |
| `sender[p]`, `retrier[p]` | the two consumers of pod `p` and the point their handler has reached |
| `claim[p]` | the pass of EnqueuePendingRetries at `p`: transaction, then publishing loop |
| `poll[p]` | the pass of EnqueueDueScheduledNotifications at `p` |
| `dedup[n]` | time to live of the Redis key `scheduled_enqueue:n` |
| `stopping` | the pods whose OnStop hooks have run and that have not exited yet |
| `faults`, `struck` | faults so far, bounded by `MaxFaults`, and their kinds; read by properties and by the budget only |

Handlers are cut into one action for each statement or call another pod can
see: create, publish; send, write, acknowledge; select and lock, commit, publish
each row; load, send, write, acknowledge; query, SetNX, publish.

The smaller modules have a state of their own:

| Module | Variable | In the code |
|---|---|---|
| `ScheduledWorker` | `now` | the clock, one tick for an interval of the tickers |
| | `row[n]` | status, the instant the client meant, the `scheduled_at` column, when the row was created |
| | `key[n]`, `queue[n]` | when the dedup key of `n` expires; messages for `n` |
| | `pass[p]` | the pass of EnqueueDueScheduledNotifications at `p` in this tick |
| | `losses` | failures so far, bounded by `MaxLosses` |
| `ChannelDelivery` | `channel` | the channel of the notification; `TOKENS` and `TOPICS` are PUSH without and with type MESSAGING_GROUP |
| | `accepted[i]` | how often a provider, or the mailbox table, took the message for the i-th recipient of the list |
| | `pass[w]` | a call of SendNotification at a consumer: recipients to come, whether one has succeeded |
| | `completed` | the row has been COMPLETED |
| `TokenRegistry` | `row[t]` | the row of token `t` in `user_fcm_tokens`: absent, live, or with `deleted_at` set |
| | `call[c]` | a call of Register and the statement it has come to |
| `PushTopics` | `topic[i]`, `call[c]` | a row of `push_topics`; a call of Create or Update |
| both | `disturbed` | history, read by properties only: calls hit by an error or overtaken by another's write |
| `RetryConfig` | `env` | the settings of the backoff in the environment |
| | `row`, `sends` | one notification whose sends fail, and how many there were |

The SMS loop of `ChannelDelivery` is that of the Twilio client. At present
`main.go:36` provides a mock in its place, which refuses
every message; what the runs say of text messages is about the client that the mock
stands in for.

`ChannelDelivery` opens up the action `Attempt` of `Environment`; it leaves open
when passes are made, so that its properties hold for whatever the pipeline does.
`RetryConfig` opens up `Backoff` of `NotificationStore` in the same way, and
`ScheduledWorker` the query of `ScheduledPath`, where any due rows may be returned.
`ScheduledWorker` keeps a clock, because order and distance of instants matter
there; in exchange it lets consumers finish within a tick.

**Time.** Timestamps are countdowns: `retryIn` is the number of ticks until
`next_retry_at`, 0 when it is past, -1 for NULL. No clock grows, so no bound on
time is needed. (`ScheduledWorker` alone has a clock, bounded by `Horizon`.) The
clocks of the database, of Redis and of the pods are one.

**Timeliness.** `Timely` is an assumption on the timing and translates no code. It
says that work keeps ahead of the timer meant to cover
it: a retry is over before its lease runs out, a claim commits within its own
lease, a scheduled send and a scheduled pass are over before the key they rely on
expires, a request is answered before its own schedule comes. It looks at the
countdown and not at who set it: a short backoff that a duplicate writes over a
lease counts as a lease that ran out. A tick that breaks this is the fault `"late"`. Checks without that fault show what the
code guarantees when its timeouts are well chosen; checks with it show what
remains.

**Faults.** Every fault is drawn from a budget.

| Kind | What happens |
|---|---|
| `crash` | a pod loses all it was doing; its transaction is rolled back, its messages are requeued, what it was about to publish for a client may just have gone out |
| `stop` | a pod is asked to terminate, as in every deployment: open transactions and passes are cancelled, `router.Close` requeues the messages in hand at once, and the handlers go on until they are done or the process ends (see Shutdown) |
| `db` | a statement returns an error, with or without effect |
| `redis` | SetNX returns an error, with or without effect |
| `publish` | Publish returns an error; a request's message may have gone out all the same |
| `lose` | Publish returns none and the message is gone (no confirmations are configured) |
| `partial` | a provider accepts and the send still returns an error |
| `late` | a timer runs out under work it was to cover (see Timeliness) |

**Shutdown.** After `Stop` the process ends by `Exit`, which waits for the two
consumers only, as closing the router waits for their handlers. The servers wait for
their requests for a few seconds and then close, and the workers' hooks wait for
nothing, so that a request between Create and its answer, rows that are claimed and
not yet published, and a row whose key is set may all be cut off where they are. A
handler that outlasts the shutdown is cut off too, which is the fault `crash` at a
pod that stops. Both are the same step, `Vanish`; only its guard and its price differ.

That a provider refuses a message is no fault and is never bounded by the budget.
Properties that do not survive every kind say so: `Spared(kinds)` holds until a
fault of one of these kinds has struck, so one run with all the kinds shows at
once what breaks a promise and that nothing else does.

**Left out of the data.** In the pipeline: payloads, recipients, channels, SentAt, and the order in
which queries return rows (any choice of rows up to the limit is allowed).
Duplicate requests for an idempotency key change nothing (the unique index refuses
them), so each notification has one request.

## 3. What is checked

All instances of the pipeline have lease and dedup key of two ticks and backoff 1
then 2 (so that the cap is reached with three attempts), except that the key of
`two_rows` lives for one tick, to keep that run small.

| Run | Instance | Shows |
|---|---|---|
| `every_fault` | 2 pods, 1 row, 1 fault of any kind, 3 attempts, fairness | `TypeOK`; `CompletedWasSent`: no COMPLETED without a delivery; `StatusMatchesAttempts`: PENDING has attempts left, FAILED has none. Liveness: `RetryableIsDecided`, `ScheduledIsDecided`: a row that failed once, and a scheduled row, is decided in the end, whatever strikes; `AcceptedIsDecided`: so is every accepted notification, unless a write is refused or a message lost |
| `several_faults` | 2 pods, 1 row, 2 faults of any kinds, 3 attempts | `LeaseCoversRetry`, `SingleSendInFlight`: at most one message of each kind on its way, spared `late` and `stop`; `NoAcceptedLoss`: an accepted notification waiting for its first attempt has a message, spared `db` and `lose`; `RefusedIsNotSent`: a client who was told of an error was told the truth, spared `publish`; `DuplicatesCostFaults`: deliveries <= 1 + 2 * faults; `ImplementsLifecycle`: refinement of `NotificationLifecycle`; `DecidedIsFinal`: a decided row is not written again, although no write looks at the status, spared `crash`, `stop` and `late` |
| `two_rows` | 2 pods, 2 rows claimed in batches of 2, a pod that stops, 2 attempts | `ClaimsAreExclusive`: transactions hold disjoint rows, which stay due until leased; `ImplementsLifecycle` with two notifications |
| `backlog` | 2 pods, 3 rows in batches of 2, keys of 3 ticks, 2 failures, zones west, at and east of Greenwich, 9 ticks | `TypeOK`; `NotBeforeSchedule`: nothing is sent before the instant meant, unless its client wrote it west of Greenwich; `WaitIsBounded`: how long a row can be overdue while the keys of lost messages fill the batches before it |
| `recipients` | each channel, a list `<<a, blank, b, a>>`, 2 workers, 3 passes | `TypeOK`; `CompletedMeansServed`: a completed e-mail, SMS or in-app message has reached everybody, a push somebody; `EarlierRecipientsFirst`: text messages go down the list, so nobody has had more than one before him; `OnceInEachPass` |
| `token_directory` | 2 tokens, 2 users, 2 calls at a time | `TypeOK`; `ImplementsDirectory`: refinement of `TokenDirectory`; `UndisturbedReplyIsRight`: the reply to a call left in peace names its user, or tells of a deleted token |
| `topics` | 2 ids, 2 names, 2 calls at a time | `TypeOK`; `UndisturbedAnswerIsRight`: conflict, not found, a blank name refused and success are what they say unless calls meet; `OnlyGivenFieldsChange`: no lost update |
| `backoff` | 210 settings, unset, negative and zero among them; a bigint of 16 bits; 16 sends | `TypeOK`; `BackoffIsCappedDoubling`: the SQL agrees with a doubling that cannot overflow; `OnlyOverflowExceedsMax`: attempts are counted up to the overflow of the cast |

A crash may duplicate two deliveries, because one pod can hold a message of each
queue for the same notification (after an earlier redelivery); hence the factor in
`DuplicatesCostFaults`. A failure can take from the rows behind it the places that
one key fills while it lives, or those of one pass: `PlacesLost` in `WaitIsBounded`
is the larger of the two, with the defaults the key (a day, and ten rows a minute).

Why the bounds are enough to be interesting: two pods are what claims, leases and
keys arbitrate between, and every pod has two consumers and two workers, so up to
eight activities touch a row. Three attempts separate first send, retry, and
exhaustion. A lease of two ticks can be half spent in the transaction. With two
faults, the second strikes while the recovery from the first is under way; every
invariant and refinement that the runs check is proved for any number of faults
(section 4), and only liveness rests on the bounds. Rows
interact only through the batch and the row locks, which `two_rows` exercises, and
through the order of the scheduled query, which `backlog` does: three rows in
batches of two leave one behind, and two losses can fill a batch. Nine ticks are
room for three lives of a key.
In `ChannelDelivery` the list has what the loops treat apart, a blank and a
repetition, and two passes can overlap while a third repeats them. Tokens do not
interact in the registry, and two calls are all that a check and a write need to
be interleaved; a name clash needs two topics. The 16 bits of a bigint put the
overflow at the 11th attempt instead of the 59th: the formula is the same.

`CHECK_DEADLOCK FALSE`: the pipeline comes to rest when every notification is
decided, `ScheduledWorker` at its horizon, `ChannelDelivery` and `RetryConfig` when
the passes or sends they follow are used up. The two registries serve for ever.

Four runs are expected to fail, each with a statement of the documentation or of
a comment that the code does not keep (`findings` in `PROJECT.json`):

* `past_schedule_resent` - without any fault, a request for the past is delivered
  twice, because the primary consumer does not look at the row;
* `failure_unrecorded` - a failed `RecordSendFailure` strands the row, although
  "message committed for later handling" is logged;
* `token_reregistered` - a token deleted once can never be registered again;
* `topic_flag` - a topic created inactive is active.

The properties that hold are worded to say what does not: `OnlyOverflowExceedsMax`
that a row is sent to without end once the cast to bigint overflows (README.md:121
caps before, the SQL caps after), `DuplicatesCostFaults` that a late lease or a
crash repeats a delivery, `UndisturbedReplyIsRight` that the reply to a
registration may name another user when two of them meet, `NotBeforeSchedule` that
a schedule written west of Greenwich comes early, because the column drops the
zone, and the `Spared` guards which fault undoes which promise.

**Fairness** (`FairSpec`): the tickers fire, time passes, a pod goes on with a
request, a claim or a pass it has begun (weak fairness); consumers go on although
row locks come and go (strong fairness, because Postgres queues the waiters of a
row lock), and a pod that was asked to terminate exits once its handlers are done. No client is obliged to send anything. A scheduled pass starts at most
once a tick, as its ticker has it; otherwise passes could follow one another
without any time going by. Faults are finite in number, since liveness of a
service whose database fails forever cannot be had.

## 4. What is proved

All theorems hold for every value of the constants that satisfies the named
assumptions: any sets of pods and notifications (finite ones where they are counted), any `MaxAttempts >= 1`, any
schedules, any faults in any number.

About the pipeline, in three modules that build on each other:

| Theorem | Argument |
|---|---|
| `NotificationServiceProofs!TypeCorrect`: `Spec => []TypeOK` | one lemma for each group of actions; queues are decremented only when positive, a consumer that is not idle holds a job for some notification |
| `AttemptsDecideStatus`: `Spec => []StatusMatchesAttempts` | inductive as it stands; `RowChanges` lists what a step may do to a row, and each change is checked once |
| `CompletedMeansSent`: `Spec => []CompletedWasSent` | strengthened with `NewsIsTrue`: a consumer that is about to record a success holds a notification that a provider accepted. Without it, a consumer might write a success that nobody had; it is preserved because `sent` never decreases and only a send puts a consumer in that state |
| `ClaimsExclusive`: `Spec => []ClaimsAreExclusive` | inductive as it stands: a claim takes only unlocked rows, writers wait for the lock, time makes no due row undue |
| `InFlightProofs!RefusedStaysUnsent`: `Spec => []RefusedIsNotSent` | strengthened to `FreshInv`: for a row that does not exist, or whose request was refused, nothing at all is under way (`Quiet`). No query picks such a row up, so no step ends the quiet |
| `AcceptedIsNotLost`: `Spec => []NoAcceptedLoss` | inductive relative to `TypeOK` and `FreshInv`: a message leaves its queue only into a consumer, and a consumer lets go of it by recording the attempt, by an error that is excluded, or back into the queue when its pod stops or dies |
| `DuplicatesArePaidFor`: `Spec => []DuplicatesCostFaults` | strengthened to `PaidInv`, an account for each notification of the deliveries it has had and those still to come: from messages in queues and in hand (`SendsToCome`, `RetriesToCome`), from the request, the claims and the passes that may still publish, and from what a query would find again. `DuplicatesCostFaults` alone is not inductive, since a copy is made long before it is delivered. One lemma for each action shows that the account grows by at most two for a fault and not at all without one. The sums are sizes of queues and of sets of pods |
| `LeaseCovers`: `Spec => []LeaseCoversRetry` | strengthened to `LeaseInv`: retries come on their way only when a claim commits (`RetryMoves`); a row with a retry on its way has a lease that has not run out (`NotDueAgain`), so it is in no claim, so it is not leased a second time; a claim commits while its own lease lives |
| `LifecycleProofs!SendIsSingle`: `Spec => []SingleSendInFlight` | strengthened to `SendInv`: while a request is served nothing else sends its notification, and the schedule is still to come or absent; a scheduled pass holds rows whose time has come; a scheduled message on its way is covered by a living key. Hence the request and the worker never publish the same row, and neither do two passes |
| `PipelineImplementsLifecycle`: `0 \notin Schedules` implies `Spec => ImplementsLifecycle` | a refinement: initial states map to initial states, and every step to a step or a stutter of `NotificationLifecycle`. All of the invariants above support `LifeInv`, which says that what is under way fits the row and its deliveries: a first send to come means a PENDING row without attempts or deliveries, a retry to come a row that failed before and was not delivered, and a delivery not yet recorded is known to exactly one consumer. `StepMoves` then shows that a step changes one notification at the most, in one of four ways, and `LifecycleStep` that these are Ask, Deliver, Complete and Miss. Once a fault has struck, the abstract specification allows everything |

| `DecidedStaysDecided`: `Spec => DecidedIsFinal` | strengthened to `FinalInv`: a first send to come finds a row without attempts, a retry to come one that failed before and has attempts left, and what a scheduled pass has found is not attempted yet or has a living key. So nothing that could write a decided row is on its way. `LifeInv` cannot be used here, since it ends with the first fault, whereas this outlives all but three kinds: `FinalInv` says only which messages a row may have, and leaves out what was delivered |

`FreshInv`, `LeaseInv`, `SendInv`, `LifeInv` and `FinalInv` are needed because the properties
are about messages in flight: each says for every place where a message or an
intent to send can be what the row looks like meanwhile.

About the other components, for any values of their constants:

| Theorem | Argument |
|---|---|
| `ScheduledWorkerProofs!TypeCorrect`: `Spec => []TypeOK` | one step for each action |
| `SentOnlyWhenDue`: `Spec => []NotBeforeSchedule` | strengthened with `DueWhenRead`: what a pass has still to look at was due when it was read, and time does not go back; and with `QueuedIsWritten` |
| `BacklogMovesOn`: `Spec => []WaitIsBounded` | strengthened to `WaitInv`, an account kept for each row `n` that has not been published: the batches that have gone by since it was due (`Overdue`), plus the places that rows whose message is gone will still fill (`Owed`, a set of pairs of a row and an instant), are at most the rows that are done (`Settled`) plus `PlacesLost` for each failure (`Covered`). Within a tick, once a pass has found rows without `n`, the same holds for one batch more, counting the rows that hold a key and those the pass has still to look at (`Turn`): whatever it finds is settled, held, or paid for by a failure of its own. A tick then uses up one place of each row held |
| `ChannelDeliveryProofs!DeliveryTypeCorrect`: `Spec => []TypeOK` | one step for each action |
| `CompletedServes`: `Spec => []CompletedMeansServed` | strengthened with `PassServes`: in a pass that is sending, the targets no longer on its list are served (SMS), or one of them is if it has counted a success (topics); a pass that is sent has served. It holds for overlapping passes because `accepted` never decreases |
| `EarlierFirst`: `Spec => []EarlierRecipientsFirst` | counted: a recipient is behind an earlier one by at least the number of passes that are between the two (`OrderInv`) |
| `OncePerPassOnly`: `Spec => []OnceInEachPass` | counted: a recipient has had at most one message from each pass begun that does not still owe him one (`OncePerPass`); in-app messages go to first places only |
| `TokenRegistryProofs!RegistryTypeCorrect`: `Spec => []TypeOK` | one step for each action |
| `UndisturbedReplies`: `Spec => []UndisturbedReplyIsRight` | a call fails or answers steps after it has looked, so the invariant is strengthened to `Undisturbed` and `UndisturbedNamesUser`, which say for every point a call may have reached in which state it finds the row of its token, and when it owns it, if nothing has disturbed it. Every write to a token disturbs the other calls on it, which is what preserves this |
| `RegistryImplementsDirectory`: `Spec => ImplementsDirectory` | initial states map to initial states; each action maps to one abstract action or to a stutter, under the invariant `UnaffectedIsDeleted`. A call takes its token at its INSERT, or at its UPDATE if that finds the row; one whose UPDATE found none must not be answered "ok", and is not, because its row is deleted for good and the read-back fails |
| `PushTopicsProofs!TypeCorrect`: `Spec => []TypeOK` | from `TopicsInv` |
| `AnswersAreRight`: `Spec => []UndisturbedAnswerIsRight` | strengthened to `TopicsInv`: names are unique, and for every point a call may have reached, what it has established still holds if nothing has disturbed it (`CallRight`) |
| `UpdatesDoNotUndo`: `Spec => OnlyGivenFieldsChange` | from `TopicsInv`, step by step: only the two writes change a topic, and an UPDATE writes the fields of its own call |
| `RetryConfigProofs!TypeCorrect`: `Spec => []TypeOK` | the cast succeeds only up to `BigintMax`, and capping never raises a number |
| `BackoffDoubles`: `Spec => []BackoffIsCappedDoubling` | `CappedOnce`: capping at every doubling is capping a power of two once. It needs that recursive functions compute what their definitions say (`Recursion`), proved from a principle of induction on sets of numbers (`Induction`) |
| `RetryIsLater`: a backoff that is written lies between one second and the cap in use | from `BackoffDoubles` |
| `RetryConfigProofs!OverflowAloneExceedsMax`: `Spec => []OnlyOverflowExceedsMax` | strengthened with `Counted`: as long as the backoff of the next failure can be computed, every send is counted |

Assumptions on the constants are named next to their declarations, and TLC
evaluates them in every run. Two of them are about behaviour: `BackoffAssumption`,
that the backoff of a row with attempts left is positive, which `RetryIsLater`
proves of the arithmetic of the code (when the cast of
`OnlyOverflowExceedsMax` overflows, nothing is written); and `DedupAssumption`, that
keys live at all. `NotifAssumption` and `PodsAssumption` say that there are finitely
many rows and pods, where something is counted, and that somebody polls.

The proofs of `DuplicatesCostFaults` and `WaitIsBounded` count. The two accounts
were first checked by TLC as invariants of the instances above, with other lives of
a key and batches besides, and then proved from the theorems on finite sets.

Only model-checked: liveness (`RetryableIsDecided`, `ScheduledIsDecided`,
`AcceptedIsDecided`). It rests on fairness and ENABLED, which the prover does not
handle. Every invariant, action property and refinement that a run checks and
that holds is a theorem. The induction theorems of the library take an operator as a
parameter, which the provers installed here cannot instantiate; where induction over
numbers is needed, `RetryConfigProofs` states it with sets and functions instead.
Recursive operators are avoided in these modules, as the prover cannot use them;
`Pow2` and `Capped` are recursive functions.

## 5. Not modelled

* Rendering, validation, HTTP and gRPC plumbing, dependency wiring and connection
  handling keep no state that steers delivery.
* Mailbox: `Create`, `ListForUser`, `GetForUser` and `MarkAsRead` are single
  statements with the owner in their WHERE, and no handler calls the service. The
  rows that the in-app channel inserts are in `ChannelDelivery`.
* The Redis cache beyond SetNX (strings, hashes, streams, leaderboards, locks) is a
  thin wrapper that no service calls; what it does is Redis.
* `ExpiredAt` is stored and never read. `ListForUser` of tokens and `GetAll` of
  topics are single reads.
* Malformed messages, which only the service itself could publish.
* Clock skew between the database (`NOW()` in `RecordSendFailure`) and the pods
  (`time.Now()` in the claim), and a session time zone other than UTC, shorten or
  lengthen a countdown. They are covered only as the fault `"late"`.

## 6. How the project was ordered, and what could follow

The pipeline and its life cycle came first, then what it abstracts from (the
channels, the arithmetic of the backoff, the scheduled backlog), then the two
registries, and each component was proved about after TLC had agreed. What is
left needs more than another run:

1. A refinement from the passes of `ChannelDelivery` to `Attempt`, and from
   `ScheduledWorker` to `ScheduledPath`, so that two views of the same code are
   tied together by a check and not by a reading.
2. The mailbox, if reading and marking ever become more than single statements.
