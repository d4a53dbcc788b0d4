# A TLA+ verification of the Informix CDC consumer

This directory holds TLA+ specifications of the consumer in `../src`, the TLC
configurations that check them on small instances, and TLAPS proofs of the
properties that matter most. Paths below are relative to the repository; line
numbers are those of the commit the models were written from. `PROJECT.json`
maps every definition to the lines it models.

## 1. The system

Debezium turns changes of three Informix tables into Kafka messages. The
consumer, one Node.js process, keeps a copy of the tables in SQLite, finds out
which business payloads a change affects, and sends them to a REST API.

```
Informix -> Debezium -> Kafka topics
                          |  eachMessage                    kafka/consumer.ts
                          v
                   message handler ----> SQLite store       domain/sqlite-store.ts
                          |   \--------> snapshot tracker   kafka/snapshot-tracker.ts
                          | enqueue
                          v
                      debouncer --null--> pending buffer    dispatch/*.ts
                          |                   |
                          v                   v
   bulk service ------> API client ----------------> REST API
```

JavaScript runs one callback at a time. The interleavings are therefore those
of the pieces of code between two `await`s, and of what happens outside: Kafka,
the API, the timers, and the end of the process.

### Inventory

| Component | State | Operations | What makes it correct |
|---|---|---|---|
| Debouncer `dispatch/cdc-debouncer.ts`, shutdown in `index.ts` | `buffer`, `timer`, `flushing`; suspended `flush()` activations | `enqueue`, timer callback, `flush`, `stop`, shutdown | one flush at a time; no change forgotten; buffered changes get flushed; a stop drains; no payload overtakes a newer one unless its request timed out |
| Boot, resume, re-snapshot `index.ts`, `kafka/consumer.ts`, `kafka/message-handler.ts` | persisted offsets and registry hash; `resumeOffsets`, `seekDone`, `reSnapshotHandled` | boot, skip and seek, handle and save offset, rebuild | the store of a consumer that has read everything is the table, whatever stopped it on the way |
| Snapshot tracker `kafka/snapshot-tracker.ts` | `ready`, `topicsDone` | `processEvent`, `reset` | becomes ready; not before the snapshot is read |
| Pending buffer `dispatch/pending-buffer.ts` | map `pending`, `retrying`, interval | `addPending`, retry pass, `stopRetryLoop` | one pass at a time; bounded; what leaves has a reason; everything leaves |
| Array store `domain/sqlite-store.ts` | `array_store` | `update`, `clear` | a copy of a table whose records have no identity |
| API client `dispatch/http-client.ts` | token, expiry, `authPromise` | `request`, `getToken`, `authenticate` | one refresh at a time; a request uses a live token or renews it once |
| Bulk service `bulk/bulk-service.ts`, trigger routes `http/server.ts` | `running` | `sync`, `delete` | mutual exclusion; every batch accounted for; every call answered |
| Delivery: the three senders together | what each has buffered, built or on its way | build, send, resolve, reject | the API's copy is stale only for a reason that can be named |
| Payload rules `domain/watched-fields.ts`, `codare-registry.ts`, `table-registry.ts`, `payloads/` | none | change detection, filter, builders | exactly the payloads a change affects |
| Live path of the message handler `kafka/message-handler.ts` | the store; what is enqueued | update, detect, filter, enqueue | no change is overlooked, in whatever order rows arrive |
| Bulk handlers `bulk/handlers/` | none | `syncAll`, `deleteAll` of each type | agree with what changes send; what is skipped is reported |
| Authorisation, schemas and viewer of the HTTP server, country codes, configuration, logging | none of their own | | |

The hard parts are: the flush that is suspended while its own buffer fills; the
iteration over a map that changes under it; stops between autocommits that
belong together; writes that fail under a handler that goes on; snapshot events that come again; log compaction, which removes
the messages that later ones refer to; and three senders to one API.
`PROJECT.json` lists each hazard at its line.

## 2. The modules

| Module | Models | Composes |
|---|---|---|
| `Outbox` | abstract: what a sender of changes promises | |
| `Batching` | how an array is cut into requests, as an operator | |
| `CdcDebouncer` | debouncer and shutdown; implements `Outbox` | `Batching`, `Outbox` |
| `CdcDebouncerProofs` | its theorems | |
| `SnapshotTracker` | the tracker, as operators on its state | |
| `KafkaConsumer` | boot, resume, seek, offsets, rebuild, stops, failing writes | `SnapshotTracker` |
| `KafkaConsumerProofs` | its theorems | |
| `PendingBuffer` | the retry buffer | |
| `PendingBufferProofs` | its theorems | |
| `BulkService` | trigger routes, mutex, batches and reports | `Batching` |
| `BulkServiceProofs` | its theorems | |
| `Delivery` | flush, retry loop and bulk service as senders of one item | what the modules of the three show |
| `DeliveryProofs` | its theorems | |
| `ApiClient` | the API client, its token and its requests in time | |
| `ApiClientProofs` | its theorems | |
| `ArrayStore` | one table of `array_store` and its topic | |
| `ArrayStoreProofs` | its theorems | |
| `PayloadRules` | registry, change detection, filter and builders, as operators on the store of one codigo | |
| `BulkHandlers` | the turn of a bulk handler for one codigo, as operators | `PayloadRules` |
| `MessageHandler` | from a live change to its payloads, for one codigo | `BulkHandlers` |
| `MessageHandlerProofs` | its theorems | |
| `MC...` | constants, and variants of the specifications, for TLC | |

Operators whose comment begins with *Mutant* are plausible bugs of the operator
that follows them. Nothing uses them: each names a change to the code that
breaks a property of a run.

### CdcDebouncer

An action is what runs up to the next `await`: `Enqueue` is the handler's store
update with `enqueue()` and the `flush()` it may start; `TimerFires` the timer
callback; `DispatchEnds` the code after one `await dispatch(...)`, up to the
next one or the end of `flush()`; `Stop` the signal handler up to its `await`;
`Exit` and `ShutdownTimeout` the two ends of the race in `shutdown`.

`buffer` is the map of sets as a set of pairs. `timer` tells a timer that will
fire (`"armed"`) from a handle whose timer has fired (`"spent"`): the code sees
the same non-null field in both cases. `flushes` is a set because nothing but the flag keeps
activations apart; that it never has two members is proved. A payload is
reduced to the number of changes of its codigo that it reflects, so that "old"
and "new" can be compared; the order of items within a batch is left open.
The model lets any enqueued entry be incomplete (its builder returns null).

A batch ends here when its `await` does; what became of it at the API is a choice:
applied, lost, or, when `AbortSignal.timeout` gave it up (`http-client.ts:65`), `late`. A
late batch may be applied at any later time (`LateArrives`), after batches of later
flushes, or never. That is why the API may go back to an older version at all, and
`OnlyLateBatchesRegress` says that it does so in no other way.

### Outbox, the abstract specification

`Outbox` has neither buffer nor timer, batches or flushes: a change is asked for, and
items are settled, which is dispatched or handed to the retries, with a version between
the one settled last and the store's. `CdcDebouncer` keeps the variables of
`Outbox` beside its own, so the refinement mapping is
`O == INSTANCE Outbox WITH open <- phase = "running", late <- ...`: the promise ends with
the first signal, and the late batches are taken item by item. What is delivered is the
version just settled, and newer than the one there; or it is late. `ImplementsOutbox` is `O!Safety`, checked and proved;
`ChangesAreSettled` is `O!Promise`, its liveness, checked.

### KafkaConsumer

`rows[p][k]` holds the offset of the message that the stored row came from, so
that the store can be compared with the table a prefix of the log describes
(`Table`). `Boot` is `main()` up to the subscription; `SkipOld` the resume logic;
`Process` a handler that runs to its end with its offset saved, in the two
cases `Handle` and `Rebuild`. Each of the writes `clear()`, `update()`,
`setOffset()` is an autocommit, so `HandleInterrupted`, `RebuildInterrupted` and
`BootInterrupted` end the process between them; `Crash` ends it between messages.
`BootInterrupted` is a stop in the `clear()` of any boot. When the registry has changed, the
next boot clears again; but when the clear was asked for by `FORCE_REBUILD` (`index.ts:38`)
and the next boot is not asked to, the offsets that are left make it resume behind rows that are
gone.

A write may also fail (a full disk, a lock). The `catch` of the handler logs
that, and `eachMessage` saves the offset as if nothing had happened
(`message-handler.ts:203`). `HandleFails` is the error in `update()`, or after it
in the count of rows that the tracker logs, before it takes note of the event or when it has
just become ready (`Misapplied`, `snapshot-tracker.ts:48,74`); `ClearFails` the one in the
`clear()` of a rebuild, or in those of `onReSnapshotDetected` with the tracker reset already: the rebuild then
does not take place, nor any other in that process;
`RebuildFails` the one in the `update()` after the clear. `failed` is history: the
messages whose effect may be missing until they are read again, for an error or for a boot's
`clear()` that was cut short. The properties
exempt exactly the rows whose last write is among them.

`Next` restricts the stops with `Undisturbed`: no stop while a rebuild has begun
and some partition is not yet re-read up to its saved offset. Without that
condition the store is *not* exact; run `consumer_crash` shows it and finding 3
below explains it. No other stop or error is excluded; those after which rows may be
missing - an error of SQLite, a boot's `clear()` cut short - are named by the properties
(`failed`, `Lost`), which claim nothing of the rows they concern until these are written
or read again.

The tables are those of `single_store`. `array_store` tables are a model of
their own because their content, not a key, identifies a record.

### PendingBuffer

`pending` is the map in insertion order. A suspended pass remembers how many
entries it has `visited`; the map iterator of JavaScript survives insertions and
deletions, which the model follows by adjusting `visited`. The pass holds a reference to its
entry: while the entry is in the map both are kept equal (`PassKeepsItsPlace`
checks that), after an eviction it is `detached`. Steps over entries that do not
suspend the pass are part of the action that reaches the next `await`
(`PassedOver`). Deleting is `Kept`, which names the places that stay, since nothing can be
proved of the recursive `SelectSeq`. Age is a flag that `Ages` may set only while a pass is running:
five idle retries take ten seconds, an entry is given up after sixty.

### ArrayStore

`store` counts, for each key and record, the rows of `array_store`. The
source table, its topic and the log cleaner are external. The cleaner may be ahead of the
consumer, as it may be in Kafka when the consumer is stopped or slow: `Compact` takes messages that are
unread. When one of them is about a stored record, the next message of that row finds no
match for its `before`, and an update or delete leaves the stale record; `dirty` is history
that notes this, as it notes an update that a crash made apply twice, and
`ExactUnlessDisturbed` claims nothing then, until the store is cleared. Rows are never missing
(`NothingMissing`), with or without. `Twins` and `Moves`
widen what the source may do: rows that agree in every stored field, and updates that
change the grouping key. Both break exactness by design of the code (such rows
collapse into one; a moved record stays under its old key), so the runs set
them to FALSE.

### ApiClient

Time is `now`; `Tick` waits for what would exceed its timeout, as
`AbortSignal.timeout` does. `Request` is `request()` up to its first `await`; `AuthEnds` and `AuthFails`
continue every request that awaits the authentication, which is
`authPromise` (`Shared`) or the one a request makes for itself after a 401
(`Renews`). Each sender has one request at a time: `flush()` and the
retry pass send one after the other, and the mutex of the bulk service admits one
operation. Clock and API are assumed to measure time alike, and the event loop
to notice a timeout when it is due.

### BulkService

An action runs up to the next `await client.request(...)`: `Start` is a call
that finds the mutex free, up to its first request or, with no items, to its answer; `Conflict`
one that is turned down with 409; `BatchEnds` the code after a request, up to the next
one or the answer; `HandlerThrows` a handler whose read of the store throws; `Restarted` the end of
the process. Which items a handler lists is the matter of `BulkHandlers`, so here they are
any set. `accepted` and `refused` are history, against which the report is checked.

### Delivery

One item of the API, and what each of the three senders knows of it. The model
is built from what the modules of the senders show: flushes, passes and bulk operations do not
overlap among themselves, a flush takes what is buffered, each sends what its
builder returns then. `TimerFiresInVain` is the lost wake-up of finding 1: the timer of a
buffered entry expires while a flush, of this item or of others, is in progress. The entry is then
`stranded`, and no fairness is assumed of its flush. A request is `sent` until the API has applied it and
`applied` until its answer is here; one that is given up here, for a timeout or the end of
the process, may stay on its way as one of the `strays` and be applied later or never.
`LiveChange` is a change the message handler enqueues, `SilentChange` one it does not:
a snapshot event, a row of another table that completes the payload, a clear. It owes
nothing, so "stale" is always said relative to what was asked for last, and a copy that is
older than rows nobody asked for is not an error of this model.
`owed` is history: the version that was asked for last, by a change, a synchronisation or a
deletion; `causes` is what has since gone wrong with it. A demand that is superseded
without a new one, as when the payload becomes incomplete, is `Nothing`.

### PayloadRules, BulkHandlers, MessageHandler

`store[table]` is the set of rows of one codigo; a value is a text with or without
the padding of a CHAR column, because the code trims some values and not
others. `Handle` is the handler of one live event: it updates the store, compares
the watched fields of `before` and `after`, filters the affected types by the codare
in the *updated* store, and enqueues them. `Insert`, `Read`, `Update` and
`Delete` call it with what the source table can do. Builders are called at any later time
(`Send`, `GiveUp`), since the debouncer and the pending buffer have models of
their own; until then a type is `wanted`. `upToDate` is history: the types whose last payload
sent is the one due now. Changes may also send a payload that is not due (finding 4); a type is then not
up to date.

Left out: `cterasoc`, which no builder reads; events whose key is blank, which the handler
drops; how often an equal address is sent (items are a set). Assumed: rows of a table differ in
more than padding (otherwise see `ArrayStore`), an update does not move a row to
another codigo, and the one-letter `indmod` of an agreement, which
the code does not trim, has no padding. A `cabid` may be null or blank: the builder then sends
an agreement with a blank code, and `deleteAll()` drops it without a word
(`agreement-handler.ts:47`), which `DeleteReachesSynced` names.

## 3. The runs

Properties are stated in the modules, with a comment each.

| Run | Shows | Bounds |
|---|---|---|
| `debouncer` | no change is forgotten, one flush at a time, the API regresses only by late batches, a clean stop drains; it implements `Outbox`, and when flushes are shorter than the window every change is settled | 2 codigos with 2 and 1 changes, 2 payload types of 1 item, buffer of 2 codigos, batches of 1 item, 1 late batch at a time |
| `debouncer_lost_wakeup` | violated: `ChangesAreSettled` when a flush may outlast the window | the same |
| `debouncer_final_flush` | violated: `FinalFlushKeepsAll` | the same |
| `consumer` | the store is exact once everything is read, but for rows whose last write failed or fell to a boot's clear cut short; offsets are saved only when handled and in order, the tracker becomes live, and the process converges | 2 topics of one partition with 3 and 1 messages, 2 keys, 2 stops or errors, 1 re-snapshot |
| `consumer_crash` | violated: `CaughtUpStoreIsExact` with stops at any time | the same |
| `pending` | passes do not overlap and keep their place, capacity, reasons for leaving, entries keep their turn and a pass skips none, every entry leaves | 3 codigos, 2 types, 2 retries, capacity 2 |
| `array_store` | no row is lost; exact unless, since the last clear, an update was redelivered or a message about a stored record was compacted unread | 2 rows, 2 keys, 2 contents, 5 messages, crashes up to 2 copies of a record |
| `api_client` | no token ends on the way, a retry carries a newer token, every request ends | 2 senders, timeout 1, margin 2, lifetime 4, clock up to 5, 3 tokens |
| `bulk_service` | one operation at a time, the report is true, every call is answered and the mutex always released | 2 callers, 3 items, batches of 2 |
| `delivery` | at rest the API has what was asked for last, or one of three causes is named; only requests on their way together overtake one another; demands arrive unless a cause is named or their entry is stranded | 3 versions, 1 stray of each |
| `message_handler` | every change of what the API is to know is enqueued; bulk synchronisation sends what is due, which changes have sent or are about to; and deletion reaches it, but for the exceptions named | rows with at most one unusual value, 2 rows in an array table, at most one unusual row besides the `ctercero` record |
| `message_handler_codare` | violated: `OnlyRegisteredCodare` | the same |

Why the bounds are enough. The debouncer's actions relate at most a running
flush, the buffer and one new entry: two codigos let one be in flight while the other
fills the buffer to its limit, two types of two codigos in batches of one give a flush with
up to four suspensions, a second change of a codigo tells old payloads from new
ones, and one late batch is enough for one to arrive after a newer. Builds of two items,
and larger batches, are covered by the proofs. In the consumer, three messages in a partition let a stop fall before,
between and after a snapshot row and a change, a second partition lags behind
the first, and two faults let the second hit the recovery from the first. In the pending
buffer a third codigo forces an eviction under a suspended pass. In the array
store two rows exchange contents over five messages, with compaction in between.
For the API client the margin is exactly twice the timeout, as in the code, and the
clock runs long enough for a cached token to reach its margin and be renewed.
The bulk service cuts three items into a full and a short batch, and a second caller meets the mutex.
In `Delivery` three versions let one request of each sender be on its way with a payload of its
own; a stray of each adds those given up before.
For the message handler each watched field takes another value, and where the code
tells padding, null and blank apart, those; two rows of a table show one
row changing beside another, and since every item is built from the `ctercero`
record and at most one row of each other table, one unusual row beside an unusual
`ctercero` (`MaxOdd`) reaches each pair the builders combine with it. The theorems
do without `MaxOdd` and `MaxRows`.
`MaxChanges`, `MaxLate`, `MaxLog`, `MaxFaults`, `MaxReSnapshots`, `MaxCopies`,
`MaxTokens`, `MaxTime`, `MaxVersion` and `MaxStrays` only bound the environment; the proofs do without particular values of them.

Deadlock is not checked: the bounded environments stop, and the debouncer's
process exits.

### Fairness

- `CdcDebouncer`: weak fairness of `TimerFires` (an expired timer is run by the
  event loop) and of `DispatchEnds` (a request ends within `FETCH_TIMEOUT_MS`,
  `dispatch/http-client.ts:9`). Nothing is assumed of changes or signals.
- `FlushWithinWindow` is not fairness but an operating condition, a constant:
  the window of an entry does not elapse while a flush runs. The code does not
  guarantee it (window 1 s, request timeout 30 s): with FALSE the run
  `debouncer_lost_wakeup` fails.
- `KafkaConsumer`: weak fairness of `Boot` (the container, or its operator,
  starts the process again: `docker-compose.yml:36`) and of the delivery of each
  partition that has a message.
- `PendingBuffer`: weak fairness of `Tick` (the interval) and of `DispatchEnds`.
- `ApiClient`: weak fairness of the end of every authentication and request; both
  carry a timeout. Nothing is assumed of the API or the clock.
- `BulkService`: weak fairness of the end of the request under way, which has the same timeout.
- `Delivery`: weak fairness of `FlushTakes` for an entry that is not `stranded`: its timer fires
  with no flush in progress. Of a stranded one nothing is assumed, since only a full buffer
  flushes it, and `DemandsArrive` says so. Weak fairness of the end of every request, by its timeout. Nothing
  is assumed of the API, of the retry loop or of strays.
- `ArrayStore` and `MessageHandler` have no liveness property: that what is wanted gets
  sent or given up is the liveness of the debouncer and the pending buffer.

## 4. Findings

Each is a run that TLC finds violated, stating what a document of the repository
says.

1. **Lost wake-up** (`debouncer_lost_wakeup`, `cdc-debouncer.ts:39,45`). The timer of an entry
   enqueued during a flush may expire before that flush ends. Its callback
   returns at once and `this.timer` keeps the dead handle, so later
   enqueues arm none. The entry waits until the buffer is full or for ever;
   README.md:415 promises the window as maximum delay.
2. **Final flush** (`debouncer_final_flush`, `cdc-debouncer.ts:119`). `stop()` during a
   flush does nothing, does not wait, and the process exits with code 0;
   README.md:800 says the final flush keeps enqueued events.
3. **Re-snapshot and stop** (`consumer_crash`, `consumer.ts:74`). The offset of
   the snapshot event that started the rebuild is saved after the offsets were
   cleared. A process stopped before it re-read that partition resumes behind
   messages whose rows the rebuild had deleted. The same happens to a second
   stop in an initial load that was interrupted and resumed with a snapshot
   still running, as its remaining `r` events look like a re-snapshot.
4. **Codare** (`message_handler_codare`, `message-handler.ts:194`). The filter is applied when a
   change is enqueued, and lets every type pass while the `ctercero` record is not
   there; builders do not ask again. A payload may be sent for a codigo
   whose codare is not registered, or no longer; README.md:314 says that only
   registered ones generate payloads.

More disagreements with the documents are stated as exceptions of properties or as
hazards: an update redelivered after a crash is inserted twice into `array_store`, and a
consumer that was stopped or slow while the topic was compacted keeps stale rows there
(`ExactUnlessDisturbed`; docs/pipeline-cdc.md:112 says that reading compacted topics "siempre
reconstruye una copia exacta", which holds of a store that is read
from nothing with the cleaner never ahead); a stop in the
`clear()` of a forced rebuild leaves offsets behind (`CaughtUpStoreIsExact`); an agreement with a blank code
cannot be deleted (`DeleteReachesSynced`); a bulk
synchronisation lists the codigos of `ctercero` only (`SyncMatchesChanges`; README.md:455 says
all of the store); and topics deleted and recreated keep their old offsets in `meta`
(docs/pipeline-cdc.md:492), so that their first messages are dropped.

## 5. The proofs

TLAPS proves, for all values of the constants that satisfy the `ASSUME`s:

**CdcDebouncerProofs**, from `DebouncerAssumption`. The properties are not
inductive on their own. `IInv` adds `Versions`: nothing wanted, settled,
or read by a running flush is newer than the store, and what a running flush has
still to send is at least as new as what was settled of it. `Arrivals` says that what the API has
and what is late are not newer than what was settled: so a batch that is applied when its
`await` ends never regresses the API, and only a late one can (`RegressionIsLate`). That needs
`AtMostOneFlush`: of two activations the older could end last. `TimerHandle` says that a handle is kept only beside a
buffer that is not empty, and never a spent one under the operating condition;
without it `WakeupPending` is not preserved. `CleanStopHolds` carries
`CleanStopDrains` over the wait for the final flush. From the same invariant
`DebouncerImplementsOutbox` proves the refinement: initial states map to initial states, and
every step is one of `Outbox` or a stutter.

**KafkaConsumerProofs**, from `ConsumerAssumption` and, but for `TypeCorrect`, from
`OnePartition`: each topic has partition 0 only, because `seekAllToBeginning()`
seeks no other. The core of `IInv` is `Pending(p)`, the offset to be handled next, now or
after a restart, and `Good(p, k)`: the row of `k` is what the messages before `Pending(p)`
left, or a later message writes it anyway, or the last of those before went wrong (`Lost`).
The store is `AllGood`, or
a rebuild is certain to come: a pending snapshot event will start one
(`WillRebuild`). That
disjunction is what a stop between the autocommits of a re-snapshot needs; after one in the
`clear()` of a boot the rows are `Lost`. `Offsets` ties saved offsets,
positions and the resume state; `Undisturbed` is needed to keep it. `Cut` is the one state in which
a running process is past its saved offset: a `clear()` of `onReSnapshotDetected` failed
before the seek. `RowsInv`, that a
row comes from a message of its key, is what a failing `clear()` needs: a row that it
leaves behind is marked as failed or written by a message still to be read. A consumer
that has caught up has nothing pending, so `AllGood` makes its store the table.

**ApiClientProofs**, from `ApiAssumption`. `IInv` bounds three instants: an
authentication is at most a timeout old and its token not older than it; so the
cached token is given up a timeout before it ends (`CacheInTime`); so a request
ends before the token it carries (`RequestInTime`). The assumption `2 * Timeout <= Margin`
is the code's 60 s and 30 s (`http-client.ts:9,139`), with nothing to spare;
`2 * Timeout < Lifetime` is asked of the API. `AuthIsPending` ties a request that
waits to the authentication it waits for, and with `IInv` is inductive; that a request passes
through its stages in order (`RequestsOnlyAdvance`) is read off the four ways in which a step can move
it (`Moves`).

**MessageHandlerProofs**, from `HandlerAssumption`, which says what columns the tables have and of their
values only that no `indmod` is padded. The argument is about the registry: every field that a builder or
the filter reads is watched for its type. `OtherTables`: what is due does not depend on tables without a
watched field for the type. `ReplacedRow`: a row replaced by one that agrees in the
watched fields leaves it as it was. Hence `ChangeIsEnqueued`, the step of
`ChangesAreWanted`, which with `TypeOK` is inductive. That a bulk synchronisation sends what is
due follows from `TypeOK`, a `single_store` table having one row at most; that the changes have
sent it or are about to, from `ChangesAreWanted`.

**DeliveryProofs**, from `DeliveryAssumption`, for any number of versions and strays. What was asked for
is at the API, on its way there, or buffered, stranded or not, with the payload of the day
(`OwedIsComing`); that needs `OwedIsDue`, since a flush builds what is due when it
runs and not what was asked for, and `NothingNewer`. `OneAtATime` carries
`OvertakenInCompany`: without company the one request on its way is what was asked for.

**PendingBufferProofs**, from `PendingAssumption` (a capacity of one entry at least). First what `Kept`
returns: `EveryRankIsTaken` counts the places up to each one that stays, and from the
injection into `1..size` follows that every number is taken; so `KeptInOrder` has an
order-preserving choice of places without induction. `Leaves` then says of a map what a pass may have left of the
first `n` entries of another, and the lemmas `FrontLeaves`, `NextLeaves` and `RestLeaves` build
what `VisitNext` does from it. `IInv` is that of a map (`IsMap`: one entry per codigo,
never without types, to be retried once more), with the pass `AtPlace`: detached exactly when its place is 0,
which is why an eviction detaches a pass that has visited one entry and moves any other
along. `PassesDoNotOverlap` is part of it, since a second pass would not
see what the first stores. Each step lemma also proves what the two action properties say of it: `LeftForAReason`,
and `TurnsKept`, or in a step of the loop `TurnsVisited`. That a pass skips no entry and
counts none twice rests on its place being `Aligned` when the entry it is at has been deleted
under it: what was after its place still is, and nothing else (`PlaceWithout` counts the
places up to each entry that stays). A step of the loop goes through two maps, that without
the request sent or the entry deleted, and that after going on (`VisitComposes`).

**BulkServiceProofs**, from `BatchAssumption` and `BulkAssumption` (finitely many items). `Progress` says of
the operation under way what the report will say of it at its end: sent, under way and left
are disjoint and together all items, and what was sent fills its batches. A batch that
is not full is therefore the last one (`BatchIsAccounted`).

**ArrayStoreProofs**, from `ArrayAssumption` and `NoRecordAssumption`; all but `TypeCorrect` also
assume what the run does, `~Twins` and `~Moves`. There is no identity to find a
record by, so the invariant is first one of the topic (`LogInv`): a message takes up its row where
the latest one before it left it (`RowsAreChained`), its contents are those of no other
row at that point (`RowsAreApart`), and the log cleaner takes the messages of a row from the
oldest on (`CompactedFromStart`). Then `StoredInv` says that the record a row has at the
consumer's offset is stored, unless the next message, perhaps applied already, replaces
it; and `NothingElseInv` that a stored record is that of a row there or of the next message, and
stored once. "There" is `Standing`: the next message of the row that the cleaner has left is about that
record, and no message before it in the topic is about the same contents, so that a message compacted
unread disturbs only what it is about (`CompactKeepsStore`). Content alone suffices to find a record because no other row
has it at that offset (`OthersAreKept`), compacted topic or not. An update that is applied twice is the
one message that is not `Repeatable`; that and the message about a stored record that is taken
unread make the store `dirty`.

The lemmas about steps have one case per action. `OffsetsMoveInOrder` and
`OnlyLateBatchesRegress` are action properties proved from the same invariants.

Only model-checked: liveness (`ChangesAreSettled`, `EventuallyExact`,
`EntriesLeave`, `EveryRequestEnds`, `CallsAreAnswered`, `DemandsArrive`), which needs fairness and ENABLED.
Every invariant and action property that a passing run checks is also a theorem.
So is the part of each liveness property that needs no fairness:

| liveness | theorems on which it rests |
|---|---|
| `ChangesAreSettled` | `ChangesAreKept` and `WakeupIsPending`: a change that is not settled is in the buffer or in a running flush, and a buffer that is not empty has its timer armed (for flushes shorter than the window) |
| `EventuallyExact` | `BecomesLive`, `StoreIsExact`: a consumer that has caught up is live, and its store is the table |
| `EntriesLeave` | `TurnsAreKept`, `NoEntryIsLeftOver`: every pass counts one retry for each entry it goes by, and none stays with more than `MAX_RETRIES` |
| `EveryRequestEnds` | `NobodyIsStranded`, `RequestsOnlyAdvance`: whatever a request waits for is under way and in time, and each stage it goes through comes once |
| `CallsAreAnswered` | `MutexIsExact`: the mutex is held only by an operation that is under way, and whoever waits has one |
| `DemandsArrive` | `DemandsAreKept`: what is asked for is at the API, on its way, or buffered (perhaps stranded there) |

## 6. Not modelled

- `KafkaConsumer`: log compaction of the topics of `single_store` tables (`ArrayStore` has it for
  its own); a failing write of an offset, which makes the client deliver the message again; topics that
  are recreated; a message handled before `createKafkaConsumer()` has returned
  (`index.ts:110`).
- `MessageHandler`: updates that move a row to another codigo
  (`gvenacuh.tercer` and `cterdire.codigo` are not watched).
- `Delivery` takes the tracker's decision which events are live as a choice (`LiveChange` or
  `SilentChange`): a change read before the tracker is ready is not sent, which a
  synchronisation has to make good.
- What the HTTP server adds to the trigger routes: authorisation, request schemas,
  rendering, and the viewer, which only reads.
- Country codes (a table), configuration, logging, the monitoring stack: no state.
  Unusual configuration values are outside the assumptions on the constants.
