--------------------------- MODULE KafkaConsumer ---------------------------
(***************************************************************************)
(* How the consumer keeps its SQLite store in step with the Kafka topics   *)
(* across restarts: the boot sequence (index.ts), the resume and seek      *)
(* logic (kafka/consumer.ts), the re-snapshot branch of the message        *)
(* handler (kafka/message-handler.ts) and the persisted offsets            *)
(* (domain/sqlite-store.ts).  Every SQLite write is an autocommit, so a    *)
(* crash keeps those before it; one that fails makes the handler give its  *)
(* message up.  Kafka and Debezium are external.                           *)
(*                                                                         *)
(* Offsets count from 1 and 0 means none.  The tables are those kept in    *)
(* single_store, one record per primary key, and a row is abstracted to    *)
(* the offset of the message it came from, 0 when it is absent.            *)
(***************************************************************************)
EXTENDS Integers, Sequences, SnapshotTracker

CONSTANTS
    Partitions,         \* pairs <<topic, partition number>>
    Keys,               \* primary keys of the rows
    Rows,               \* the rows <<p, k>> that may exist
    MaxLog,             \* bound: messages per partition
    MaxFaults,          \* bound: stops of the process and failures of its handler
    MaxReSnapshots      \* bound: re-snapshots

ASSUME ConsumerAssumption ==
    /\ Partitions \subseteq Topics \X Nat
    /\ Rows \subseteq Partitions \X Keys
    /\ MaxLog \in [Partitions -> Nat]
    /\ MaxFaults \in Nat
    /\ MaxReSnapshots \in Nat

\* External: Debezium and Kafka.
VARIABLES
    log,            \* log[p]: the messages of partition p
    todo,           \* rows <<p, k>> a running snapshot has still to send
    reSnapshots     \* re-snapshots so far

\* Persistent: store.db.
VARIABLES
    rows,           \* rows[p][k]
    saved,          \* saved[p]: the offset in meta
    hashStale       \* registry_hash is not that of the deployed code

\* Volatile: the process.
VARIABLES
    up,
    position,       \* position[p]: next offset the client delivers
    resumeOffsets,  \* read from meta at boot
    seekDone,
    resumed,        \* resumedFromSnapshot
    reSnapshotHandled,
    tracker

\* History, read by the properties only.
VARIABLES
    handled,        \* handled[p]: offsets whose handler ran, to its end or to an error
    failed,         \* failed[p]: those whose row may be wrong until they are read again:
                    \* for an error, or a clear() at boot that was cut short
    faults          \* stops and errors so far

kafka   == <<log, todo, reSnapshots>>
store   == <<rows, saved, hashStale>>
process == <<up, position, resumeOffsets, seekDone, resumed,
             reSnapshotHandled, tracker>>
history == <<handled, failed, faults>>
vars    == <<kafka, store, process, history>>

Messages == [op: {"r", "c", "u", "d"}, key: Keys, last: BOOLEAN]
NoRows == [p \in Partitions |-> [k \in Keys |-> 0]]
NoOffsets == [p \in Partitions |-> 0]

TypeOK ==
    /\ log \in [Partitions -> Seq(Messages)]
    /\ todo \in SUBSET Rows
    /\ reSnapshots \in Nat
    /\ rows \in [Partitions -> [Keys -> Nat]]
    /\ saved \in [Partitions -> Nat]
    /\ hashStale \in BOOLEAN
    /\ up \in BOOLEAN
    /\ position \in [Partitions -> Nat \ {0}]
    /\ resumeOffsets \in [Partitions -> Nat]
    /\ seekDone \in SUBSET Partitions
    /\ resumed \in BOOLEAN
    /\ reSnapshotHandled \in BOOLEAN
    /\ tracker \in Trackers
    /\ handled \in [Partitions -> SUBSET Nat]
    /\ failed \in [Partitions -> SUBSET Nat]
    /\ faults \in Nat

Init ==
    /\ log = [p \in Partitions |-> <<>>]
    /\ todo \in (SUBSET Rows) \ {{}}
    /\ reSnapshots = 0
    /\ rows = NoRows
    /\ saved = NoOffsets
    /\ hashStale = FALSE
    /\ up = FALSE
    /\ position = [p \in Partitions |-> 1]
    /\ resumeOffsets = NoOffsets
    /\ seekDone = {}
    /\ resumed = FALSE
    /\ reSnapshotHandled = FALSE
    /\ tracker = NewTracker(FALSE)
    /\ handled = [p \in Partitions |-> {}]
    /\ failed = [p \in Partitions |-> {}]
    /\ faults = 0

-----------------------------------------------------------------------------
(***************************************************************************)
(* The table that the first n messages of a partition describe.            *)
(***************************************************************************)
Writes(p, k, n) == {i \in 1..n : i <= Len(log[p]) /\ log[p][i].key = k}

LastWrites(p, k, n) ==      \* at most one
    {i \in Writes(p, k, n) : \A j \in Writes(p, k, n) : j <= i}

Row(message, offset) == IF message.op = "d" THEN 0 ELSE offset

Only(S) == CHOOSE x \in S : TRUE

Image(p, k, n) ==
    IF Writes(p, k, n) = {} THEN 0
    ELSE Only({Row(log[p][i], i) : i \in LastWrites(p, k, n)})

Table(p, n) == [k \in Keys |-> Image(p, k, n)]

-----------------------------------------------------------------------------
(***************************************************************************)
(* Debezium and Kafka                                                      *)
(***************************************************************************)
Produce(p, message) ==
    /\ Len(log[p]) < MaxLog[p]
    /\ log' = [log EXCEPT ![p] = Append(@, message)]
    /\ UNCHANGED <<store, process, history>>

\* A snapshot sends its rows in any order and flags the last of all topics.
SnapshotRow(p, k) ==
    /\ <<p, k>> \in todo
    /\ todo' = todo \ {<<p, k>>}
    /\ Produce(p, [op |-> "r", key |-> k, last |-> todo' = {}])
    /\ UNCHANGED reSnapshots

Change(p, k, op) ==
    /\ todo = {}
    /\ op \in IF Image(p, k, Len(log[p])) = 0 THEN {"c"} ELSE {"u", "d"}
    /\ Produce(p, [op |-> op, key |-> k, last |-> FALSE])
    /\ UNCHANGED <<todo, reSnapshots>>

ReSnapshot ==
    /\ todo = {}
    /\ reSnapshots < MaxReSnapshots
    /\ reSnapshots' = reSnapshots + 1
    /\ todo' = {r \in Rows :
                    Image(r[1], r[2], Len(log[r[1]])) # 0}
    /\ UNCHANGED <<log, store, process, history>>

-----------------------------------------------------------------------------
(***************************************************************************)
(* Boot                                                                    *)
(***************************************************************************)

\* The code deployed next has another table registry, or again the one of the store.
Deploy ==
    /\ ~up
    /\ hashStale' = ~hashStale
    /\ UNCHANGED <<kafka, rows, saved, process, history>>

\* main(): clear the store when asked to or when the registry changed, save its
\* hash, and resume from the offsets left.
Restored(forceRebuild) ==
    /\ up' = TRUE
    /\ hashStale' = FALSE
    /\ rows' = IF forceRebuild \/ hashStale THEN NoRows ELSE rows
    /\ saved' = IF forceRebuild \/ hashStale THEN NoOffsets ELSE saved
    /\ resumeOffsets' = saved'
    /\ resumed' = (saved' # NoOffsets)
    /\ tracker' = NewTracker(resumed')
    /\ seekDone' = {}
    /\ reSnapshotHandled' = FALSE
    /\ UNCHANGED <<kafka, history>>

\* Mutant: a new group starts at the end of every partition.
BootAtEnd(forceRebuild) ==
    /\ ~up
    /\ Restored(forceRebuild)
    /\ position' = [p \in Partitions |-> Len(log[p]) + 1]

\* The ephemeral group of a process starts at the beginning of every partition.
Boot(forceRebuild) ==
    /\ ~up
    /\ Restored(forceRebuild)
    /\ position' = [p \in Partitions |-> 1]

\* The process is gone, and its memory with it.
Interrupted ==
    /\ faults < MaxFaults
    /\ faults' = faults + 1
    /\ up' = FALSE
    /\ position' = [p \in Partitions |-> 1]
    /\ resumeOffsets' = NoOffsets
    /\ seekDone' = {}
    /\ resumed' = FALSE
    /\ reSnapshotHandled' = FALSE
    /\ tracker' = NewTracker(FALSE)
    /\ UNCHANGED <<kafka, hashStale, handled>>

\* The process dies while the boot clears the store, for FORCE_REBUILD or another
\* registry: the rows are gone, the offsets may be there.  A boot that then does not
\* clear resumes behind the rows that are gone.
BootInterrupted ==
    /\ ~up
    /\ rows' = NoRows
    /\ saved' \in {saved, NoOffsets}
    /\ failed' = [p \in Partitions |-> failed[p] \cup 1..saved[p]]
    /\ Interrupted

-----------------------------------------------------------------------------
(***************************************************************************)
(* eachMessage                                                             *)
(***************************************************************************)

\* seek() to an offset the log does not have falls back to the earliest one.
SeekTo(p, offset) == IF offset <= Len(log[p]) + 1 THEN offset ELSE 1

Delivered(p) == up /\ position[p] <= Len(log[p])

Old(p) == position[p] <= resumeOffsets[p]

\* Mutant: the seek goes one message too far.
TargetTooFar(p) == resumeOffsets[p] + 2

Target(p) == resumeOffsets[p] + 1

\* A message up to the saved offset: seek past them, once, and drop it.
SkipOld(p) ==
    /\ Delivered(p)
    /\ Old(p)
    /\ seekDone' = seekDone \cup {p}
    /\ position' = [position EXCEPT ![p] = IF p \in seekDone THEN @ + 1
                                          ELSE SeekTo(p, Target(p))]
    /\ UNCHANGED <<kafka, store, up, resumeOffsets, resumed, reSnapshotHandled,
                   tracker, history>>

\* The first snapshot event after a resume starts a rebuild from scratch.
Detected(message) == resumed /\ ~reSnapshotHandled /\ message.op = "r"

Applied(table, p) ==
    [table EXCEPT ![p][log[p][position[p]].key] =
                      Row(log[p][position[p]], position[p])]

\* The handler updates the store and the tracker, then its offset is saved.
Handle(p) ==
    LET message == log[p][position[p]]
    IN  /\ rows' = Applied(rows, p)
        /\ saved' = [saved EXCEPT ![p] = position[p]]
        /\ tracker' = ProcessEvent(tracker, message.op, message.last, p[1])
        /\ position' = [position EXCEPT ![p] = @ + 1]
        /\ UNCHANGED <<resumeOffsets, seekDone, reSnapshotHandled>>

\* Mutant: clearing the store without seeking back.
RewoundNowhere(p) == [position EXCEPT ![p] = @ + 1]

\* Mutant: seeking to one before the first offset.
RewoundTooFar(p) == [q \in Partitions |-> 0]

\* seekAllToBeginning() seeks partition 0 of every topic.
Rewound(p) ==
    [q \in Partitions |-> IF q[2] = 0 THEN 1
                          ELSE IF q = p THEN position[q] + 1 ELSE position[q]]

\* The same after clearing the store, the offsets and the resume state, and
\* seeking back.
Rebuild(p) ==
    LET message == log[p][position[p]]
    IN  /\ rows' = Applied(NoRows, p)
        /\ saved' = [NoOffsets EXCEPT ![p] = position[p]]
        /\ tracker' = ProcessEvent(ResetTracker, message.op, message.last, p[1])
        /\ position' = Rewound(p)
        /\ resumeOffsets' = NoOffsets
        /\ seekDone' = {}
        /\ reSnapshotHandled' = TRUE

Process(p) ==
    /\ Delivered(p)
    /\ ~Old(p)
    /\ IF Detected(log[p][position[p]]) THEN Rebuild(p) ELSE Handle(p)
    /\ handled' = [handled EXCEPT ![p] = @ \cup {position[p]}]
    /\ failed' = [failed EXCEPT ![p] = @ \ {position[p]}]
    /\ UNCHANGED <<kafka, hashStale, up, resumed, faults>>

Deliver(p) == SkipOld(p) \/ Process(p)

\* SQLite fails.  The handler logs the error, and the offset is saved all the same.
Failing(p) ==
    /\ Delivered(p)
    /\ ~Old(p)
    /\ faults < MaxFaults
    /\ faults' = faults + 1
    /\ handled' = [handled EXCEPT ![p] = @ \cup {position[p]}]
    /\ UNCHANGED <<kafka, hashStale, up, resumed>>

\* The row is not written; or it is, and a log line of the tracker fails, that counts
\* rows: before the tracker takes note of the event, or when it has just become ready.
Misapplied(p, table, before) ==
    LET message == log[p][position[p]]
        after == ProcessEvent(before, message.op, message.last, p[1])
    IN  \/ rows' = table /\ tracker' = before
        \/ /\ rows' = Applied(table, p)
           /\ \/ tracker' = before
              \/ ~before.ready /\ after.ready /\ tracker' = after

HandleFails(p) ==
    /\ Failing(p)
    /\ ~Detected(log[p][position[p]])
    /\ Misapplied(p, rows, tracker)
    /\ saved' = [saved EXCEPT ![p] = position[p]]
    /\ position' = [position EXCEPT ![p] = @ + 1]
    /\ failed' = [failed EXCEPT ![p] = @ \cup {position[p]}]
    /\ UNCHANGED <<resumeOffsets, seekDone, reSnapshotHandled>>

\* clear() fails, before or after the rows are gone; or, with the tracker reset, what
\* onReSnapshotDetected clears again, before it seeks.  The rebuild does not take
\* place, nor will another before the process starts again.
ClearFails(p) ==
    /\ Failing(p)
    /\ Detected(log[p][position[p]])
    /\ reSnapshotHandled' = TRUE
    /\ \/ /\ rows' \in {rows, NoRows}
          /\ saved' = [saved EXCEPT ![p] = position[p]]
          /\ UNCHANGED tracker
       \/ /\ rows' = NoRows
          /\ saved' = [NoOffsets EXCEPT ![p] = position[p]]
          /\ tracker' = ResetTracker
    /\ position' = [position EXCEPT ![p] = @ + 1]
    /\ failed' = [q \in Partitions |-> failed[q] \cup 1..resumeOffsets[q]
                                               \cup 1..(position'[q] - 1)]
    /\ UNCHANGED <<resumeOffsets, seekDone>>

\* The rebuild begins, and the first row goes wrong: it will be read again.
RebuildFails(p) ==
    /\ Failing(p)
    /\ Detected(log[p][position[p]])
    /\ reSnapshotHandled' = TRUE
    /\ Misapplied(p, NoRows, ResetTracker)
    /\ saved' = [NoOffsets EXCEPT ![p] = position[p]]
    /\ position' = Rewound(p)
    /\ resumeOffsets' = NoOffsets
    /\ seekDone' = {}
    /\ failed' = [failed EXCEPT ![p] = @ \cup {position[p]}]

Fails(p) == HandleFails(p) \/ ClearFails(p) \/ RebuildFails(p)

\* The process dies inside the handler: the store is written, the offset is not.
HandleInterrupted(p) ==
    /\ Delivered(p)
    /\ ~Old(p)
    /\ ~Detected(log[p][position[p]])
    /\ rows' = Applied(rows, p)
    /\ UNCHANGED <<saved, failed>>
    /\ Interrupted

\* ... or between the autocommits of a re-snapshot.
RebuildInterrupted(p) ==
    /\ Delivered(p)
    /\ ~Old(p)
    /\ Detected(log[p][position[p]])
    /\ \/ rows' = NoRows /\ saved' = saved
       \/ rows' \in {NoRows, Applied(NoRows, p)} /\ saved' = NoOffsets
    /\ UNCHANGED failed
    /\ Interrupted

\* The process stops between two messages, by a signal or a crash.
Crash ==
    /\ up
    /\ UNCHANGED <<rows, saved, failed>>
    /\ Interrupted

-----------------------------------------------------------------------------
\* After a rebuild has begun, a partition not yet re-read up to its saved offset:
\* resuming from that offset would leave out what the clear deleted.
Exposed(p) == resumeOffsets[p] = 0 /\ saved[p] >= position[p]

Undisturbed == \A p \in Partitions : ~Exposed(p)

Kafka ==
    \/ \E r \in Rows : SnapshotRow(r[1], r[2])
    \/ \E r \in Rows, op \in {"c", "u", "d"} : Change(r[1], r[2], op)
    \/ ReSnapshot

Next ==
    \/ Kafka
    \/ Deploy
    \/ \E forceRebuild \in BOOLEAN : Boot(forceRebuild)
    \/ BootInterrupted
    \/ \E p \in Partitions : Deliver(p)
    \/ \E p \in Partitions : Fails(p)
    \/ \E p \in Partitions : Undisturbed /\ HandleInterrupted(p)
    \/ \E p \in Partitions : RebuildInterrupted(p)
    \/ Undisturbed /\ Crash

\* The container restarts, and the client delivers what every partition has.
Fairness ==
    /\ WF_vars(\E forceRebuild \in BOOLEAN : Boot(forceRebuild))
    /\ \A p \in Partitions : WF_vars(Deliver(p))

Spec == Init /\ [][Next]_vars /\ Fairness

-----------------------------------------------------------------------------
(***************************************************************************)
(* Safety                                                                  *)
(***************************************************************************)
CaughtUp == up /\ \A p \in Partitions : position[p] = Len(log[p]) + 1

\* The last of the first n messages that write k went wrong.
Lost(p, k, n) == Writes(p, k, n) # {} /\ LastWrites(p, k, n) \subseteq failed[p]

\* The store is the table in Kafka, but for rows whose last write went wrong.
Exact == \A p \in Partitions : \A k \in Keys :
             rows[p][k] = Table(p, Len(log[p]))[k] \/ Lost(p, k, Len(log[p]))

\* However often the process stopped, resumed, rebuilt or met a re-snapshot on
\* the way, once it has read all there is the store is exact.  An error of SQLite costs
\* the row it concerns, until it is written again, or, in a clear(), those read so far;
\* and so does a stop in the clear() of a boot, unless the next boot clears.
CaughtUpStoreIsExact == CaughtUp => Exact

\* An offset is saved only when it and every one before it have been handled, so
\* that a resume never jumps over a message.
SavedIsHandled ==
    \A p \in Partitions : 1..saved[p] \subseteq handled[p]

\* Once everything is read and it includes the end of a snapshot, the tracker
\* lets live changes through, unless the handler failed at that message.
CaughtUpIsLive ==
    /\ CaughtUp
    /\ \E p \in Partitions : \E i \in (1..Len(log[p])) \ failed[p] : log[p][i].last
    => tracker.ready

\* A saved offset stays or moves to the next message, jumping only over what went wrong.
\* It moves otherwise when a rebuild begins, at boot or at a snapshot event, and back to
\* the first message when the re-reading begins.
OffsetsMoveInOrder ==
    [][\A p \in Partitions :
          \/ /\ saved'[p] >= saved[p]
             /\ (saved[p] + 1)..(saved'[p] - 1) \subseteq failed[p]
          \/ ~(up /\ up') /\ saved'[p] = 0
          \/ reSnapshotHandled' /\ ~reSnapshotHandled
          \/ reSnapshotHandled /\ saved'[p] = 1]_vars

(***************************************************************************)
(* Liveness                                                                *)
(***************************************************************************)

\* When stops and changes cease, the process ends up with the exact store.
EventuallyExact ==
    <>[](up /\ Exact)
=============================================================================
