------------------------ MODULE KafkaConsumerProofs ------------------------
(***************************************************************************)
(* Proofs about KafkaConsumer for any topics, rows and logs, provided that *)
(* every topic has one partition, the one seekAllToBeginning() rewinds.    *)
(***************************************************************************)
EXTENDS KafkaConsumer, TLAPS

OnePartition == \A p \in Partitions : p[2] = 0

\* The offset of the next message to be handled, now or after a restart.
Pending(p) ==
    IF ~up THEN saved[p] + 1
    ELSE IF Old(p) THEN resumeOffsets[p] + 1 ELSE position[p]

\* The row is what the messages before the pending one left, or a later message
\* will write it anyway, or the last of those before went wrong.
Good(p, k) ==
    \/ rows[p][k] = Image(p, k, Pending(p) - 1)
    \/ \E j \in Pending(p)..Len(log[p]) : log[p][j].key = k
    \/ Lost(p, k, Pending(p) - 1)

AllGood == \A p \in Partitions : \A k \in Keys : Good(p, k)

\* A snapshot event is pending that will clear the store and rebuild it.
WillRebuild ==
    /\ IF up THEN resumed /\ ~reSnapshotHandled ELSE saved # NoOffsets
    /\ \E p \in Partitions : /\ Pending(p) <= Len(log[p])
                             /\ log[p][Pending(p)].op = "r"

\* A clear() that failed half-way took the rows and the offset of p; what was read before
\* will not be read again by this process.
Cut(p) ==
    /\ reSnapshotHandled
    /\ saved[p] = 0
    /\ \A k \in Keys : rows[p][k] = 0
    /\ 1..(Pending(p) - 1) \subseteq failed[p]

Offsets ==
    /\ \A p \in Partitions : /\ saved[p] <= Len(log[p])
                             /\ resumeOffsets[p] <= Len(log[p])
                             /\ position[p] <= Len(log[p]) + 1
    /\ up => /\ ~hashStale
             /\ resumed => saved # NoOffsets
             /\ \A p \in Partitions :
                   /\ p \in seekDone => ~Old(p)
                   /\ \/ saved[p] + 1 = Pending(p)
                      \/ reSnapshotHandled /\ Exposed(p) /\ position[p] = 1
                      \/ Cut(p)

StoreInv == AllGood \/ WillRebuild

HandledInv ==
    \A p \in Partitions : /\ 1..saved[p] \subseteq handled[p]
                          /\ 1..(Pending(p) - 1) \subseteq handled[p]

TrackerInv ==
    up /\ ~tracker.ready =>
        \A p \in Partitions : \A i \in 1..(Pending(p) - 1) :
            log[p][i].last => i \in failed[p]

\* A row comes from a message.
RowsInv ==
    \A p \in Partitions : \A k \in Keys :
        rows[p][k] = 0 \/ \E j \in 1..Len(log[p]) : log[p][j].key = k

IInv == TypeOK /\ Offsets /\ StoreInv /\ HandledInv /\ TrackerInv /\ RowsInv

-----------------------------------------------------------------------------
\* Before the first message the table is empty.
LEMMA ImageOfNothing ==
    ASSUME NEW p \in Partitions, NEW k \in Keys
    PROVE  Image(p, k, 0) = 0
BY DEF Image, Writes

\* A message sets the row of its key and leaves the other rows alone.
LEMMA ImageStep ==
    ASSUME TypeOK, NEW p \in Partitions, NEW k \in Keys,
           NEW n \in 1..Len(log[p])
    PROVE  Image(p, k, n) = IF log[p][n].key = k THEN Row(log[p][n], n)
                            ELSE Image(p, k, n - 1)
<1>1. Len(log[p]) \in Nat
  BY DEF TypeOK
<1>2. CASE log[p][n].key = k
  <2>1. n \in Writes(p, k, n) /\ \A j \in Writes(p, k, n) : j \in Nat /\ j <= n
    BY <1>1, <1>2 DEF Writes
  <2>2. LastWrites(p, k, n) = {n}
    BY <2>1 DEF LastWrites
  <2>3. {Row(log[p][i], i) : i \in LastWrites(p, k, n)} = {Row(log[p][n], n)}
    BY <2>2
  <2> QED
    BY <1>2, <2>1, <2>3 DEF Image, Only
<1>3. CASE log[p][n].key # k
  <2>1. Writes(p, k, n) = Writes(p, k, n - 1)
    BY <1>1, <1>3 DEF Writes
  <2>2. LastWrites(p, k, n) = LastWrites(p, k, n - 1)
    BY <2>1 DEF LastWrites
  <2> QED
    BY <1>3, <2>1, <2>2 DEF Image
<1> QED
  BY <1>2, <1>3

\* What is already in a log does not change when messages are appended to it.
LogsGrow ==
    \A p \in Partitions :
        /\ Len(log[p]) \in Nat /\ Len(log'[p]) \in Nat
        /\ Len(log[p]) <= Len(log'[p])
        /\ \A i \in 1..Len(log[p]) : log'[p][i] = log[p][i]

LEMMA LastWritesAreStable ==
    ASSUME LogsGrow, NEW p \in Partitions, NEW k \in Keys,
           NEW n \in 0..Len(log[p])
    PROVE  /\ Writes(p, k, n)' = Writes(p, k, n)
           /\ Writes(p, k, n) \subseteq 1..Len(log[p])
           /\ LastWrites(p, k, n)' = LastWrites(p, k, n)
<1>1. Writes(p, k, n)' = Writes(p, k, n) /\ Writes(p, k, n) \subseteq 1..Len(log[p])
  BY DEF Writes, LogsGrow
<1>2. LastWrites(p, k, n)' = LastWrites(p, k, n)
  BY <1>1 DEF LastWrites
<1> QED
  BY <1>1, <1>2

LEMMA ImageIsStable ==
    ASSUME LogsGrow, NEW p \in Partitions, NEW k \in Keys,
           NEW n \in 0..Len(log[p])
    PROVE  Image(p, k, n)' = Image(p, k, n)
<1>1. \A i \in LastWrites(p, k, n) : log'[p][i] = log[p][i]
  BY LastWritesAreStable DEF LastWrites, LogsGrow
<1>2. {Row(log[p][i], i) : i \in LastWrites(p, k, n)}'
      = {Row(log[p][i], i) : i \in LastWrites(p, k, n)}
  BY <1>1, LastWritesAreStable DEF Row
<1> QED
  BY <1>2, LastWritesAreStable DEF Image

-----------------------------------------------------------------------------
(***************************************************************************)
(* Type correctness                                                        *)
(***************************************************************************)
LEMMA TrackerTypes ==
    ASSUME NEW t \in Trackers, NEW op, NEW last \in BOOLEAN, NEW topic \in Topics
    PROVE  ProcessEvent(t, op, last, topic) \in Trackers
<1>1. Marked(t, op, last, topic) \in SUBSET Topics
  BY DEF Marked, Trackers
<1>2. [ready |-> t.ready \/ Marked(t, op, last, topic) = Topics,
       topicsDone |-> Marked(t, op, last, topic)] \in Trackers
  BY <1>1 DEF Trackers
<1> QED
  BY <1>2 DEF ProcessEvent

LEMMA NewTrackerTypes ==
    /\ \A ready \in BOOLEAN : NewTracker(ready) \in Trackers
    /\ ResetTracker \in Trackers
BY DEF NewTracker, ResetTracker, Trackers

\* The message that is being delivered.
LEMMA DeliveredMessage ==
    ASSUME TypeOK, NEW p \in Partitions, Delivered(p)
    PROVE  /\ p[1] \in Topics
           /\ position[p] \in 1..Len(log[p])
           /\ Len(log[p]) \in Nat
           /\ log[p][position[p]] \in Messages
<1>1. log[p] \in Seq(Messages) /\ position[p] \in Nat \ {0} /\ Len(log[p]) \in Nat
  BY DEF TypeOK
<1>2. position[p] \in 1..Len(log[p])
  BY <1>1 DEF Delivered
<1>3. log[p][position[p]] \in Messages
  BY <1>1, <1>2
<1>4. p[1] \in Topics
  BY ConsumerAssumption
<1> QED
  BY <1>1, <1>2, <1>3, <1>4

LEMMA AppliedTypes ==
    ASSUME TypeOK, NEW p \in Partitions, Delivered(p),
           NEW table \in [Partitions -> [Keys -> Nat]]
    PROVE  Applied(table, p) \in [Partitions -> [Keys -> Nat]]
<1>1. log[p][position[p]] \in Messages /\ position[p] \in Nat
  BY DeliveredMessage DEF TypeOK
<1>2. Row(log[p][position[p]], position[p]) \in Nat /\ log[p][position[p]].key \in Keys
  BY <1>1 DEF Row, Messages
<1> QED
  BY <1>2 DEF Applied

LEMMA NothingTypes ==
    /\ NoRows \in [Partitions -> [Keys -> Nat]]
    /\ NoOffsets \in [Partitions -> Nat]
BY DEF NoRows, NoOffsets

LEMMA InterruptedTypes ==
    ASSUME TypeOK, Interrupted,
           rows' \in [Partitions -> [Keys -> Nat]],
           saved' \in [Partitions -> Nat],
           failed' \in [Partitions -> SUBSET Nat]
    PROVE  TypeOK'
<1>1. faults' \in Nat
  BY DEF TypeOK, Interrupted
<1>2. position' \in [Partitions -> Nat \ {0}]
  BY DEF Interrupted
<1> QED
  BY <1>1, <1>2, NewTrackerTypes, NothingTypes DEF TypeOK, Interrupted, kafka

LEMMA InitTypes == Init => TypeOK
<1> SUFFICES ASSUME Init PROVE TypeOK
  OBVIOUS
<1>1. log \in [Partitions -> Seq(Messages)]
  BY DEF Init
<1>2. todo \in SUBSET Rows
  BY DEF Init
<1>3. /\ position \in [Partitions -> Nat \ {0}]
      /\ handled \in [Partitions -> SUBSET Nat]
      /\ failed \in [Partitions -> SUBSET Nat]
  BY DEF Init
<1> QED
  BY <1>1, <1>2, <1>3, NewTrackerTypes, NothingTypes DEF Init, TypeOK

\* Appending a message.
LEMMA ProduceTypes ==
    ASSUME TypeOK, NEW p \in Partitions, NEW message \in Messages,
           Produce(p, message), todo' \in SUBSET Rows, reSnapshots' = reSnapshots
    PROVE  TypeOK'
<1>1. log' \in [Partitions -> Seq(Messages)]
  BY DEF TypeOK, Produce
<1> QED
  BY <1>1 DEF TypeOK, Produce, store, process, history

\* A handler that fails.
LEMMA FailsTypes ==
    ASSUME TypeOK, NEW p \in Partitions, Fails(p)
    PROVE  TypeOK'
<1>1. Delivered(p) /\ Failing(p) /\ position[p] \in Nat \ {0}
  BY DeliveredMessage DEF Fails, HandleFails, ClearFails, RebuildFails, Failing, TypeOK
<1>2. /\ handled' \in [Partitions -> SUBSET Nat] /\ faults' \in Nat
      /\ UNCHANGED <<log, todo, reSnapshots, hashStale, up, resumed>>
  BY <1>1 DEF Failing, TypeOK, kafka
<1>3. ASSUME NEW table \in [Partitions -> [Keys -> Nat]], NEW t \in Trackers,
             Misapplied(p, table, t)
      PROVE  rows' \in [Partitions -> [Keys -> Nat]] /\ tracker' \in Trackers
  <2>1. /\ p[1] \in Topics /\ log[p][position[p]].last \in BOOLEAN
        /\ Applied(table, p) \in [Partitions -> [Keys -> Nat]]
    BY <1>1, DeliveredMessage, AppliedTypes DEF Messages
  <2> QED
    BY <1>3, <2>1, TrackerTypes DEF Misapplied
<1>4. CASE HandleFails(p)
  <2>1. rows' \in [Partitions -> [Keys -> Nat]] /\ tracker' \in Trackers
    BY <1>3, <1>4 DEF HandleFails, TypeOK
  <2>2. /\ saved' \in [Partitions -> Nat] /\ position' \in [Partitions -> Nat \ {0}]
        /\ failed' \in [Partitions -> SUBSET Nat]
    BY <1>1, <1>4 DEF HandleFails, TypeOK
  <2> QED
    BY <1>2, <1>4, <2>1, <2>2 DEF HandleFails, TypeOK
<1>5. CASE ClearFails(p)
  <2>1. rows' \in [Partitions -> [Keys -> Nat]] /\ tracker' \in Trackers
    BY <1>5, NothingTypes, NewTrackerTypes DEF ClearFails, TypeOK
  <2>2. /\ position' \in [Partitions -> Nat \ {0}]
        /\ failed' \in [Partitions -> SUBSET Nat]
    BY <1>1, <1>5 DEF ClearFails, TypeOK
  <2>3. saved' \in [Partitions -> Nat]
    BY <1>1, <1>5, NothingTypes DEF ClearFails, TypeOK
  <2> QED
    BY <1>2, <1>5, <2>1, <2>2, <2>3 DEF ClearFails, TypeOK
<1>6. CASE RebuildFails(p)
  <2>1. /\ saved' \in [Partitions -> Nat] /\ failed' \in [Partitions -> SUBSET Nat]
    BY <1>1, <1>6, NothingTypes DEF RebuildFails, TypeOK
  <2>2. position' \in [Partitions -> Nat \ {0}]
    BY <1>6 DEF RebuildFails, Rewound, TypeOK
  <2>3. rows' \in [Partitions -> [Keys -> Nat]] /\ tracker' \in Trackers
    BY <1>3, <1>6, NothingTypes, NewTrackerTypes DEF RebuildFails
  <2> QED
    BY <1>2, <1>6, <2>1, <2>2, <2>3, NothingTypes DEF RebuildFails, TypeOK
<1> QED
  BY <1>4, <1>5, <1>6 DEF Fails

LEMMA NextTypes ==
    ASSUME TypeOK, [Next]_vars
    PROVE  TypeOK'
<1>1. ASSUME NEW r \in Rows, SnapshotRow(r[1], r[2])
      PROVE  TypeOK'
  <2>1. r[1] \in Partitions /\ r[2] \in Keys
    BY ConsumerAssumption
  <2>2. [op |-> "r", key |-> r[2], last |-> todo' = {}] \in Messages
    BY <2>1 DEF Messages
  <2>3. todo' \in SUBSET Rows
    BY <1>1 DEF SnapshotRow, TypeOK
  <2> QED
    BY <1>1, <2>1, <2>2, <2>3, ProduceTypes DEF SnapshotRow
<1>2. ASSUME NEW r \in Rows, NEW op \in {"c", "u", "d"}, Change(r[1], r[2], op)
      PROVE  TypeOK'
  <2>1. r[1] \in Partitions /\ r[2] \in Keys
    BY ConsumerAssumption
  <2>2. [op |-> op, key |-> r[2], last |-> FALSE] \in Messages
    BY <2>1 DEF Messages
  <2> QED
    BY <1>2, <2>1, <2>2, ProduceTypes DEF Change, TypeOK
<1>3. CASE ReSnapshot
  BY <1>3 DEF ReSnapshot, TypeOK, store, process, history
<1>4. CASE Deploy
  BY <1>4 DEF Deploy, TypeOK, kafka, process, history
<1>5. ASSUME NEW forceRebuild \in BOOLEAN, Boot(forceRebuild)
      PROVE  TypeOK'
  <2>1. rows' \in [Partitions -> [Keys -> Nat]] /\ saved' \in [Partitions -> Nat]
    BY <1>5, NothingTypes DEF Boot, Restored, TypeOK
  <2>2. position' \in [Partitions -> Nat \ {0}]
    BY <1>5 DEF Boot
  <2>3. tracker' \in Trackers
    BY <1>5, NewTrackerTypes DEF Boot, Restored
  <2> QED
    BY <1>5, <2>1, <2>2, <2>3 DEF Boot, Restored, TypeOK, kafka, history
<1>6. CASE BootInterrupted
  <2>1. saved' \in [Partitions -> Nat] /\ failed' \in [Partitions -> SUBSET Nat]
    BY <1>6, NothingTypes DEF BootInterrupted, TypeOK
  <2> QED
    BY <1>6, <2>1, InterruptedTypes, NothingTypes DEF BootInterrupted
<1>7. ASSUME NEW p \in Partitions, SkipOld(p)
      PROVE  TypeOK'
  <2>1. position' \in [Partitions -> Nat \ {0}]
    BY <1>7 DEF SkipOld, SeekTo, Target, TypeOK
  <2> QED
    BY <1>7, <2>1 DEF SkipOld, TypeOK, kafka, store, history
<1>8. ASSUME NEW p \in Partitions, Process(p)
      PROVE  TypeOK'
  <2> DEFINE message == log[p][position[p]]
  <2>1. Delivered(p) /\ message \in Messages /\ p[1] \in Topics /\ position[p] \in Nat \ {0}
    BY <1>8, DeliveredMessage DEF Process, TypeOK
  <2>2. handled' \in [Partitions -> SUBSET Nat] /\ failed' \in [Partitions -> SUBSET Nat]
    BY <1>8, <2>1 DEF Process, TypeOK
  <2>3. CASE Handle(p)
    <3>1. rows' \in [Partitions -> [Keys -> Nat]]
      BY <2>1, <2>3, AppliedTypes DEF Handle, TypeOK
    <3>2. saved' \in [Partitions -> Nat] /\ position' \in [Partitions -> Nat \ {0}]
      BY <2>1, <2>3 DEF Handle, TypeOK
    <3>3. tracker' \in Trackers
      BY <2>1, <2>3, TrackerTypes DEF Handle, TypeOK, Messages
    <3> QED
      BY <1>8, <2>2, <2>3, <3>1, <3>2, <3>3 DEF Process, Handle, TypeOK, kafka
  <2>4. CASE Rebuild(p)
    <3>1. rows' \in [Partitions -> [Keys -> Nat]]
      BY <2>1, <2>4, AppliedTypes, NothingTypes DEF Rebuild
    <3>2. saved' \in [Partitions -> Nat]
      BY <2>1, <2>4, NothingTypes DEF Rebuild
    <3>3. position' \in [Partitions -> Nat \ {0}]
      BY <2>4 DEF Rebuild, Rewound, TypeOK
    <3>4. tracker' \in Trackers
      BY <2>1, <2>4, TrackerTypes, NewTrackerTypes DEF Rebuild, Messages
    <3> QED
      BY <1>8, <2>2, <2>4, <3>1, <3>2, <3>3, <3>4, NothingTypes
         DEF Process, Rebuild, TypeOK, kafka
  <2> QED
    BY <1>8, <2>3, <2>4 DEF Process
<1>9. ASSUME NEW p \in Partitions, HandleInterrupted(p)
      PROVE  TypeOK'
  BY <1>9, AppliedTypes, InterruptedTypes DEF HandleInterrupted, TypeOK
<1>10. ASSUME NEW p \in Partitions, RebuildInterrupted(p)
       PROVE  TypeOK'
  <2>1. rows' \in [Partitions -> [Keys -> Nat]] /\ saved' \in [Partitions -> Nat]
    <3>1. /\ Applied(NoRows, p) \in [Partitions -> [Keys -> Nat]]
          /\ Applied(rows, p) \in [Partitions -> [Keys -> Nat]]
      BY <1>10, AppliedTypes, NothingTypes DEF RebuildInterrupted, TypeOK
    <3> QED
      BY <1>10, <3>1, NothingTypes DEF RebuildInterrupted, TypeOK
  <2> QED
    BY <1>10, <2>1, InterruptedTypes DEF RebuildInterrupted, TypeOK
<1>11. CASE Crash
  BY <1>11, InterruptedTypes DEF Crash, TypeOK
<1>12. CASE UNCHANGED vars
  BY <1>12 DEF TypeOK, vars, kafka, store, process, history
<1>13. ASSUME NEW p \in Partitions, Fails(p)
       PROVE  TypeOK'
  BY <1>13, FailsTypes
<1> QED
  BY <1>1, <1>2, <1>3, <1>4, <1>5, <1>6, <1>7, <1>8, <1>9, <1>10, <1>11, <1>12, <1>13
     DEF Next, Kafka, Deliver

-----------------------------------------------------------------------------
(***************************************************************************)
(* The invariant is inductive: one lemma per kind of step                  *)
(***************************************************************************)
LEMMA Numbers ==
    ASSUME TypeOK, NEW p \in Partitions
    PROVE  /\ Len(log[p]) \in Nat
           /\ saved[p] \in Nat
           /\ resumeOffsets[p] \in Nat
           /\ position[p] \in Nat \ {0}
           /\ Pending(p) \in Nat \ {0}
           /\ handled[p] \in SUBSET Nat
           /\ failed[p] \in SUBSET Nat
BY DEF TypeOK, Pending

LEMMA PendingWithinLog ==
    ASSUME TypeOK, Offsets, NEW p \in Partitions
    PROVE  Pending(p) <= Len(log[p]) + 1
BY Numbers DEF Offsets, Pending

\* Kafka appends; the pending offsets stay.
LEMMA AppendKeepsInvariant ==
    ASSUME IInv, LogsGrow, UNCHANGED <<store, process, history>>
    PROVE  (Offsets /\ StoreInv /\ HandledInv /\ TrackerInv)'
<1> USE DEF IInv
<1>1. \A p \in Partitions : Pending(p)' = Pending(p)
  BY DEF Pending, Old, store, process
<1>2. Offsets'
  <2>1. \A p \in Partitions : Len(log[p]) <= Len(log'[p])
    BY DEF LogsGrow
  <2>2. \A p \in Partitions : Old(p)' = Old(p) /\ Exposed(p)' = Exposed(p)
    BY DEF Old, Exposed, store, process
  <2>3. \A p \in Partitions : /\ saved'[p] <= Len(log'[p])
                              /\ resumeOffsets'[p] <= Len(log'[p])
                              /\ position'[p] <= Len(log'[p]) + 1
    <3> TAKE p \in Partitions
    <3> QED
      BY <2>1, Numbers DEF Offsets, store, process, LogsGrow
  <2> QED
    BY <1>1, <2>2, <2>3 DEF Offsets, Cut, store, process, history
<1>3. StoreInv'
  <2>1. ASSUME NEW p \in Partitions, NEW k \in Keys, Good(p, k)
        PROVE  Good(p, k)'
    <3>1. Pending(p) - 1 \in 0..Len(log[p])
      BY Numbers, PendingWithinLog
    <3>2. Image(p, k, Pending(p) - 1)' = Image(p, k, Pending(p) - 1)
      <4>1. \A n \in 0..Len(log[p]) : Image(p, k, n)' = Image(p, k, n)
        BY ImageIsStable
      <4> QED
        BY <1>1, <3>1, <4>1 DEF Image, Writes, LastWrites
    <3>3. CASE rows[p][k] = Image(p, k, Pending(p) - 1)
      BY <3>2, <3>3 DEF Good, store
    <3>5. CASE Lost(p, k, Pending(p) - 1)
      <4>1. \A n \in 0..Len(log[p]) : LastWrites(p, k, n)' = LastWrites(p, k, n)
                                     /\ Writes(p, k, n)' = Writes(p, k, n)
        BY LastWritesAreStable
      <4>2. Lost(p, k, Pending(p) - 1)'
        BY <1>1, <3>1, <3>5, <4>1 DEF Lost, Writes, LastWrites, history
      <4> QED
        BY <4>2 DEF Good
    <3>4. ASSUME NEW j \in Pending(p)..Len(log[p]), log[p][j].key = k
          PROVE  Good(p, k)'
      <4>1. j \in 1..Len(log[p])
        BY Numbers
      <4>2. j \in Pending(p)..Len(log'[p]) /\ log'[p][j].key = k
        BY <3>4, <4>1, Numbers DEF LogsGrow
      <4> QED
        BY <1>1, <4>2 DEF Good
    <3> QED
      BY <2>1, <3>3, <3>4, <3>5 DEF Good
  <2>2. AllGood => AllGood'
    BY <2>1 DEF AllGood
  <2>3. WillRebuild => WillRebuild'
    <3>1. ASSUME NEW p \in Partitions, Pending(p) <= Len(log[p]),
                 log[p][Pending(p)].op = "r"
          PROVE  Pending(p)' <= Len(log'[p]) /\ log'[p][Pending(p)'].op = "r"
      <4>1. Pending(p) \in 1..Len(log[p])
        BY <3>1, Numbers
      <4> QED
        BY <1>1, <3>1, <4>1, Numbers DEF LogsGrow
    <3> QED
      BY <3>1 DEF WillRebuild, store, process
  <2> QED
    BY <2>2, <2>3 DEF StoreInv, store, process
<1>4. HandledInv'
  BY <1>1 DEF HandledInv, store, history
<1>5. TrackerInv'
  <2>1. ASSUME NEW p \in Partitions, NEW i \in 1..(Pending(p) - 1)
        PROVE  log'[p][i] = log[p][i]
    <3>1. i \in 1..Len(log[p])
      BY Numbers, PendingWithinLog
    <3> QED
      BY <3>1 DEF LogsGrow
  <2> QED
    BY <1>1, <2>1 DEF TrackerInv, process, history
<1> QED
  BY <1>2, <1>3, <1>4, <1>5

LEMMA KafkaAppends ==
    ASSUME TypeOK, TypeOK', Kafka
    PROVE  LogsGrow /\ UNCHANGED <<store, process, history>>
<1>1. ASSUME NEW p \in Partitions, NEW message, Produce(p, message)
      PROVE  LogsGrow /\ UNCHANGED <<store, process, history>>
  <2>1. \A q \in Partitions : log[q] \in Seq(Messages) /\ log'[q] \in Seq(Messages)
    BY DEF TypeOK
  <2>2. \A q \in Partitions : log'[q] = IF q = p THEN Append(log[q], message) ELSE log[q]
    BY <1>1 DEF Produce, TypeOK
  <2>3. ASSUME NEW q \in Partitions
        PROVE  /\ Len(log[q]) \in Nat /\ Len(log'[q]) \in Nat
               /\ Len(log[q]) <= Len(log'[q])
               /\ \A i \in 1..Len(log[q]) : log'[q][i] = log[q][i]
    <3>1. CASE q # p
      BY <2>1, <2>2, <3>1
    <3>2. CASE q = p
      <4>1. log'[q] = Append(log[q], message)
        BY <2>2, <3>2
      <4> QED
        BY <2>1, <4>1
    <3> QED
      BY <3>1, <3>2
  <2> QED
    BY <1>1, <2>3 DEF LogsGrow, Produce
<1>2. CASE ReSnapshot
  <2>1. LogsGrow
    BY <1>2 DEF ReSnapshot, LogsGrow, TypeOK
  <2> QED
    BY <1>2, <2>1 DEF ReSnapshot
<1> QED
  BY <1>1, <1>2, ConsumerAssumption DEF Kafka, SnapshotRow, Change

LEMMA DeployKeepsInvariant ==
    ASSUME IInv, Deploy
    PROVE  (Offsets /\ StoreInv /\ HandledInv /\ TrackerInv)'
<1>1. ~up /\ ~up' /\ UNCHANGED <<log, rows, saved, process, history>>
  BY DEF Deploy, kafka, process
<1>2. Offsets'
  BY <1>1 DEF IInv, Offsets, process
<1>3. StoreInv'
  <2>1. \A q \in Partitions : Pending(q)' = Pending(q)
    BY <1>1 DEF Pending
  <2>2. ASSUME NEW q \in Partitions, NEW k \in Keys, Good(q, k)
        PROVE  Good(q, k)'
    BY <1>1, <2>1, <2>2 DEF Good, Lost, Image, Writes, LastWrites, history
  <2>3. WillRebuild => WillRebuild'
    BY <1>1, <2>1 DEF WillRebuild
  <2> QED
    BY <2>2, <2>3 DEF IInv, StoreInv, AllGood
<1>4. (HandledInv /\ TrackerInv)'
  BY <1>1 DEF IInv, HandledInv, TrackerInv, Pending, Old, process, history
<1> QED
  BY <1>2, <1>3, <1>4

\* A row that is what the messages before the next pending one left is good.
LEMMA RowIsGood ==
    ASSUME NEW p \in Partitions, NEW k \in Keys, NEW n \in Nat, log' = log,
           Pending(p)' = n + 1, rows'[p][k] = Image(p, k, n)
    PROVE  Good(p, k)'
<1>1. Pending(p)' - 1 = n
  OBVIOUS
<1>2. Image(p, k, Pending(p) - 1)' = Image(p, k, n)
  BY <1>1 DEF Image, Writes, LastWrites
<1> QED
  BY <1>2 DEF Good

\* So is one whose last write went wrong.
LEMMA LostIsGood ==
    ASSUME NEW p \in Partitions, NEW k \in Keys, NEW n \in Nat, log' = log,
           Pending(p)' = n + 1, Writes(p, k, n) # {},
           LastWrites(p, k, n) \subseteq failed'[p]
    PROVE  Good(p, k)'
<1>1. Pending(p)' - 1 = n
  OBVIOUS
<1>2. Lost(p, k, Pending(p) - 1)'
  BY <1>1 DEF Lost, Writes, LastWrites
<1> QED
  BY <1>2 DEF Good

\* An empty store is what no message describes.
LEMMA NothingIsGood ==
    ASSUME TypeOK', rows' = NoRows, \A p \in Partitions : Pending(p)' = 1
    PROVE  AllGood'
<1> SUFFICES ASSUME NEW p \in Partitions, NEW k \in Keys
             PROVE  Good(p, k)'
  BY DEF AllGood
<1>1. Image(p, k, 0)' = 0
  BY DEF Image, Writes
<1> QED
  BY <1>1 DEF Good, NoRows

LEMMA BootKeepsInvariant ==
    ASSUME IInv, TypeOK', NEW forceRebuild \in BOOLEAN, Boot(forceRebuild)
    PROVE  (Offsets /\ StoreInv /\ HandledInv /\ TrackerInv)'
<1> USE DEF IInv
<1>1. /\ ~up /\ up' /\ ~hashStale' /\ log' = log /\ handled' = handled /\ failed' = failed
      /\ resumeOffsets' = saved' /\ resumed' = (saved' # NoOffsets)
      /\ seekDone' = {} /\ ~reSnapshotHandled'
      /\ position' = [p \in Partitions |-> 1]
      /\ tracker' = NewTracker(resumed')
  BY DEF Boot, Restored, kafka, history
<1>2. ASSUME NEW p \in Partitions
      PROVE  Pending(p)' = saved'[p] + 1 /\ Len(log[p]) \in Nat /\ saved'[p] \in Nat
  BY <1>1, Numbers DEF Pending, Old, TypeOK
<1>3. \/ rows' = NoRows /\ saved' = NoOffsets
      \/ rows' = rows /\ saved' = saved /\ ~hashStale
  BY DEF Boot, Restored
<1>4. \A p \in Partitions : saved'[p] <= saved[p] /\ saved'[p] <= Len(log[p])
  BY <1>2, <1>3, Numbers DEF NoOffsets, Offsets
<1>5. Offsets'
  <2>1. ASSUME NEW p \in Partitions
        PROVE  /\ saved'[p] <= Len(log'[p]) /\ resumeOffsets'[p] <= Len(log'[p])
               /\ position'[p] <= Len(log'[p]) + 1
               /\ p \notin seekDone'
               /\ saved'[p] + 1 = Pending(p)'
    BY <1>1, <1>2, <1>4
  <2> QED
    BY <1>1, <2>1 DEF Offsets
<1>6. StoreInv'
  <2>1. CASE rows' = NoRows /\ saved' = NoOffsets
    BY <1>2, <2>1, NothingIsGood DEF NoOffsets, StoreInv
  <2>2. CASE rows' = rows /\ saved' = saved /\ ~hashStale
    <3>1. \A p \in Partitions : Pending(p)' = Pending(p)
      BY <1>1, <1>2, <2>2 DEF Pending
    <3>2. ASSUME NEW p \in Partitions, NEW k \in Keys, Good(p, k)
          PROVE  Good(p, k)'
      BY <1>1, <2>2, <3>1, <3>2 DEF Good, Image, Lost, Writes, LastWrites
    <3>3. AllGood => AllGood'
      BY <3>2 DEF AllGood
    <3>4. WillRebuild => WillRebuild'
      BY <1>1, <2>2, <3>1 DEF WillRebuild
    <3> QED
      BY <2>2, <3>3, <3>4 DEF StoreInv
  <2> QED
    BY <1>3, <2>1, <2>2
<1>7. HandledInv'
  <2>1. ASSUME NEW p \in Partitions
        PROVE  1..saved'[p] \subseteq handled[p]
    <3>1. 1..saved'[p] \subseteq 1..saved[p]
      BY <1>2, <1>4, Numbers
    <3> QED
      BY <3>1 DEF HandledInv
  <2> QED
    BY <1>1, <1>2, <2>1 DEF HandledInv
<1>8. TrackerInv'
  <2> SUFFICES ASSUME ~tracker'.ready
               PROVE  \A p \in Partitions : Pending(p)' = 1
    BY <1>1 DEF TrackerInv
  <2>1. ~resumed'
    BY <1>1 DEF NewTracker
  <2>2. saved' = NoOffsets
    BY <1>1, <2>1
  <2>3. \A p \in Partitions : saved'[p] = 0
    BY <2>2 DEF NoOffsets
  <2> QED
    BY <1>2, <2>3
<1> QED
  BY <1>5, <1>6, <1>7, <1>8

LEMMA BootInterruptedKeepsInvariant ==
    ASSUME IInv, TypeOK', BootInterrupted
    PROVE  (Offsets /\ StoreInv /\ HandledInv /\ TrackerInv)'
<1> USE DEF IInv
<1>1. /\ ~up /\ ~up' /\ log' = log /\ handled' = handled
      /\ rows' = NoRows /\ saved' \in {saved, NoOffsets} /\ resumeOffsets' = NoOffsets
      /\ failed' = [p \in Partitions |-> failed[p] \cup 1..saved[p]]
      /\ position' = [p \in Partitions |-> 1]
  BY DEF BootInterrupted, Interrupted, kafka
<1>2. ASSUME NEW p \in Partitions
      PROVE  /\ Pending(p)' = saved'[p] + 1 /\ Len(log[p]) \in Nat
             /\ saved[p] \in Nat /\ saved'[p] \in Nat /\ saved'[p] <= saved[p]
  BY <1>1, Numbers DEF Pending, NoOffsets
<1>3. Offsets'
  <2>1. ASSUME NEW p \in Partitions
        PROVE  /\ saved'[p] <= Len(log'[p]) /\ resumeOffsets'[p] <= Len(log'[p])
               /\ position'[p] <= Len(log'[p]) + 1
    BY <1>1, <1>2 DEF Offsets, NoOffsets
  <2> QED
    BY <1>1, <2>1 DEF Offsets
<1>4. AllGood'
  <2> SUFFICES ASSUME NEW p \in Partitions, NEW k \in Keys
               PROVE  Good(p, k)'
    BY DEF AllGood
  <2> DEFINE n == saved'[p]
  <2>1. n \in Nat /\ Pending(p)' = n + 1 /\ 1..n \subseteq failed'[p]
    BY <1>1, <1>2
  <2>2. CASE Writes(p, k, n) # {}
    <3>1. LastWrites(p, k, n) \subseteq 1..n
      BY DEF LastWrites, Writes
    <3> QED
      BY <1>1, <2>1, <2>2, <3>1, LostIsGood
  <2>3. CASE Writes(p, k, n) = {}
    BY <1>1, <2>1, <2>3, RowIsGood DEF Image, NoRows
  <2> QED
    BY <2>2, <2>3
<1>5. HandledInv'
  <2>1. ASSUME NEW p \in Partitions
        PROVE  1..saved'[p] \subseteq handled[p] /\ Pending(p)' - 1 = saved'[p]
    <3>1. 1..saved'[p] \subseteq 1..saved[p]
      BY <1>2
    <3> QED
      BY <1>2, <3>1 DEF HandledInv
  <2> QED
    BY <1>1, <2>1 DEF HandledInv
<1>6. TrackerInv'
  BY <1>1 DEF TrackerInv
<1> QED
  BY <1>3, <1>4, <1>5, <1>6 DEF StoreInv

\* A stop that leaves the offsets alone, while none is ahead of the position, leaves
\* the pending messages as they are, but for a partition that a failed clear() cut.
LEMMA StopKeepsPending ==
    ASSUME IInv, Interrupted, up, saved' = saved, failed' = failed,
           Undisturbed \/ ~reSnapshotHandled
    PROVE  /\ ~up' /\ log' = log /\ handled' = handled
           /\ \A p \in Partitions : \/ Pending(p)' = Pending(p)
                                    \/ Cut(p) /\ Pending(p)' = 1
           /\ (Offsets /\ HandledInv /\ TrackerInv)'
           /\ WillRebuild => WillRebuild'
<1> USE DEF IInv
<1>1. /\ ~up' /\ log' = log /\ handled' = handled
      /\ resumeOffsets' = NoOffsets /\ position' = [p \in Partitions |-> 1]
  BY DEF Interrupted, kafka
<1>2. ASSUME NEW p \in Partitions
      PROVE  /\ Pending(p)' = saved[p] + 1
             /\ Len(log[p]) \in Nat /\ saved[p] \in Nat
             /\ Pending(p)' = Pending(p) \/ (Cut(p) /\ Pending(p)' = 1)
  <2>1. Pending(p)' = saved[p] + 1 /\ Len(log[p]) \in Nat /\ saved[p] \in Nat
    BY <1>1, Numbers DEF Pending
  <2>2. Pending(p) = saved[p] + 1 \/ Cut(p)
    BY DEF Undisturbed, Offsets
  <2>3. Cut(p) => saved[p] = 0
    BY DEF Cut
  <2> QED
    BY <2>1, <2>2, <2>3
<1>3. Offsets'
  BY <1>1, <1>2 DEF Offsets, NoOffsets
<1>4. HandledInv'
  <2>1. \A p \in Partitions : Pending(p)' - 1 = saved[p]
    BY <1>2
  <2> QED
    BY <1>1, <2>1 DEF HandledInv
<1>5. TrackerInv'
  BY <1>1 DEF TrackerInv
<1>6. WillRebuild => WillRebuild'
  <2> SUFFICES ASSUME WillRebuild
               PROVE  WillRebuild'
    OBVIOUS
  <2>1. \A p \in Partitions : ~Cut(p)
    BY DEF WillRebuild, Cut
  <2>2. \A p \in Partitions : Pending(p)' = Pending(p)
    BY <1>2, <2>1
  <2> QED
    BY <1>1, <2>2 DEF WillRebuild, Offsets
<1> QED
  BY <1>1, <1>2, <1>3, <1>4, <1>5, <1>6

\* A row that a stop leaves alone stays good.
LEMMA StopKeepsRow ==
    ASSUME TypeOK, NEW p \in Partitions, NEW k \in Keys, Good(p, k),
           rows'[p][k] = rows[p][k], log' = log, failed' = failed,
           Pending(p)' = Pending(p) \/ (Cut(p) /\ Pending(p)' = 1)
    PROVE  Good(p, k)'
<1>1. CASE Pending(p)' = Pending(p)
  BY <1>1 DEF Good, Image, Lost, Writes, LastWrites
<1>2. CASE Cut(p) /\ Pending(p)' = 1
  <2>1. rows'[p][k] = Image(p, k, 0)
    BY <1>2, ImageOfNothing DEF Cut
  <2> QED
    BY <1>2, <2>1, RowIsGood
<1> QED
  BY <1>1, <1>2

LEMMA CrashKeepsInvariant ==
    ASSUME IInv, Undisturbed, Crash
    PROVE  (Offsets /\ StoreInv /\ HandledInv /\ TrackerInv)'
<1> USE DEF IInv
<1>1. up /\ rows' = rows /\ saved' = saved /\ failed' = failed /\ Interrupted
  BY DEF Crash
<1>2. AllGood => AllGood'
  BY <1>1, StopKeepsPending, StopKeepsRow DEF AllGood
<1> QED
  BY <1>1, <1>2, StopKeepsPending DEF StoreInv

\* The message being delivered is the pending one of its partition.
LEMMA DeliveredIsPending ==
    ASSUME TypeOK, NEW p \in Partitions, Delivered(p), ~Old(p)
    PROVE  /\ up /\ Pending(p) = position[p] /\ position[p] \in 1..Len(log[p])
           /\ Len(log[p]) \in Nat /\ log[p][position[p]] \in Messages
BY DeliveredMessage DEF Delivered, Pending

LEMMA HandleInterruptedKeepsInvariant ==
    ASSUME IInv, Undisturbed, NEW p \in Partitions, HandleInterrupted(p)
    PROVE  (Offsets /\ StoreInv /\ HandledInv /\ TrackerInv)'
<1> USE DEF IInv
<1>1. /\ up /\ rows' = Applied(rows, p) /\ saved' = saved /\ failed' = failed
      /\ Interrupted
      /\ Pending(p) = position[p] /\ position[p] \in 1..Len(log[p])
      /\ Len(log[p]) \in Nat
  BY DeliveredIsPending DEF HandleInterrupted
<1>2. AllGood => AllGood'
  <2>1. ASSUME NEW q \in Partitions, NEW k \in Keys, Good(q, k)
        PROVE  Good(q, k)'
    <3>1. /\ log' = log
          /\ Pending(q)' = Pending(q) \/ (Cut(q) /\ Pending(q)' = 1)
      BY <1>1, StopKeepsPending
    <3>2. CASE q = p /\ log[p][position[p]].key = k
      BY <1>1, <3>1, <3>2 DEF Good
    <3>3. CASE ~(q = p /\ log[p][position[p]].key = k)
      <4>1. rows'[q][k] = rows[q][k]
        BY <1>1, <3>3 DEF Applied, TypeOK
      <4> QED
        BY <1>1, <2>1, <3>1, <4>1, StopKeepsRow
    <3> QED
      BY <3>2, <3>3
  <2> QED
    BY <2>1 DEF AllGood
<1> QED
  BY <1>1, <1>2, StopKeepsPending DEF StoreInv

\* What a rebuild leaves after one message: the store holds nothing or what that
\* message wrote, and everything is pending.
LEMMA RebuildIsGood ==
    ASSUME TypeOK, TypeOK', NEW p \in Partitions, position[p] \in 1..Len(log[p]),
           log' = log, rows' = Applied(NoRows, p),
           \A q \in Partitions : Pending(q)' = 1
    PROVE  AllGood'
<1> SUFFICES ASSUME NEW q \in Partitions, NEW k \in Keys
             PROVE  Good(q, k)'
  BY DEF AllGood
<1>1. CASE q = p /\ log[p][position[p]].key = k
  BY <1>1 DEF Good
<1>2. CASE ~(q = p /\ log[p][position[p]].key = k)
  <2>1. rows'[q][k] = 0
    BY <1>2 DEF Applied, NoRows
  <2>2. Image(q, k, 0)' = 0
    BY DEF Image, Writes
  <2> QED
    BY <2>1, <2>2 DEF Good
<1> QED
  BY <1>1, <1>2

LEMMA RebuildInterruptedKeepsInvariant ==
    ASSUME IInv, TypeOK', NEW p \in Partitions, RebuildInterrupted(p)
    PROVE  (Offsets /\ StoreInv /\ HandledInv /\ TrackerInv)'
<1> USE DEF IInv
<1>1. /\ up /\ Interrupted /\ Pending(p) = position[p]
      /\ position[p] \in 1..Len(log[p]) /\ Len(log[p]) \in Nat
      /\ resumed /\ ~reSnapshotHandled /\ log[p][position[p]].op = "r"
  BY DeliveredIsPending DEF RebuildInterrupted, Detected
<1>2. CASE saved' = saved
  <2>1. WillRebuild
    BY <1>1 DEF WillRebuild
  <2> QED
    BY <1>1, <1>2, <2>1, StopKeepsPending DEF StoreInv, RebuildInterrupted
<1>3. CASE saved' = NoOffsets /\ rows' \in {NoRows, Applied(NoRows, p)}
  <2>1. /\ ~up' /\ log' = log /\ handled' = handled /\ resumeOffsets' = NoOffsets
        /\ position' = [q \in Partitions |-> 1]
    BY <1>1 DEF Interrupted, kafka
  <2>2. \A q \in Partitions : Pending(q)' = 1
    BY <1>3, <2>1 DEF Pending, NoOffsets
  <2>3. AllGood'
    BY <1>1, <1>3, <2>1, <2>2, NothingIsGood, RebuildIsGood
  <2>4. Offsets'
    <3>1. ASSUME NEW q \in Partitions
          PROVE  /\ saved'[q] <= Len(log'[q]) /\ resumeOffsets'[q] <= Len(log'[q])
                 /\ position'[q] <= Len(log'[q]) + 1
      BY <1>3, <2>1, Numbers DEF NoOffsets
    <3> QED
      BY <2>1, <3>1 DEF Offsets
  <2>5. HandledInv' /\ TrackerInv'
    BY <1>3, <2>1, <2>2 DEF HandledInv, TrackerInv, NoOffsets
  <2> QED
    BY <2>3, <2>4, <2>5 DEF StoreInv
<1> QED
  BY <1>2, <1>3 DEF RebuildInterrupted

LEMMA SkipOldKeepsInvariant ==
    ASSUME IInv, TypeOK', NEW p \in Partitions, SkipOld(p)
    PROVE  (Offsets /\ StoreInv /\ HandledInv /\ TrackerInv)'
<1> USE DEF IInv
<1>1. /\ up /\ up' = up /\ log' = log /\ rows' = rows /\ saved' = saved
      /\ hashStale' = hashStale /\ resumeOffsets' = resumeOffsets
      /\ resumed' = resumed /\ reSnapshotHandled' = reSnapshotHandled
      /\ tracker' = tracker /\ handled' = handled /\ failed' = failed
      /\ Old(p) /\ p \notin seekDone /\ seekDone' = seekDone \cup {p}
      /\ position' = [position EXCEPT ![p] = SeekTo(p, Target(p))]
  BY DEF SkipOld, Delivered, kafka, store, history, Offsets
<1>2. position' = [position EXCEPT ![p] = resumeOffsets[p] + 1]
  <2>1. resumeOffsets[p] <= Len(log[p])
    BY DEF Offsets
  <2>2. resumeOffsets[p] + 1 <= Len(log[p]) + 1
    BY <2>1, Numbers
  <2> QED
    BY <1>1, <2>2 DEF SeekTo, Target
<1>3. /\ \A q \in Partitions : Pending(q)' = Pending(q)
      /\ \A q \in Partitions \ {p} : position'[q] = position[q]
      /\ position'[p] = resumeOffsets[p] + 1
  BY <1>1, <1>2, Numbers DEF Pending, Old, TypeOK
<1>4. Offsets'
  <2>1. ASSUME NEW q \in Partitions
        PROVE  /\ saved'[q] <= Len(log'[q]) /\ resumeOffsets'[q] <= Len(log'[q])
               /\ position'[q] <= Len(log'[q]) + 1
    BY <1>1, <1>3, Numbers DEF Offsets
  <2>2. ASSUME NEW q \in Partitions
        PROVE  /\ q \in seekDone' => ~Old(q)'
               /\ \/ saved'[q] + 1 = Pending(q)'
                  \/ reSnapshotHandled' /\ Exposed(q)' /\ position'[q] = 1
                  \/ Cut(q)'
    <3>1. Cut(q) => Cut(q)'
      BY <1>1, <1>3 DEF Cut
    <3>2. CASE q = p
      <4>1. ~Old(p)' /\ ~Exposed(p)
        BY <1>1, <1>3, Numbers DEF Old, Exposed
      <4>2. saved[p] + 1 = Pending(p) \/ Cut(p)
        BY <1>1, <4>1 DEF Offsets
      <4> QED
        BY <1>1, <1>3, <3>1, <3>2, <4>1, <4>2
    <3>3. CASE q # p
      BY <1>1, <1>3, <3>1, <3>3 DEF Offsets, Old, Exposed
    <3> QED
      BY <3>2, <3>3
  <2> QED
    BY <1>1, <2>1, <2>2 DEF Offsets
<1>5. StoreInv'
  <2>1. ASSUME NEW q \in Partitions, NEW k \in Keys, Good(q, k)
        PROVE  Good(q, k)'
    <3>1. /\ Pending(q)' = Pending(q)
          /\ Image(q, k, Pending(q) - 1)' = Image(q, k, Pending(q) - 1)
      BY <1>1, <1>3 DEF Image, Writes, LastWrites
    <3>2. Lost(q, k, Pending(q) - 1)' = Lost(q, k, Pending(q) - 1)
      BY <1>1, <3>1 DEF Lost, Writes, LastWrites
    <3> QED
      BY <1>1, <2>1, <3>1, <3>2 DEF Good
  <2>2. AllGood => AllGood'
    BY <2>1 DEF AllGood
  <2>3. WillRebuild => WillRebuild'
    BY <1>1, <1>3 DEF WillRebuild
  <2> QED
    BY <1>1, <2>2, <2>3 DEF StoreInv
<1>6. HandledInv' /\ TrackerInv'
  BY <1>1, <1>3 DEF HandledInv, TrackerInv
<1> QED
  BY <1>4, <1>5, <1>6
\* The writes of a row by the first n messages and by those before them.
LEMMA LastWritesStep ==
    ASSUME TypeOK, NEW p \in Partitions, NEW k \in Keys, NEW n \in 1..Len(log[p])
    PROVE  /\ log[p][n].key = k => LastWrites(p, k, n) = {n} /\ Writes(p, k, n) # {}
           /\ log[p][n].key # k => /\ LastWrites(p, k, n) = LastWrites(p, k, n - 1)
                                   /\ Writes(p, k, n) = Writes(p, k, n - 1)
           /\ n \notin LastWrites(p, k, n - 1)
<1>1. Len(log[p]) \in Nat
  BY DEF TypeOK
<1>2. n \notin Writes(p, k, n - 1)
  BY <1>1 DEF Writes
<1>3. CASE log[p][n].key = k
  <2>1. n \in Writes(p, k, n) /\ \A j \in Writes(p, k, n) : j \in Nat /\ j <= n
    BY <1>1, <1>3 DEF Writes
  <2>2. LastWrites(p, k, n) = {n}
    BY <2>1 DEF LastWrites
  <2> QED
    BY <1>2, <1>3, <2>1, <2>2 DEF LastWrites
<1>4. CASE log[p][n].key # k
  <2>1. Writes(p, k, n) = Writes(p, k, n - 1)
    BY <1>1, <1>4 DEF Writes
  <2>2. LastWrites(p, k, n) = LastWrites(p, k, n - 1)
    BY <2>1 DEF LastWrites
  <2> QED
    BY <1>2, <1>4, <2>1, <2>2 DEF LastWrites
<1> QED
  BY <1>3, <1>4

\* The message delivered is handled, or its handler fails on the way; its row is
\* written or marked as failed.
Advances(p) ==
    /\ UNCHANGED <<log, up, hashStale, resumed, resumeOffsets, seekDone, reSnapshotHandled>>
    /\ position' = [position EXCEPT ![p] = @ + 1]
    /\ saved' = [saved EXCEPT ![p] = position[p]]
    /\ handled' = [handled EXCEPT ![p] = @ \cup {position[p]}]
    /\ rows' \in {rows, Applied(rows, p)}
    /\ \A q \in Partitions \ {p} : failed'[q] = failed[q]
    /\ failed[p] \ {position[p]} \subseteq failed'[p]
    /\ rows' = Applied(rows, p) \/ position[p] \in failed'[p]
    /\ ~tracker'.ready => /\ ~tracker.ready
                          /\ log[p][position[p]].last => position[p] \in failed'[p]

LEMMA HandleAdvances ==
    ASSUME TypeOK, TypeOK', NEW p \in Partitions, Process(p) \/ HandleFails(p),
           ~Detected(log[p][position[p]])
    PROVE  Advances(p) /\ Delivered(p) /\ ~Old(p)
<1>1. CASE Process(p)
  <2>1. Delivered(p) /\ ~Old(p) /\ Handle(p)
    BY <1>1 DEF Process
  <2>2. \A q \in Partitions : failed'[q] = IF q = p THEN failed[q] \ {position[p]} ELSE failed[q]
    BY <1>1 DEF Process, TypeOK
  <2>3. ~tracker'.ready => ~tracker.ready /\ ~log[p][position[p]].last
    BY <2>1 DEF Handle, ProcessEvent, Marked, TypeOK, Trackers
  <2> QED
    BY <1>1, <2>1, <2>2, <2>3 DEF Process, Handle, Advances, kafka
<1>2. CASE HandleFails(p)
  <2>1. \A q \in Partitions : failed'[q] = IF q = p THEN failed[q] \cup {position[p]} ELSE failed[q]
    BY <1>2 DEF HandleFails, TypeOK
  <2> QED
    BY <1>2, <2>1 DEF HandleFails, Misapplied, Failing, Advances, kafka
<1> QED
  BY <1>1, <1>2

LEMMA AdvanceKeepsInvariant ==
    ASSUME IInv, TypeOK', NEW p \in Partitions, Advances(p), Delivered(p), ~Old(p),
           ~Detected(log[p][position[p]])
    PROVE  (Offsets /\ StoreInv /\ HandledInv /\ TrackerInv)'
<1> USE DEF IInv
<1> DEFINE message == log[p][position[p]]
<1>1. /\ up /\ up' /\ log' = log /\ rows' \in {rows, Applied(rows, p)}
      /\ saved' = [saved EXCEPT ![p] = position[p]]
      /\ hashStale' = hashStale /\ resumeOffsets' = resumeOffsets
      /\ resumed' = resumed /\ reSnapshotHandled' = reSnapshotHandled
      /\ seekDone' = seekDone
      /\ handled' = [handled EXCEPT ![p] = @ \cup {position[p]}]
      /\ position' = [position EXCEPT ![p] = @ + 1]
      /\ ~Old(p)
  BY DEF Advances, Delivered
<1>2. /\ Pending(p) = position[p] /\ position[p] \in 1..Len(log[p])
      /\ Len(log[p]) \in Nat /\ message \in Messages
  BY DeliveredIsPending
<1>3. /\ ~Old(p)' /\ Pending(p)' = position[p] + 1
      /\ position'[p] = position[p] + 1 /\ saved'[p] = position[p]
  BY <1>1, <1>2, Numbers DEF Old, Pending, TypeOK
<1>4. \A q \in Partitions \ {p} :
          /\ Pending(q)' = Pending(q) /\ Old(q)' = Old(q) /\ Exposed(q)' = Exposed(q)
          /\ position'[q] = position[q] /\ saved'[q] = saved[q]
          /\ handled'[q] = handled[q]
  BY <1>1 DEF Old, Pending, Exposed, TypeOK
<1>5. Offsets'
  <2>1. ASSUME NEW q \in Partitions
        PROVE  /\ saved'[q] <= Len(log'[q]) /\ resumeOffsets'[q] <= Len(log'[q])
               /\ position'[q] <= Len(log'[q]) + 1
    <3>1. CASE q = p
      BY <1>1, <1>2, <1>3, <3>1 DEF Offsets
    <3>2. CASE q # p
      BY <1>1, <1>4, <3>2 DEF Offsets
    <3> QED
      BY <3>1, <3>2
  <2>2. ASSUME NEW q \in Partitions
        PROVE  /\ q \in seekDone' => ~Old(q)'
               /\ \/ saved'[q] + 1 = Pending(q)'
                  \/ reSnapshotHandled' /\ Exposed(q)' /\ position'[q] = 1
                  \/ Cut(q)'
    <3>1. CASE q = p
      BY <1>3, <3>1
    <3>2. CASE q # p
      <4>1. failed'[q] = failed[q] /\ \A k \in Keys : rows'[q][k] = rows[q][k]
        BY <1>1, <3>2 DEF Advances, Applied, TypeOK
      <4>2. Cut(q) => Cut(q)'
        BY <1>1, <1>4, <3>2, <4>1 DEF Cut
      <4> QED
        BY <1>1, <1>4, <3>2, <4>2 DEF Offsets
    <3> QED
      BY <3>1, <3>2
  <2>3. saved' # NoOffsets
    BY <1>2, <1>3 DEF NoOffsets
  <2>4. ~hashStale'
    BY <1>1 DEF Offsets
  <2> QED
    BY <2>1, <2>2, <2>3, <2>4 DEF Offsets
<1>6. StoreInv'
  <2>1. ASSUME NEW q \in Partitions, NEW k \in Keys, Good(q, k)
        PROVE  Good(q, k)'
    <3>1. CASE q # p
      <4>1. rows'[q][k] = rows[q][k]
        BY <1>1, <3>1 DEF Applied, TypeOK
      <4>2. Pending(q)' = Pending(q) /\ Pending(q) \in Nat \ {0}
        BY <1>4, <3>1, Numbers
      <4>3. CASE rows[q][k] = Image(q, k, Pending(q) - 1)
        BY <1>1, <4>1, <4>2, <4>3, RowIsGood
      <4>4. CASE \E j \in Pending(q)..Len(log[q]) : log[q][j].key = k
        BY <1>1, <4>2, <4>4 DEF Good
      <4>5. CASE Lost(q, k, Pending(q) - 1)
        <5>1. failed'[q] = failed[q]
          BY <3>1 DEF Advances
        <5> QED
          BY <1>1, <4>2, <4>5, <5>1, LostIsGood DEF Lost
      <4> QED
        BY <2>1, <4>3, <4>4, <4>5 DEF Good
    <3>2. ASSUME q = p, message.key = k
          PROVE  Good(q, k)'
      <4>1. LastWrites(p, k, position[p]) = {position[p]} /\ Writes(p, k, position[p]) # {}
        BY <1>2, <3>2, LastWritesStep
      <4>2. CASE position[p] \in failed'[p]
        BY <1>1, <1>2, <1>3, <3>2, <4>1, <4>2, LostIsGood
      <4>3. CASE rows' = Applied(rows, p)
        <5>1. rows'[p][k] = Row(message, position[p])
          BY <3>2, <4>3 DEF Applied, TypeOK
        <5>2. Image(p, k, position[p]) = Row(message, position[p])
          BY <1>2, <3>2, ImageStep
        <5> QED
          BY <1>1, <1>2, <1>3, <3>2, <5>1, <5>2, RowIsGood
      <4> QED
        BY <4>2, <4>3 DEF Advances
    <3>3. ASSUME q = p, message.key # k
          PROVE  Good(q, k)'
      <4>1. rows'[p][k] = rows[p][k]
        BY <1>1, <3>3 DEF Applied, TypeOK
      <4>2. Image(p, k, position[p]) = Image(p, k, position[p] - 1)
        BY <1>2, <3>3, ImageStep
      <4>3. CASE rows[p][k] = Image(p, k, position[p] - 1)
        BY <1>1, <1>2, <1>3, <3>3, <4>1, <4>2, <4>3, RowIsGood
      <4>4. ASSUME NEW j \in position[p]..Len(log[p]), log[p][j].key = k
            PROVE  Good(p, k)'
        <5>1. j \in (position[p] + 1)..Len(log[p])
          BY <1>2, <3>3, <4>4
        <5> QED
          BY <1>1, <1>3, <4>4, <5>1 DEF Good
      <4>5. CASE Lost(p, k, position[p] - 1)
        <5>1. /\ Writes(p, k, position[p]) # {}
              /\ LastWrites(p, k, position[p]) \subseteq failed[p] \ {position[p]}
          BY <1>2, <3>3, <4>5, LastWritesStep DEF Lost
        <5>2. failed[p] \ {position[p]} \subseteq failed'[p]
          BY DEF Advances
        <5> QED
          BY <1>1, <1>2, <1>3, <3>3, <5>1, <5>2, LostIsGood
      <4> QED
        BY <1>2, <2>1, <3>3, <4>3, <4>4, <4>5 DEF Good
    <3> QED
      BY <3>1, <3>2, <3>3
  <2>2. AllGood => AllGood'
    BY <2>1 DEF AllGood
  <2>3. WillRebuild => WillRebuild'
    <3> SUFFICES ASSUME WillRebuild PROVE WillRebuild'
      OBVIOUS
    <3>1. PICK q \in Partitions : Pending(q) <= Len(log[q]) /\ log[q][Pending(q)].op = "r"
      BY DEF WillRebuild
    <3>2. q # p
      BY <1>1, <1>2, <3>1 DEF WillRebuild, Detected
    <3> QED
      BY <1>1, <1>4, <3>1, <3>2 DEF WillRebuild
  <2> QED
    BY <1>1, <2>2, <2>3 DEF StoreInv
<1>7. HandledInv'
  <2>1. ASSUME NEW q \in Partitions
        PROVE  /\ 1..saved'[q] \subseteq handled'[q]
               /\ 1..(Pending(q)' - 1) \subseteq handled'[q]
    <3>1. CASE q = p
      <4>1. handled'[p] = handled[p] \cup {position[p]}
        BY <1>1 DEF TypeOK
      <4>2. 1..(position[p] - 1) \subseteq handled[p]
        BY <1>2 DEF HandledInv
      <4>3. 1..position[p] = 1..(position[p] - 1) \cup {position[p]}
        BY <1>2
      <4>4. position[p] + 1 - 1 = position[p]
        BY <1>2
      <4> QED
        BY <1>2, <1>3, <3>1, <4>1, <4>2, <4>3, <4>4
    <3>2. CASE q # p
      BY <1>4, <3>2 DEF HandledInv
    <3> QED
      BY <3>1, <3>2
  <2> QED
    BY <2>1 DEF HandledInv
<1>8. TrackerInv'
  <2> SUFFICES ASSUME ~tracker'.ready, NEW q \in Partitions,
                      NEW i \in 1..(Pending(q)' - 1), log'[q][i].last
               PROVE  i \in failed'[q]
    BY DEF TrackerInv
  <2>1. ~tracker.ready /\ (message.last => position[p] \in failed'[p])
    BY DEF Advances
  <2>2. CASE q # p
    <3>1. failed'[q] = failed[q]
      BY <2>2 DEF Advances
    <3> QED
      BY <1>1, <1>4, <2>1, <2>2, <3>1 DEF TrackerInv
  <2>3. CASE q = p /\ i = position[p]
    BY <1>1, <2>1, <2>3
  <2>4. CASE q = p /\ i # position[p]
    <3>1. i \in 1..(Pending(p) - 1) /\ log[p][i].last
      BY <1>1, <1>2, <1>3, <2>4
    <3>2. i \in failed[p]
      BY <1>1, <2>1, <3>1 DEF TrackerInv
    <3> QED
      BY <2>4, <3>2 DEF Advances
  <2> QED
    BY <2>2, <2>3, <2>4
<1> QED
  BY <1>5, <1>6, <1>7, <1>8

LEMMA HandleKeepsInvariant ==
    ASSUME IInv, TypeOK', NEW p \in Partitions, Process(p) \/ HandleFails(p),
           ~Detected(log[p][position[p]])
    PROVE  (Offsets /\ StoreInv /\ HandledInv /\ TrackerInv)'
BY HandleAdvances, AdvanceKeepsInvariant DEF IInv

LEMMA RebuildKeepsInvariant ==
    ASSUME OnePartition, IInv, TypeOK', NEW p \in Partitions,
           Process(p) \/ RebuildFails(p), Detected(log[p][position[p]])
    PROVE  (Offsets /\ StoreInv /\ HandledInv /\ TrackerInv)'
<1> USE DEF IInv
<1>1. /\ up /\ up' /\ log' = log /\ rows' \in {NoRows, Applied(NoRows, p)}
      /\ saved' = [NoOffsets EXCEPT ![p] = position[p]]
      /\ hashStale' = hashStale /\ resumeOffsets' = NoOffsets
      /\ reSnapshotHandled' /\ seekDone' = {}
      /\ handled' = [handled EXCEPT ![p] = @ \cup {position[p]}]
      /\ position' = [q \in Partitions |-> 1]
      /\ Delivered(p) /\ ~Old(p)
  <2>1. \A q \in Partitions : Rewound(p)[q] = 1
    BY DEF Rewound, OnePartition
  <2>2. Rewound(p) = [q \in Partitions |-> 1]
    BY <2>1 DEF Rewound
  <2>3. CASE Process(p)
    BY <2>2, <2>3 DEF Process, Delivered, Rebuild, kafka
  <2>4. CASE RebuildFails(p)
    BY <2>2, <2>4 DEF RebuildFails, Misapplied, Failing, Delivered, kafka
  <2> QED
    BY <2>3, <2>4
<1>2. /\ Pending(p) = position[p] /\ position[p] \in 1..Len(log[p])
      /\ Len(log[p]) \in Nat
  BY <1>1, DeliveredIsPending
<1>3. \A q \in Partitions : Pending(q)' = 1 /\ ~Old(q)'
  BY <1>1 DEF Pending, Old, NoOffsets
<1>4. /\ saved'[p] = position[p]
      /\ \A q \in Partitions \ {p} : saved'[q] = 0
  BY <1>1 DEF NoOffsets
<1>5. Offsets'
  <2>1. ASSUME NEW q \in Partitions
        PROVE  /\ saved'[q] <= Len(log'[q]) /\ resumeOffsets'[q] <= Len(log'[q])
               /\ position'[q] <= Len(log'[q]) + 1
               /\ q \notin seekDone'
               /\ \/ saved'[q] + 1 = Pending(q)'
                  \/ reSnapshotHandled' /\ Exposed(q)' /\ position'[q] = 1
    <3>1. resumeOffsets'[q] = 0 /\ position'[q] = 1 /\ Len(log'[q]) \in Nat
      BY <1>1, Numbers DEF NoOffsets
    <3>2. CASE q = p
      BY <1>1, <1>2, <1>4, <3>1, <3>2 DEF Exposed
    <3>3. CASE q # p
      BY <1>1, <1>3, <1>4, <3>1, <3>3
    <3> QED
      BY <3>2, <3>3
  <2>2. saved' # NoOffsets
    BY <1>2, <1>4 DEF NoOffsets
  <2>3. ~hashStale'
    BY <1>1 DEF Offsets
  <2> QED
    BY <2>1, <2>2, <2>3 DEF Offsets
<1>6. StoreInv'
  BY <1>1, <1>2, <1>3, NothingIsGood, RebuildIsGood DEF StoreInv
<1>7. HandledInv'
  <2>1. ASSUME NEW q \in Partitions
        PROVE  1..saved'[q] \subseteq handled'[q]
    <3>1. CASE q = p
      <4>1. handled'[p] = handled[p] \cup {position[p]}
        BY <1>1 DEF TypeOK
      <4>2. 1..(position[p] - 1) \subseteq handled[p]
        BY <1>2 DEF HandledInv
      <4>3. 1..position[p] = 1..(position[p] - 1) \cup {position[p]}
        BY <1>2
      <4> QED
        BY <1>4, <3>1, <4>1, <4>2, <4>3
    <3>2. CASE q # p
      BY <1>4, <3>2
    <3> QED
      BY <3>1, <3>2
  <2> QED
    BY <1>3, <2>1 DEF HandledInv
<1>8. TrackerInv'
  BY <1>3 DEF TrackerInv
<1> QED
  BY <1>5, <1>6, <1>7, <1>8
\* A clear that fails: a row written up to the pending message is marked as failed, and
\* another, if it is there, comes from a message still to be read.
LEMMA ClearFailsKeepsInvariant ==
    ASSUME IInv, TypeOK', NEW p \in Partitions, ClearFails(p)
    PROVE  (Offsets /\ StoreInv /\ HandledInv /\ TrackerInv)'
<1> USE DEF IInv
<1>1. /\ up /\ up' /\ log' = log /\ rows' \in {rows, NoRows}
      /\ \/ saved' = [saved EXCEPT ![p] = position[p]]
         \/ saved' = [NoOffsets EXCEPT ![p] = position[p]] /\ rows' = NoRows
      /\ hashStale' = hashStale /\ resumeOffsets' = resumeOffsets
      /\ reSnapshotHandled' /\ ~reSnapshotHandled /\ seekDone' = seekDone
      /\ handled' = [handled EXCEPT ![p] = @ \cup {position[p]}]
      /\ position' = [position EXCEPT ![p] = @ + 1]
      /\ Delivered(p) /\ ~Old(p)
  BY DEF ClearFails, Failing, Delivered, Detected, kafka
<1>2. /\ Pending(p) = position[p] /\ position[p] \in 1..Len(log[p])
      /\ Len(log[p]) \in Nat
  BY <1>1, DeliveredIsPending
<1>3. /\ ~Old(p)' /\ Pending(p)' = position[p] + 1
      /\ position'[p] = position[p] + 1 /\ saved'[p] = position[p]
  BY <1>1, <1>2, Numbers DEF Old, Pending, NoOffsets, TypeOK
<1>4. \A q \in Partitions \ {p} :
          /\ Pending(q)' = Pending(q) /\ Old(q)' = Old(q)
          /\ position'[q] = position[q]
          /\ \/ saved'[q] = saved[q]
             \/ saved'[q] = 0 /\ rows' = NoRows
          /\ handled'[q] = handled[q]
  BY <1>1 DEF Old, Pending, NoOffsets, TypeOK
<1>5. ASSUME NEW q \in Partitions
      PROVE  1..(Pending(q)' - 1) \subseteq failed'[q]
  <2>1. failed'[q] = failed[q] \cup 1..resumeOffsets[q] \cup 1..(position'[q] - 1)
    BY DEF ClearFails
  <2>2. Pending(q)' - 1 = resumeOffsets[q] \/ Pending(q)' - 1 = position'[q] - 1
    BY <1>1, Numbers DEF Pending
  <2> QED
    BY <2>1, <2>2
<1>6. Offsets'
  <2>1. ASSUME NEW q \in Partitions
        PROVE  /\ saved'[q] <= Len(log'[q]) /\ resumeOffsets'[q] <= Len(log'[q])
               /\ position'[q] <= Len(log'[q]) + 1
    <3>1. CASE q = p
      BY <1>1, <1>2, <1>3, <3>1 DEF Offsets
    <3>2. CASE q # p
      BY <1>1, <1>4, <3>2, Numbers DEF Offsets
    <3> QED
      BY <3>1, <3>2
  <2>2. ASSUME NEW q \in Partitions
        PROVE  /\ q \in seekDone' => ~Old(q)'
               /\ saved'[q] + 1 = Pending(q)' \/ Cut(q)'
    <3>1. CASE q = p
      BY <1>3, <3>1
    <3>2. CASE q # p /\ saved'[q] = saved[q]
      <4>1. ~Cut(q)
        BY <1>1 DEF Cut
      <4> QED
        BY <1>1, <1>4, <3>2, <4>1 DEF Offsets
    <3>3. CASE q # p /\ saved'[q] = 0 /\ rows' = NoRows
      <4>1. Cut(q)'
        BY <1>1, <1>5, <3>3 DEF Cut, NoRows
      <4> QED
        BY <1>1, <1>4, <3>3, <4>1 DEF Offsets
    <3> QED
      BY <1>4, <3>1, <3>2, <3>3
  <2>3. saved' # NoOffsets
    BY <1>2, <1>3 DEF NoOffsets
  <2> QED
    BY <1>1, <2>1, <2>2, <2>3 DEF Offsets
<1>7. StoreInv'
  <2> SUFFICES ASSUME NEW q \in Partitions, NEW k \in Keys
               PROVE  Good(q, k)'
    BY DEF StoreInv, AllGood
  <2> DEFINE n == Pending(q)' - 1
  <2>1. n \in Nat /\ Pending(q)' = n + 1
    BY <1>3, <1>4, Numbers
  <2>2. CASE Writes(q, k, n) # {}
    <3>1. LastWrites(q, k, n) \subseteq 1..n
      BY DEF LastWrites, Writes
    <3> QED
      BY <1>1, <1>5, <2>1, <2>2, <3>1, LostIsGood
  <2>3. CASE Writes(q, k, n) = {} /\ rows'[q][k] = 0
    BY <1>1, <2>1, <2>3, RowIsGood DEF Image
  <2>4. CASE Writes(q, k, n) = {} /\ rows'[q][k] # 0
    <3>1. rows'[q][k] = rows[q][k]
      BY <1>1, <2>4 DEF NoRows
    <3>2. PICK j \in 1..Len(log[q]) : log[q][j].key = k
      BY <2>4, <3>1 DEF RowsInv
    <3>3. j \in Pending(q)'..Len(log[q])
      BY <2>1, <2>4, <3>2, Numbers DEF Writes
    <3> QED
      BY <1>1, <3>2, <3>3 DEF Good
  <2> QED
    BY <2>2, <2>3, <2>4
<1>8. HandledInv'
  <2>1. ASSUME NEW q \in Partitions
        PROVE  /\ 1..saved'[q] \subseteq handled'[q]
               /\ 1..(Pending(q)' - 1) \subseteq handled'[q]
    <3>1. CASE q = p
      <4>1. handled'[p] = handled[p] \cup {position[p]}
        BY <1>1 DEF TypeOK
      <4>2. 1..(position[p] - 1) \subseteq handled[p]
        BY <1>2 DEF HandledInv
      <4>3. 1..position[p] = 1..(position[p] - 1) \cup {position[p]}
        BY <1>2
      <4>4. position[p] + 1 - 1 = position[p]
        BY <1>2
      <4> QED
        BY <1>2, <1>3, <3>1, <4>1, <4>2, <4>3, <4>4
    <3>2. CASE q # p
      <4>1. 1..saved'[q] \subseteq 1..saved[q]
        BY <1>4, <3>2, Numbers
      <4> QED
        BY <1>4, <3>2, <4>1 DEF HandledInv
    <3> QED
      BY <3>1, <3>2
  <2> QED
    BY <2>1 DEF HandledInv
<1>9. TrackerInv'
  BY <1>5 DEF TrackerInv
<1> QED
  BY <1>6, <1>7, <1>8, <1>9

-----------------------------------------------------------------------------
\* Writes and clears of the store keep RowsInv.
LEMMA RowsFromMessages ==
    ASSUME TypeOK, RowsInv, LogsGrow,
           \/ rows' \in {rows, NoRows}
           \/ \E p \in Partitions :
                 /\ Delivered(p) /\ log' = log
                 /\ rows' \in {Applied(rows, p), Applied(NoRows, p)}
    PROVE  RowsInv'
<1> SUFFICES ASSUME NEW q \in Partitions, NEW k \in Keys, rows'[q][k] # 0
             PROVE  \E j \in 1..Len(log'[q]) : log'[q][j].key = k
  BY DEF RowsInv
<1>1. ASSUME rows'[q][k] = rows[q][k]
      PROVE  \E j \in 1..Len(log'[q]) : log'[q][j].key = k
  <2>1. PICK j \in 1..Len(log[q]) : log[q][j].key = k
    BY <1>1 DEF RowsInv
  <2> QED
    BY <2>1 DEF LogsGrow
<1>2. NoRows[q][k] = 0
  BY DEF NoRows
<1>3. ASSUME NEW p \in Partitions, Delivered(p), log' = log,
             rows' \in {Applied(rows, p), Applied(NoRows, p)}
      PROVE  \E j \in 1..Len(log'[q]) : log'[q][j].key = k
  <2>1. position[p] \in 1..Len(log[p])
    BY <1>3, DeliveredMessage
  <2>2. CASE q = p /\ log[p][position[p]].key = k
    BY <1>3, <2>1, <2>2
  <2>3. CASE ~(q = p /\ log[p][position[p]].key = k)
    <3>1. rows'[q][k] \in {rows[q][k], NoRows[q][k]}
      BY <1>3, <2>3, NothingTypes DEF Applied, TypeOK
    <3> QED
      BY <1>1, <1>2, <3>1
  <2> QED
    BY <2>2, <2>3
<1> QED
  BY <1>1, <1>2, <1>3

LEMMA NextKeepsRows ==
    ASSUME TypeOK, TypeOK', RowsInv, [Next]_vars
    PROVE  RowsInv'
<1>1. ASSUME log' = log
      PROVE  LogsGrow
  BY <1>1 DEF LogsGrow, TypeOK
<1>2. CASE Kafka
  BY <1>2, KafkaAppends, RowsFromMessages DEF store
<1>3. ASSUME log' = log, rows' \in {rows, NoRows}
      PROVE  RowsInv'
  BY <1>1, <1>3, RowsFromMessages
<1>4. CASE Deploy \/ BootInterrupted \/ Crash \/ UNCHANGED vars
  BY <1>3, <1>4 DEF Deploy, BootInterrupted, Crash, Interrupted, vars, kafka, store
<1>5. ASSUME NEW forceRebuild \in BOOLEAN, Boot(forceRebuild)
      PROVE  RowsInv'
  BY <1>3, <1>5 DEF Boot, Restored, kafka
<1>6. ASSUME NEW p \in Partitions, SkipOld(p) \/ ClearFails(p)
      PROVE  RowsInv'
  BY <1>3, <1>6 DEF SkipOld, ClearFails, Failing, kafka, store
<1>7. ASSUME NEW p \in Partitions,
             Process(p) \/ HandleFails(p) \/ RebuildFails(p)
                \/ HandleInterrupted(p) \/ RebuildInterrupted(p)
      PROVE  RowsInv'
  <2>1. Delivered(p) /\ log' = log
    BY <1>7 DEF Process, HandleFails, RebuildFails, Failing, HandleInterrupted,
                RebuildInterrupted, Interrupted, kafka
  <2>2. rows' \in {rows, NoRows, Applied(rows, p), Applied(NoRows, p)}
    BY <1>7 DEF Process, Handle, Rebuild, HandleFails, RebuildFails, Misapplied,
                HandleInterrupted, RebuildInterrupted
  <2> QED
    BY <1>1, <2>1, <2>2, RowsFromMessages
<1> QED
  BY <1>2, <1>4, <1>5, <1>6, <1>7 DEF Next, Deliver, Fails

-----------------------------------------------------------------------------
(***************************************************************************)
(* The theorems                                                            *)
(***************************************************************************)
LEMMA InitEstablishesInvariant == Init => IInv
<1> SUFFICES ASSUME Init PROVE IInv
  OBVIOUS
<1>1. TypeOK
  BY InitTypes
<1>2. \A p \in Partitions : /\ Pending(p) = 1 /\ saved[p] = 0 /\ resumeOffsets[p] = 0
                            /\ position[p] = 1 /\ Len(log[p]) = 0
  BY DEF Init, Pending, NoOffsets
<1>3. Offsets
  BY <1>2 DEF Offsets, Init
<1>4. StoreInv
  <2>1. ASSUME NEW p \in Partitions, NEW k \in Keys
        PROVE  Good(p, k)
    <3>1. rows[p][k] = 0 /\ Pending(p) - 1 = 0
      BY <1>2 DEF Init, NoRows
    <3>2. Image(p, k, Pending(p) - 1) = Image(p, k, 0)
      BY <3>1 DEF Image
    <3> QED
      BY <3>1, <3>2, ImageOfNothing DEF Good
  <2> QED
    BY <2>1 DEF StoreInv, AllGood
<1>5. HandledInv
  <2>1. \A p \in Partitions : 1..saved[p] = {} /\ 1..(Pending(p) - 1) = {}
    BY <1>2
  <2> QED
    BY <2>1 DEF HandledInv
<1>6. TrackerInv
  BY DEF TrackerInv, Init
<1>7. RowsInv
  BY DEF RowsInv, Init, NoRows
<1> QED
  BY <1>1, <1>3, <1>4, <1>5, <1>6, <1>7 DEF IInv

LEMMA NextKeepsInvariant ==
    ASSUME OnePartition, IInv, [Next]_vars
    PROVE  IInv'
<1>1. TypeOK /\ TypeOK'
  BY NextTypes DEF IInv
<1> SUFFICES (Offsets /\ StoreInv /\ HandledInv /\ TrackerInv)'
  BY <1>1, NextKeepsRows DEF IInv
<1>2. CASE Kafka
  BY <1>1, <1>2, KafkaAppends, AppendKeepsInvariant
<1>3. CASE Deploy
  BY <1>3, DeployKeepsInvariant
<1>4. ASSUME NEW forceRebuild \in BOOLEAN, Boot(forceRebuild)
      PROVE  (Offsets /\ StoreInv /\ HandledInv /\ TrackerInv)'
  BY <1>1, <1>4, BootKeepsInvariant
<1>5. CASE BootInterrupted
  BY <1>1, <1>5, BootInterruptedKeepsInvariant
<1>6. ASSUME NEW p \in Partitions, SkipOld(p)
      PROVE  (Offsets /\ StoreInv /\ HandledInv /\ TrackerInv)'
  BY <1>1, <1>6, SkipOldKeepsInvariant
<1>7. ASSUME NEW p \in Partitions, Process(p)
      PROVE  (Offsets /\ StoreInv /\ HandledInv /\ TrackerInv)'
  BY <1>1, <1>7, HandleKeepsInvariant, RebuildKeepsInvariant
<1>8. ASSUME NEW p \in Partitions, Undisturbed, HandleInterrupted(p)
      PROVE  (Offsets /\ StoreInv /\ HandledInv /\ TrackerInv)'
  BY <1>8, HandleInterruptedKeepsInvariant
<1>9. ASSUME NEW p \in Partitions, RebuildInterrupted(p)
      PROVE  (Offsets /\ StoreInv /\ HandledInv /\ TrackerInv)'
  BY <1>1, <1>9, RebuildInterruptedKeepsInvariant
<1>10. CASE Undisturbed /\ Crash
  BY <1>10, CrashKeepsInvariant
<1>11. CASE UNCHANGED vars
  <2>1. LogsGrow
    BY <1>1, <1>11 DEF vars, kafka, LogsGrow, TypeOK
  <2> QED
    BY <1>11, <2>1, AppendKeepsInvariant DEF vars
<1>12. ASSUME NEW p \in Partitions, Fails(p)
       PROVE  (Offsets /\ StoreInv /\ HandledInv /\ TrackerInv)'
  BY <1>1, <1>12, HandleKeepsInvariant, ClearFailsKeepsInvariant, RebuildKeepsInvariant
     DEF Fails, HandleFails, RebuildFails
<1> QED
  BY <1>2, <1>3, <1>4, <1>5, <1>6, <1>7, <1>8, <1>9, <1>10, <1>11, <1>12
     DEF Next, Deliver

THEOREM Invariant ==
    ASSUME OnePartition
    PROVE  Spec => []IInv
<1>1. Init => IInv
  BY InitEstablishesInvariant
<1>2. IInv /\ [Next]_vars => IInv'
  BY NextKeepsInvariant
<1> QED
  BY <1>1, <1>2, PTL DEF Spec

\* Every variable keeps its type, over any number of partitions.
THEOREM TypeCorrect == Spec => []TypeOK
<1>1. Init => TypeOK
  BY InitTypes
<1>2. TypeOK /\ [Next]_vars => TypeOK'
  BY NextTypes
<1> QED
  BY <1>1, <1>2, PTL DEF Spec

\* A consumer that has read everything has, in its store, exactly the tables in
\* Kafka, but for rows whose last write failed or went in a clear() cut short, whatever
\* stops, resumes, rebuilds, re-snapshots and errors came before, as long as no stop
\* fell into the re-reading after a rebuild (Undisturbed).
THEOREM StoreIsExact ==
    ASSUME OnePartition
    PROVE  Spec => []CaughtUpStoreIsExact
<1>1. IInv => CaughtUpStoreIsExact
  <2> SUFFICES ASSUME IInv, CaughtUp, NEW p \in Partitions, NEW k \in Keys
               PROVE  rows[p][k] = Table(p, Len(log[p]))[k] \/ Lost(p, k, Len(log[p]))
    BY DEF CaughtUpStoreIsExact, Exact
  <2>1. \A q \in Partitions : Pending(q) = Len(log[q]) + 1 /\ Len(log[q]) \in Nat
    BY Numbers DEF IInv, CaughtUp, Pending, Old, Offsets
  <2>2. AllGood
    BY <2>1 DEF IInv, StoreInv, WillRebuild, CaughtUp, Offsets
  <2>3. Good(p, k) /\ Pending(p) - 1 = Len(log[p])
    BY <2>1, <2>2 DEF AllGood
  <2>4. ~ \E j \in Pending(p)..Len(log[p]) : log[p][j].key = k
    BY <2>1
  <2>5. rows[p][k] = Image(p, k, Len(log[p])) \/ Lost(p, k, Len(log[p]))
    BY <2>3, <2>4 DEF Good
  <2> QED
    BY <2>5 DEF Table
<1> QED
  BY <1>1, Invariant, PTL

\* No resume jumps over a message that was not handled.
THEOREM NothingIsSkipped ==
    ASSUME OnePartition
    PROVE  Spec => []SavedIsHandled
<1>1. IInv => SavedIsHandled
  BY DEF IInv, HandledInv, SavedIsHandled
<1> QED
  BY <1>1, Invariant, PTL

\* A consumer that has read the end of a snapshot, without failing at it, is live.
THEOREM BecomesLive ==
    ASSUME OnePartition
    PROVE  Spec => []CaughtUpIsLive
<1>1. IInv => CaughtUpIsLive
  <2> SUFFICES ASSUME IInv, CaughtUp, NEW p \in Partitions,
                      NEW i \in (1..Len(log[p])) \ failed[p], log[p][i].last
               PROVE  tracker.ready
    BY DEF CaughtUpIsLive
  <2>1. Pending(p) = Len(log[p]) + 1 /\ Len(log[p]) \in Nat
    BY Numbers DEF IInv, CaughtUp, Pending, Old, Offsets
  <2>2. i \in 1..(Pending(p) - 1)
    BY <2>1
  <2> QED
    BY <2>2 DEF IInv, TrackerInv, CaughtUp
<1> QED
  BY <1>1, Invariant, PTL

LEMMA OffsetsMove ==
    ASSUME IInv, [Next]_vars, NEW q \in Partitions
    PROVE  \/ /\ saved'[q] >= saved[q]
              /\ (saved[q] + 1)..(saved'[q] - 1) \subseteq failed[q]
           \/ ~(up /\ up') /\ saved'[q] = 0
           \/ reSnapshotHandled' /\ ~reSnapshotHandled
           \/ reSnapshotHandled /\ saved'[q] = 1
<1> DEFINE Goal == \/ /\ saved'[q] >= saved[q]
                      /\ (saved[q] + 1)..(saved'[q] - 1) \subseteq failed[q]
                   \/ ~(up /\ up') /\ saved'[q] = 0
                   \/ reSnapshotHandled' /\ ~reSnapshotHandled
                   \/ reSnapshotHandled /\ saved'[q] = 1
<1>1. /\ TypeOK /\ saved[q] \in Nat /\ position[q] \in Nat \ {0}
      /\ failed[q] \in SUBSET Nat
  BY Numbers DEF IInv
<1>2. ASSUME saved'[q] = saved[q] \/ saved'[q] = saved[q] + 1
      PROVE  Goal
  <2>1. (saved[q] + 1)..(saved'[q] - 1) = {}
    BY <1>1, <1>2
  <2> QED
    BY <1>1, <1>2, <2>1
<1>3. ASSUME NEW p \in Partitions, Process(p) \/ HandleFails(p)
      PROVE  Goal
  <2>1. CASE Detected(log[p][position[p]])
    BY <1>3, <2>1 DEF Process, Rebuild, HandleFails, Detected
  <2>2. ASSUME ~Detected(log[p][position[p]]), p = q
        PROVE  Goal
    <3>1. Advances(q) /\ Delivered(q) /\ ~Old(q)
      BY <1>1, <1>3, <2>2, NextTypes, HandleAdvances
    <3>2. up /\ Pending(q) = position[q] /\ saved'[q] = position[q]
      BY <1>1, <3>1, DeliveredIsPending DEF Advances, TypeOK
    <3>3. \/ saved[q] + 1 = position[q]
          \/ reSnapshotHandled /\ position[q] = 1
          \/ Cut(q)
      BY <3>2 DEF IInv, Offsets
    <3>4. CASE Cut(q)
      <4>1. saved[q] = 0 /\ 1..(position[q] - 1) \subseteq failed[q]
        BY <3>2, <3>4 DEF Cut
      <4> QED
        BY <1>1, <3>2, <4>1
    <3> QED
      BY <1>1, <1>2, <3>2, <3>3, <3>4
  <2>3. ASSUME ~Detected(log[p][position[p]]), p # q
        PROVE  Goal
    BY <1>1, <1>2, <1>3, <2>3 DEF Process, Handle, HandleFails, TypeOK
  <2> QED
    BY <2>1, <2>2, <2>3
<1>4. CASE Kafka
  BY <1>2, <1>4 DEF Kafka, SnapshotRow, Change, ReSnapshot, Produce, store
<1>5. CASE Deploy \/ Crash \/ UNCHANGED vars
  BY <1>2, <1>5 DEF Deploy, Crash, vars, store
<1>6. ASSUME NEW forceRebuild \in BOOLEAN, Boot(forceRebuild)
      PROVE  Goal
  BY <1>2, <1>6 DEF Boot, Restored, NoOffsets
<1>7. CASE BootInterrupted
  BY <1>2, <1>7 DEF BootInterrupted, NoOffsets
<1>8. ASSUME NEW p \in Partitions,
             SkipOld(p) \/ HandleInterrupted(p) \/ RebuildInterrupted(p)
      PROVE  Goal
  BY <1>2, <1>8 DEF SkipOld, HandleInterrupted, RebuildInterrupted, Interrupted,
                    NoOffsets, store
<1>9. ASSUME NEW p \in Partitions, ClearFails(p) \/ RebuildFails(p)
      PROVE  Goal
  BY <1>9 DEF ClearFails, RebuildFails, Detected
<1> QED
  BY <1>3, <1>4, <1>5, <1>6, <1>7, <1>8, <1>9 DEF Next, Deliver, Fails

\* A saved offset moves to the next message, jumping only over what went wrong, but for
\* the beginning of a rebuild and of the re-reading after it.
THEOREM OffsetsInOrder ==
    ASSUME OnePartition
    PROVE  Spec => OffsetsMoveInOrder
<1>1. IInv /\ [Next]_vars =>
          [\A p \in Partitions :
              \/ /\ saved'[p] >= saved[p]
                 /\ (saved[p] + 1)..(saved'[p] - 1) \subseteq failed[p]
              \/ ~(up /\ up') /\ saved'[p] = 0
              \/ reSnapshotHandled' /\ ~reSnapshotHandled
              \/ reSnapshotHandled /\ saved'[p] = 1]_vars
  BY OffsetsMove
<1> QED
  BY <1>1, Invariant, PTL DEF Spec, OffsetsMoveInOrder
=============================================================================
