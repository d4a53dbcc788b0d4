----------------------------- MODULE ArrayStore -----------------------------
(***************************************************************************)
(* One table kept in array_store (domain/sqlite-store.ts), whose records   *)
(* have a grouping key and no identity: an event finds the record it is    *)
(* about by its content.  The model follows the table in the source        *)
(* database, its topic, which Kafka compacts, and the copy of it that the  *)
(* consumer makes message by message.  Databases and Kafka are external.   *)
(***************************************************************************)
EXTENDS Integers, Sequences, FiniteSets

CONSTANTS
    SourceRows,     \* primary keys in the source, unknown to the consumer
    Keys,           \* values of keyField
    Values,         \* contents of the other stored fields
    MaxLog,         \* bound: messages in the topic
    MaxCopies,      \* bound: crashes stop once a record has that many copies
    Twins,          \* rows of the source may agree in all the stored fields
    Moves           \* an update may change keyField

ASSUME ArrayAssumption ==
    /\ MaxLog \in Nat
    /\ MaxCopies \in Nat
    /\ Twins \in BOOLEAN
    /\ Moves \in BOOLEAN

\* A record as pickFields() leaves it.
Records == [key: Keys, data: Values]
NoRecord == [key |-> "none", data |-> "none"]

ASSUME NoRecordAssumption == NoRecord \notin Records

VARIABLES
    source,     \* source[r]: the record of row r, or NoRecord
    log,        \* the topic
    position,   \* offset of the next message
    store,      \* store[<<k, rec>>]: how often rec is stored under key k
    dirty       \* history: since the last clear an update was interrupted, or the log
                \* cleaner was ahead of the consumer

vars == <<source, log, position, store, dirty>>

Messages == [op: {"r", "c", "u", "d", "compacted"}, row: SourceRows,
             before: Records \cup {NoRecord}, after: Records \cup {NoRecord}]

Nothing == [slot \in Keys \X Records |-> 0]

TypeOK ==
    /\ source \in [SourceRows -> Records \cup {NoRecord}]
    /\ log \in Seq(Messages)
    /\ position \in 1..(Len(log) + 1)
    /\ store \in [Keys \X Records -> Nat]
    /\ dirty \in BOOLEAN

Init ==
    /\ source = [r \in SourceRows |-> NoRecord]
    /\ log = <<>>
    /\ position = 1
    /\ store = Nothing
    /\ dirty = FALSE

-----------------------------------------------------------------------------
(***************************************************************************)
(* The source, Debezium and Kafka                                          *)
(***************************************************************************)
Emit(op, r, before, after) ==
    /\ Len(log) < MaxLog
    /\ log' = Append(log, [op |-> op, row |-> r, before |-> before, after |-> after])
    /\ UNCHANGED <<position, store, dirty>>

MayHold(r, rec) ==
    /\ Twins \/ \A q \in SourceRows \ {r} : source[q] # rec
    /\ Moves \/ source[r] \in {NoRecord} \cup {rec2 \in Records : rec2.key = rec.key}

Write(r, rec) ==
    /\ MayHold(r, rec)
    /\ source' = [source EXCEPT ![r] = rec]
    /\ Emit(IF source[r] = NoRecord THEN "c" ELSE "u", r, source[r], rec)

Remove(r) ==
    /\ source[r] # NoRecord
    /\ source' = [source EXCEPT ![r] = NoRecord]
    /\ Emit("d", r, source[r], NoRecord)

Snapshot(r) ==
    /\ source[r] # NoRecord
    /\ UNCHANGED source
    /\ Emit("r", r, NoRecord, source[r])

Found(k, rec) == store[<<k, rec>>] > 0

\* The record that a message finds in the store, or puts there.
About(message) ==
    IF message.op \in {"u", "d"} THEN message.before ELSE message.after

\* The log cleaner drops, up to offset n, what a later message of the row or the
\* tombstone after a delete supersedes, whether or not the consumer, that may be stopped
\* or slow, has read it.  What goes unread may be about a record in the store.
Compact(n) ==
    LET superseded(i) ==
            \/ log[i].op = "d"
            \/ \E j \in (i + 1)..n : log[j].row = log[i].row
        gone == {i \in 1..n : superseded(i)}
    IN  /\ log' = [i \in DOMAIN log |->
                      IF i \in gone
                      THEN [log[i] EXCEPT !.op = "compacted", !.before = NoRecord,
                                          !.after = NoRecord]
                      ELSE log[i]]
        /\ dirty' = \/ dirty
                     \/ \E i \in gone :
                           /\ i >= position
                           /\ log[i].op # "compacted"
                           /\ Found(About(log[i]).key, About(log[i]))
        /\ UNCHANGED <<source, position, store>>

-----------------------------------------------------------------------------
(***************************************************************************)
(* update()                                                                *)
(***************************************************************************)
Plus(k, rec) == [store EXCEPT ![<<k, rec>>] = @ + 1]
Minus(k, rec) == [store EXCEPT ![<<k, rec>>] = @ - 1]

\* Mutant: no look for duplicates.
InsertedAgain(rec) == Plus(rec.key, rec)

Inserted(rec) == IF Found(rec.key, rec) THEN store ELSE Plus(rec.key, rec)

\* Mutant: an update that finds no match is dropped.
ReplacedOnly(before, after) ==
    IF Found(before.key, before)
    THEN [Minus(before.key, before) EXCEPT ![<<before.key, after>>] = @ + 1]
    ELSE store

\* The key column stays as it was.
Replaced(before, after) ==
    IF Found(before.key, before)
    THEN [Minus(before.key, before) EXCEPT ![<<before.key, after>>] = @ + 1]
    ELSE Plus(before.key, after)

\* Mutant: a delete takes whatever is there.
DeletedUnmatched(before) == Minus(before.key, before)

Deleted(before) ==
    IF Found(before.key, before) THEN Minus(before.key, before) ELSE store

Updated(message) ==
    CASE message.op \in {"c", "r"} -> Inserted(message.after)
      [] message.op = "u"          -> Replaced(message.before, message.after)
      [] message.op = "d"          -> Deleted(message.before)
      [] OTHER                     -> store

\* A message is stored, and its offset saved.
Apply ==
    /\ position <= Len(log)
    /\ store' = Updated(log[position])
    /\ position' = position + 1
    /\ UNCHANGED <<source, log, dirty>>

\* The process dies between the two: the message will be delivered again.
ApplyInterrupted ==
    /\ position <= Len(log)
    /\ \A slot \in DOMAIN store : store[slot] < MaxCopies
    /\ store' = Updated(log[position])
    /\ dirty' = \/ dirty
                 \/ /\ log[position].op = "u"
                    /\ log[position].before # log[position].after
    /\ UNCHANGED <<source, log, position>>

\* clear(), and back to the first offset: a re-snapshot, a changed registry, or
\* FORCE_REBUILD.
Rebuild ==
    /\ store' = Nothing
    /\ position' = 1
    /\ dirty' = FALSE
    /\ UNCHANGED <<source, log>>

Next ==
    \/ \E r \in SourceRows, rec \in Records : Write(r, rec)
    \/ \E r \in SourceRows : Remove(r) \/ Snapshot(r)
    \/ \E n \in 1..Len(log) : Compact(n)
    \/ Apply
    \/ ApplyInterrupted
    \/ Rebuild

Spec == Init /\ [][Next]_vars

-----------------------------------------------------------------------------
(***************************************************************************)
(* Safety                                                                  *)
(***************************************************************************)
CaughtUp == position = Len(log) + 1

InSource(k, rec) ==
    Cardinality({r \in SourceRows : source[r] = rec /\ rec.key = k})

\* Once everything is read, each row of the source is in the store, although
\* messages were compacted away or delivered twice and there is no identity to
\* find a record by.
NothingMissing ==
    CaughtUp => \A k \in Keys, rec \in Records :
                    store[<<k, rec>>] >= InSource(k, rec)

\* And there is nothing else: the store is an exact copy of the table, unless, since it
\* was last cleared, a crash fell between an update and its offset and the update was
\* stored twice (sqlite-store.ts:324), or the log cleaner took a message about a stored
\* record before the consumer had read it, and the next one finds no match.
ExactUnlessDisturbed ==
    CaughtUp /\ ~dirty =>
        \A k \in Keys, rec \in Records : store[<<k, rec>>] = InSource(k, rec)
=============================================================================
