-------------------------- MODULE ArrayStoreProofs --------------------------
(***************************************************************************)
(* Proofs about ArrayStore, for any rows, keys, contents and logs.  Those  *)
(* about the copy assume of the source what the runs do: that rows differ  *)
(* in their stored fields, and that updates leave keyField alone.          *)
(***************************************************************************)
EXTENDS ArrayStore, FiniteSetTheorems, TLAPS

Alive(l, i) == l[i].op # "compacted"

\* Message i of the topic l is the latest of row r before offset n, and not compacted.
Latest(l, r, n, i) ==
    /\ i \in DOMAIN l /\ i < n
    /\ Alive(l, i)
    /\ l[i].row = r
    /\ \A j \in DOMAIN l : i < j /\ j < n => l[j].row # r

\* What a message says of its row.
MessagesAreSound ==
    \A i \in DOMAIN log : Alive(log, i) =>
        /\ log[i].op \in {"c", "r", "u"} => log[i].after \in Records
        /\ log[i].op \in {"u", "d"} => log[i].before \in Records
        /\ log[i].op = "d" => log[i].after = NoRecord
        /\ log[i].op = "u" => log[i].before.key = log[i].after.key

\* The log cleaner takes the messages of a row from the oldest on.
CompactedFromStart ==
    \A i, j \in DOMAIN log :
        i < j /\ log[i].row = log[j].row /\ ~Alive(log, j) => ~Alive(log, i)

\* A message takes up its row where the latest message before it left it, if the
\* log cleaner did.
RowsAreChained ==
    \A n \in DOMAIN log : Alive(log, n) =>
        \A i \in DOMAIN log : Latest(log, log[n].row, n, i) =>
            /\ log[n].op \in {"u", "d"} => log[n].before = log[i].after
            /\ log[n].op = "r" => log[n].after = log[i].after
            /\ log[n].op = "c" => log[i].after = NoRecord

\* Its contents are not those that another row has then.
RowsAreApart ==
    \A n \in DOMAIN log : Alive(log, n) =>
        \A r \in SourceRows \ {log[n].row} : \A i \in DOMAIN log :
            Latest(log, r, n, i) /\ log[i].after # NoRecord =>
                log[i].after # log[n].before /\ log[i].after # log[n].after

\* The source is what the log says.
SourceIsLogged ==
    /\ \A r \in SourceRows :
          /\ \A i \in DOMAIN log : Latest(log, r, Len(log) + 1, i) => source[r] = log[i].after
          /\ source[r] # NoRecord => \E i \in DOMAIN log : Latest(log, r, Len(log) + 1, i)
    /\ \A q, r \in SourceRows : source[q] = source[r] /\ source[q] # NoRecord => q = r

LogInv ==
    /\ MessagesAreSound
    /\ CompactedFromStart
    /\ RowsAreChained
    /\ RowsAreApart
    /\ SourceIsLogged

MoreToRead == position \in DOMAIN log

\* The record a row has where the consumer is in the log is stored, unless the next
\* message, which may have been applied already, replaces or deletes it.
StoredInv ==
    \A r \in SourceRows, i \in DOMAIN log :
        Latest(log, r, position, i) /\ log[i].after # NoRecord =>
            \/ store[<<log[i].after.key, log[i].after>>] > 0
            \/ /\ MoreToRead
               /\ log[position].row = r
               /\ log[position].op \in {"u", "d"}

\* The next message leaves rec in the store however often it is applied.
Repeatable(rec) ==
    /\ MoreToRead
    /\ log[position].after = rec
    /\ \/ log[position].op \in {"c", "r"}
       \/ log[position].op = "u" /\ log[position].before = rec

\* Row r has rec where the consumer is in the log: its next message, which the log cleaner
\* has left, takes it up there, and none of another row before that is about it.
Standing(r, rec) ==
    /\ \A n \in DOMAIN log :
          n >= position /\ (\A k \in DOMAIN log : position <= k /\ k < n => log[k].row # r) =>
              IF log[n].row = r
              THEN Alive(log, n) /\ log[n].op # "c" /\ About(log[n]) = rec
              ELSE Alive(log, n) => log[n].before # rec /\ log[n].after # rec
    /\ (\A k \in DOMAIN log : k >= position => log[k].row # r) => source[r] = rec

\* What is stored is stored once, and is the record of a row there, or of the next message.
NothingElseInv ==
    ~dirty => \A k \in Keys, rec \in Records :
        store[<<k, rec>>] > 0 =>
            /\ store[<<k, rec>>] = 1
            /\ k = rec.key
            /\ (\E r \in SourceRows : Standing(r, rec)) \/ Repeatable(rec)

IInv == TypeOK /\ LogInv /\ StoredInv /\ NothingElseInv
-----------------------------------------------------------------------------
(***************************************************************************)
(* Types                                                                   *)
(***************************************************************************)
LEMMA NothingIsTyped == Nothing \in [Keys \X Records -> Nat]
BY DEF Nothing

\* A step up, or a step down from above zero, of a function into Nat.
LEMMA StepsAreTyped ==
    ASSUME NEW S, NEW f \in [S -> Nat], NEW x
    PROVE  /\ [f EXCEPT ![x] = @ + 1] \in [S -> Nat]
           /\ f[x] > 0 => [f EXCEPT ![x] = @ - 1] \in [S -> Nat]
<1>1. CASE x \in S
  BY <1>1
<1>2. ASSUME x \notin S, NEW y PROVE [f EXCEPT ![x] = y] = f
  BY <1>2
<1>3. CASE x \notin S
  BY <1>2, <1>3
<1> QED
  BY <1>1, <1>3

LEMMA UpdatedIsTyped ==
    ASSUME TypeOK, NEW m \in Messages
    PROVE  Updated(m) \in [Keys \X Records -> Nat]
<1> DEFINE Stores == [Keys \X Records -> Nat]
<1>1. store \in Stores
  BY DEF TypeOK
<1>2. \A k, rec : Plus(k, rec) \in Stores
  BY <1>1, StepsAreTyped DEF Plus
<1>3. \A k, rec : Found(k, rec) => Minus(k, rec) \in Stores
  BY <1>1, StepsAreTyped DEF Minus, Found
<1>4. \A s \in Stores : \A slot : [s EXCEPT ![slot] = @ + 1] \in Stores
  BY StepsAreTyped
<1> HIDE DEF Stores
<1>5. Inserted(m.after) \in Stores
  BY <1>1, <1>2 DEF Inserted
<1>6. Deleted(m.before) \in Stores
  BY <1>1, <1>3 DEF Deleted
<1>7. Replaced(m.before, m.after) \in Stores
  BY <1>2, <1>3, <1>4 DEF Replaced
<1> QED
  BY <1>1, <1>5, <1>6, <1>7 DEF Updated, Stores

\* A message added to the topic leaves the others where they are.
LEMMA EmitFacts ==
    ASSUME TypeOK, NEW op, NEW r, NEW before, NEW after,
           [op |-> op, row |-> r, before |-> before, after |-> after] \in Messages,
           Emit(op, r, before, after)
    PROVE  /\ log' \in Seq(Messages)
           /\ Len(log) \in Nat /\ DOMAIN log = 1..Len(log)
           /\ Len(log') = Len(log) + 1 /\ DOMAIN log' = 1..(Len(log) + 1)
           /\ \A i \in DOMAIN log : log'[i] = log[i]
           /\ log'[Len(log) + 1] =
                 [op |-> op, row |-> r, before |-> before, after |-> after]
           /\ UNCHANGED <<position, store, dirty>>
BY DEF TypeOK, Emit

\* What the log cleaner leaves: the row of every message, all of what lies behind n,
\* and what is not superseded.  Unless the copy is spoilt, nothing that it takes before
\* it is read is about a stored record.
LEMMA CompactFacts ==
    ASSUME TypeOK, NEW n \in 1..Len(log), Compact(n)
    PROVE  /\ log' \in Seq(Messages)
           /\ Len(log) \in Nat /\ DOMAIN log = 1..Len(log)
           /\ Len(log') = Len(log) /\ DOMAIN log' = DOMAIN log
           /\ UNCHANGED <<source, position, store>> /\ (dirty => dirty')
           /\ \A i \in DOMAIN log :
                 ~dirty' /\ i >= position /\ Alive(log, i) /\ ~Alive(log', i) =>
                     ~Found(About(log[i]).key, About(log[i]))
           /\ \A i \in DOMAIN log :
                 /\ log'[i].row = log[i].row
                 /\ Alive(log', i) => Alive(log, i) /\ log'[i] = log[i]
                 /\ i > n => log'[i] = log[i]
                 /\ i <= n /\ (log[i].op = "d" \/ \E j \in (i + 1)..n : log[j].row = log[i].row)
                       => ~Alive(log', i)
                 /\ log[i].op # "d" /\ (\A j \in (i + 1)..n : log[j].row # log[i].row)
                       => log'[i] = log[i]
<1> DEFINE superseded(i) == \/ log[i].op = "d"
                            \/ \E j \in (i + 1)..n : log[j].row = log[i].row
           cleaned(i) == [log[i] EXCEPT !.op = "compacted", !.before = NoRecord,
                                        !.after = NoRecord]
           gone == {i \in 1..n : superseded(i)}
<1>1. /\ log' = [i \in DOMAIN log |-> IF i \in gone THEN cleaned(i) ELSE log[i]]
      /\ UNCHANGED <<source, position, store>>
      /\ dirty' = \/ dirty
                  \/ \E i \in gone : /\ i >= position /\ log[i].op # "compacted"
                                     /\ Found(About(log[i]).key, About(log[i]))
  BY DEF Compact
<1>2. Len(log) \in Nat /\ DOMAIN log = 1..Len(log) /\ \A i \in DOMAIN log : log[i] \in Messages
  BY DEF TypeOK
<1>3. \A i \in DOMAIN log : /\ cleaned(i) \in Messages
                            /\ cleaned(i).row = log[i].row
                            /\ cleaned(i).op = "compacted"
  BY <1>2 DEF Messages
<1>4. \A i \in DOMAIN log : i \in gone <=> i <= n /\ superseded(i)
  BY <1>2
<1>5. \A i \in DOMAIN log : log'[i] = IF i \in gone THEN cleaned(i) ELSE log[i]
  BY <1>1
<1>6. DOMAIN log' = 1..Len(log) /\ log' \in [1..Len(log) -> Messages]
  <2> HIDE DEF gone, cleaned
  <2> QED
    BY <1>1, <1>2, <1>3
<1>7. log' \in Seq(Messages) /\ Len(log') = Len(log)
  <2> HIDE DEF gone, cleaned
  <2>1. \A f \in [1..Len(log) -> Messages] : f \in Seq(Messages) /\ Len(f) = Len(log)
    BY <1>2
  <2> QED
    BY <1>6, <2>1
<1>8. ASSUME NEW i \in DOMAIN log
      PROVE  /\ log'[i].row = log[i].row
             /\ Alive(log', i) => Alive(log, i) /\ log'[i] = log[i]
             /\ i > n => log'[i] = log[i]
             /\ i <= n /\ superseded(i) => ~Alive(log', i)
             /\ ~superseded(i) => log'[i] = log[i]
  <2> HIDE DEF gone, cleaned, superseded
  <2>1. i > n => ~(i <= n)
    BY <1>2
  <2> QED
    BY <1>3, <1>4, <1>5, <2>1 DEF Alive
<1>9. ASSUME NEW i \in DOMAIN log, ~dirty', i >= position, Alive(log, i), ~Alive(log', i)
      PROVE  ~Found(About(log[i]).key, About(log[i]))
  <2> HIDE DEF gone, cleaned
  <2>1. i \in gone
    BY <1>5, <1>9 DEF Alive
  <2> QED
    BY <1>1, <1>9, <2>1 DEF Alive
<1>10. dirty => dirty'
  BY <1>1
<1> QED
  BY <1>1, <1>2, <1>6, <1>7, <1>8, <1>9, <1>10

LEMMA TypeHolds == TypeOK /\ [Next]_vars => TypeOK'
<1> SUFFICES ASSUME TypeOK, [Next]_vars PROVE TypeOK'
  OBVIOUS
<1>1. ASSUME NEW r \in SourceRows, NEW rec \in Records, Write(r, rec) PROVE TypeOK'
  <2> DEFINE op == IF source[r] = NoRecord THEN "c" ELSE "u"
  <2>1. /\ [op |-> op, row |-> r, before |-> source[r], after |-> rec] \in Messages
        /\ Emit(op, r, source[r], rec)
        /\ source' \in [SourceRows -> Records \cup {NoRecord}]
    BY <1>1 DEF Write, TypeOK, Messages
  <2> QED
    BY <2>1, EmitFacts DEF TypeOK
<1>2. ASSUME NEW r \in SourceRows, Remove(r) PROVE TypeOK'
  <2>1. /\ [op |-> "d", row |-> r, before |-> source[r], after |-> NoRecord] \in Messages
        /\ Emit("d", r, source[r], NoRecord)
        /\ source' \in [SourceRows -> Records \cup {NoRecord}]
    BY <1>2 DEF Remove, TypeOK, Messages
  <2> QED
    BY <2>1, EmitFacts DEF TypeOK
<1>3. ASSUME NEW r \in SourceRows, Snapshot(r) PROVE TypeOK'
  <2>1. /\ [op |-> "r", row |-> r, before |-> NoRecord, after |-> source[r]] \in Messages
        /\ Emit("r", r, NoRecord, source[r])
        /\ source' = source
    BY <1>3 DEF Snapshot, TypeOK, Messages
  <2> QED
    BY <2>1, EmitFacts DEF TypeOK
<1>4. ASSUME NEW n \in 1..Len(log), Compact(n) PROVE TypeOK'
  <2>1. dirty' \in BOOLEAN
    BY <1>4, Zenon DEF Compact
  <2> QED
    BY <1>4, <2>1, CompactFacts DEF TypeOK
<1>5. CASE Apply \/ ApplyInterrupted
  <2>1. /\ position \in 1..(Len(log) + 1) /\ Len(log) \in Nat
        /\ position <= Len(log) => log[position] \in Messages
    BY DEF TypeOK
  <2>2. /\ position <= Len(log) /\ store' = Updated(log[position])
        /\ UNCHANGED <<source, log>>
        /\ position' \in {position, position + 1}
    BY <1>5, Zenon DEF Apply, ApplyInterrupted
  <2>3. position' \in 1..(Len(log') + 1)
    BY <2>1, <2>2
  <2>4. store' \in [Keys \X Records -> Nat]
    BY <2>1, <2>2, UpdatedIsTyped
  <2>5. CASE Apply
    BY <2>2, <2>3, <2>4, <2>5 DEF Apply, TypeOK
  <2>6. CASE ApplyInterrupted
    <3>1. dirty' \in BOOLEAN
      BY <2>6, Zenon DEF ApplyInterrupted
    <3> QED
      BY <2>2, <2>3, <2>4, <3>1 DEF TypeOK
  <2> QED
    BY <1>5, <2>5, <2>6
<1>6. CASE Rebuild
  <2>1. dirty' \in BOOLEAN
    BY <1>6 DEF Rebuild
  <2>2. store' \in [Keys \X Records -> Nat]
    BY <1>6, NothingIsTyped DEF Rebuild
  <2>3. position' \in 1..(Len(log') + 1)
    BY <1>6 DEF Rebuild, TypeOK
  <2> QED
    BY <1>6, <2>1, <2>2, <2>3 DEF Rebuild, TypeOK
<1>7. CASE UNCHANGED vars
  BY <1>7 DEF vars, TypeOK
<1> QED
  BY <1>1, <1>2, <1>3, <1>4, <1>5, <1>6, <1>7 DEF Next

LEMMA TypeAtInit == Init => TypeOK
<1> SUFFICES ASSUME Init PROVE TypeOK
  OBVIOUS
<1>1. dirty \in BOOLEAN
  BY DEF Init
<1>2. store \in [Keys \X Records -> Nat]
  BY NothingIsTyped DEF Init
<1>3. source \in [SourceRows -> Records \cup {NoRecord}]
  BY DEF Init
<1>4. log \in Seq(Messages) /\ position \in 1..(Len(log) + 1)
  BY DEF Init
<1> QED
  BY <1>1, <1>2, <1>3, <1>4 DEF TypeOK

\* The state is well typed, in any source (all of update()'s outcomes are stores).
THEOREM TypeCorrect == Spec => []TypeOK
BY TypeAtInit, TypeHolds, PTL DEF Spec

-----------------------------------------------------------------------------
(***************************************************************************)
(* The topic                                                               *)
(***************************************************************************)
\* m is what Debezium says of a change to row m.row of the source.
Reports(m) ==
    /\ m \in Messages /\ m.op \in {"c", "r", "u", "d"}
    /\ m.op \in {"c", "r", "u"} => m.after \in Records
    /\ m.op \in {"u", "d"} => m.before \in Records /\ m.before = source[m.row]
    /\ m.op = "d" => m.after = NoRecord
    /\ m.op = "u" => m.before.key = m.after.key
    /\ m.op = "r" => m.after = source[m.row]
    /\ m.op = "c" => source[m.row] = NoRecord
    /\ \A r \in SourceRows \ {m.row} :
          source[r] # NoRecord => source[r] # m.before /\ source[r] # m.after

Appends(m) ==
    /\ Reports(m)
    /\ Len(log) \in Nat /\ DOMAIN log = 1..Len(log)
    /\ Len(log') = Len(log) + 1 /\ DOMAIN log' = 1..(Len(log) + 1)
    /\ \A i \in DOMAIN log : log'[i] = log[i]
    /\ log'[Len(log) + 1] = m
    /\ UNCHANGED <<position, store, dirty>>
    /\ source'[m.row] = m.after
    /\ \A r \in SourceRows \ {m.row} : source'[r] = source[r]

LEMMA ChangesAreReported ==
    ASSUME TypeOK, SourceIsLogged, ~Twins, ~Moves, NEW r \in SourceRows,
           (\E rec \in Records : Write(r, rec)) \/ Remove(r) \/ Snapshot(r)
    PROVE  \E m \in Messages : Appends(m)
<1>1. \A q \in SourceRows : source[q] \in Records \cup {NoRecord}
  BY DEF TypeOK
<1>2. \A p, q \in SourceRows : source[q] = source[p] /\ source[q] # NoRecord => p = q
  BY DEF SourceIsLogged
<1>3. ASSUME NEW rec \in Records, Write(r, rec) PROVE \E m \in Messages : Appends(m)
  <2> DEFINE op == IF source[r] = NoRecord THEN "c" ELSE "u"
             m == [op |-> op, row |-> r, before |-> source[r], after |-> rec]
  <2>1. m \in Messages /\ Emit(op, r, source[r], rec)
    BY <1>1, <1>3 DEF Write, Messages
  <2>2. /\ \A q \in SourceRows \ {r} : source[q] # rec /\ source'[q] = source[q]
        /\ source[r] # NoRecord => source[r].key = rec.key
        /\ source'[r] = rec
    BY <1>3 DEF Write, MayHold, TypeOK
  <2>3. Reports(m)
    BY <1>1, <1>2, <2>1, <2>2, NoRecordAssumption DEF Reports
  <2>4. Appends(m)
    BY <2>1, <2>2, <2>3, EmitFacts DEF Appends
  <2> QED
    BY <2>1, <2>4
<1>4. ASSUME Remove(r) PROVE \E m \in Messages : Appends(m)
  <2> DEFINE m == [op |-> "d", row |-> r, before |-> source[r], after |-> NoRecord]
  <2>1. m \in Messages /\ Emit("d", r, source[r], NoRecord) /\ source[r] \in Records
    BY <1>1, <1>4 DEF Remove, Messages
  <2>2. source'[r] = NoRecord /\ \A q \in SourceRows \ {r} : source'[q] = source[q]
    BY <1>4 DEF Remove, TypeOK
  <2>3. Reports(m)
    BY <1>2, <2>1, NoRecordAssumption DEF Reports
  <2>4. Appends(m)
    BY <2>1, <2>2, <2>3, EmitFacts DEF Appends
  <2> QED
    BY <2>1, <2>4
<1>5. ASSUME Snapshot(r) PROVE \E m \in Messages : Appends(m)
  <2> DEFINE m == [op |-> "r", row |-> r, before |-> NoRecord, after |-> source[r]]
  <2>1. m \in Messages /\ Emit("r", r, NoRecord, source[r]) /\ source[r] \in Records
    BY <1>1, <1>5 DEF Snapshot, Messages
  <2>2. Reports(m)
    BY <1>2, <2>1 DEF Reports
  <2>3. Appends(m)
    BY <1>5, <2>1, <2>2, EmitFacts DEF Appends, Snapshot
  <2> QED
    BY <2>1, <2>3
<1> QED
  BY <1>3, <1>4, <1>5

\* A message added, at offset N, is after all that others say of the offsets up to it.
LEMMA LatestIsKept ==
    ASSUME NEW m, NEW N, NEW M, N = Len(log) + 1, M = N + 1, Appends(m)
    PROVE  /\ \A r, n, i : n <= N /\ n \in Nat => (Latest(log', r, n, i) <=> Latest(log, r, n, i))
           /\ \A i : Latest(log', m.row, M, i) => i = N
           /\ Latest(log', m.row, M, N)
           /\ \A r, i : r # m.row => (Latest(log', r, M, i) <=> Latest(log, r, N, i))
<1>1. /\ Len(log) \in Nat /\ DOMAIN log = 1..Len(log)
      /\ DOMAIN log' = 1..N
      /\ \A i \in DOMAIN log : log'[i] = log[i]
      /\ log'[N] = m
  BY DEF Appends
<1>2. m.op # "compacted"
  BY DEF Appends, Reports
<1>3. ASSUME NEW r, NEW n \in Nat, n <= N, NEW i
      PROVE  Latest(log', r, n, i) <=> Latest(log, r, n, i)
  BY <1>1, <1>3 DEF Latest, Alive
<1>4. ASSUME NEW i, Latest(log', m.row, M, i) PROVE i = N
  BY <1>1, <1>4 DEF Latest
<1>5. Latest(log', m.row, M, N)
  BY <1>1, <1>2 DEF Latest, Alive
<1>6. ASSUME NEW r, NEW i, r # m.row
      PROVE  Latest(log', r, M, i) <=> Latest(log, r, N, i)
  BY <1>1, <1>6 DEF Latest, Alive
<1> QED
  BY <1>3, <1>4, <1>5, <1>6

LEMMA AppendKeepsLog ==
    ASSUME TypeOK, LogInv, NEW m, Appends(m)
    PROVE  LogInv'
<1> PICK N : N = Len(log) + 1
  OBVIOUS
<1> PICK M : M = N + 1
  OBVIOUS
<1>1. /\ N \in Nat /\ DOMAIN log = 1..(N - 1)
      /\ DOMAIN log' = 1..N /\ Len(log') = N
      /\ \A i \in DOMAIN log : log'[i] = log[i]
      /\ log'[N] = m
      /\ source'[m.row] = m.after
      /\ \A r \in SourceRows \ {m.row} : source'[r] = source[r]
  BY DEF Appends
<1>2. Reports(m)
  BY DEF Appends
<1>3. m.row \in SourceRows /\ m.op # "compacted"
  BY <1>2 DEF Reports, Messages
<1>4. \A i \in DOMAIN log' : i \in DOMAIN log \/ i = N
  BY <1>1
<1>5. /\ Alive(log', N)
      /\ \A i \in DOMAIN log : Alive(log', i) <=> Alive(log, i)
  BY <1>1, <1>3 DEF Alive
<1>13. /\ \A r, n, i : n <= N /\ n \in Nat => (Latest(log', r, n, i) <=> Latest(log, r, n, i))
       /\ \A i : Latest(log', m.row, M, i) => i = N
       /\ Latest(log', m.row, M, N)
       /\ \A r, i : r # m.row => (Latest(log', r, M, i) <=> Latest(log, r, N, i))
  <2>1. /\ \A r, n, i : n <= N /\ n \in Nat => (Latest(log', r, n, i) <=> Latest(log, r, n, i))
        /\ \A r, i : r # m.row => (Latest(log', r, M, i) <=> Latest(log, r, N, i))
    BY LatestIsKept
  <2>2. /\ \A i : Latest(log', m.row, M, i) => i = N
        /\ Latest(log', m.row, M, N)
    BY LatestIsKept
  <2> QED
    BY <2>1, <2>2
<1>14. \A r, n, i : Latest(log, r, n, i) => i \in DOMAIN log
  BY DEF Latest
<1>6. /\ \A n \in DOMAIN log' : \A r, i : Latest(log', r, n, i) <=> Latest(log, r, n, i)
      /\ \A r, n, i : Latest(log, r, n, i) => i \in DOMAIN log
  <2>1. \A n \in DOMAIN log' : n <= N /\ n \in Nat
    BY <1>1
  <2> QED
    BY <1>13, <1>14, <2>1
<1>7. MessagesAreSound'
  <2>1. ASSUME NEW i \in DOMAIN log, Alive(log, i)
        PROVE  /\ log'[i].op \in {"c", "r", "u"} => log'[i].after \in Records
               /\ log'[i].op \in {"u", "d"} => log'[i].before \in Records
               /\ log'[i].op = "d" => log'[i].after = NoRecord
               /\ log'[i].op = "u" => log'[i].before.key = log'[i].after.key
    BY <1>1, <2>1 DEF LogInv, MessagesAreSound
  <2>2. /\ m.op \in {"c", "r", "u"} => m.after \in Records
        /\ m.op \in {"u", "d"} => m.before \in Records
        /\ m.op = "d" => m.after = NoRecord
        /\ m.op = "u" => m.before.key = m.after.key
    BY <1>2 DEF Reports
  <2> QED
    BY <1>1, <1>4, <1>5, <2>1, <2>2 DEF MessagesAreSound
<1>8. CompactedFromStart'
  <2> SUFFICES ASSUME NEW i \in DOMAIN log', NEW j \in DOMAIN log',
                      i < j, log'[i].row = log'[j].row, ~Alive(log', j)
               PROVE  ~Alive(log', i)
    BY DEF CompactedFromStart
  <2>1. j \in DOMAIN log /\ i \in DOMAIN log
    BY <1>1, <1>4, <1>5
  <2> QED
    BY <1>1, <1>5, <2>1 DEF LogInv, CompactedFromStart
<1>9. \A i \in DOMAIN log : \A r \in SourceRows :
          Latest(log, r, N, i) => source[r] = log[i].after
  BY DEF LogInv, SourceIsLogged
<1>10. RowsAreChained'
  <2> SUFFICES ASSUME NEW n \in DOMAIN log', Alive(log', n), NEW i \in DOMAIN log',
                      Latest(log', log'[n].row, n, i)
               PROVE  /\ log'[n].op \in {"u", "d"} => log'[n].before = log'[i].after
                      /\ log'[n].op = "r" => log'[n].after = log'[i].after
                      /\ log'[n].op = "c" => log'[i].after = NoRecord
    BY DEF RowsAreChained
  <2>1. Latest(log, log'[n].row, n, i) /\ i \in DOMAIN log
    BY <1>6
  <2>2. CASE n \in DOMAIN log
    BY <1>1, <1>5, <2>1, <2>2 DEF LogInv, RowsAreChained
  <2>3. CASE n = N
    <3>1. source[m.row] = log'[i].after
      BY <1>1, <1>3, <1>9, <2>1, <2>3
    <3> QED
      BY <1>1, <1>2, <2>3, <3>1 DEF Reports
  <2> QED
    BY <1>4, <2>2, <2>3
<1>11. RowsAreApart'
  <2> SUFFICES ASSUME NEW n \in DOMAIN log', Alive(log', n),
                      NEW r \in SourceRows \ {log'[n].row}, NEW i \in DOMAIN log',
                      Latest(log', r, n, i), log'[i].after # NoRecord
               PROVE  log'[i].after # log'[n].before /\ log'[i].after # log'[n].after
    BY DEF RowsAreApart
  <2>1. Latest(log, r, n, i) /\ i \in DOMAIN log
    BY <1>6
  <2>2. CASE n \in DOMAIN log
    BY <1>1, <1>5, <2>1, <2>2 DEF LogInv, RowsAreApart
  <2>3. CASE n = N
    <3>1. source[r] = log'[i].after
      BY <1>1, <1>9, <2>1, <2>3
    <3> QED
      BY <1>1, <1>2, <2>3, <3>1 DEF Reports
  <2> QED
    BY <1>4, <2>2, <2>3
<1>12. SourceIsLogged'
  <2>2. Len(log') + 1 = M /\ N \in DOMAIN log'
    BY <1>1
  <2>3. \A r \in SourceRows : source[r] # NoRecord => \E i \in DOMAIN log : Latest(log, r, N, i)
    BY DEF LogInv, SourceIsLogged
  <2>4. ASSUME NEW r \in SourceRows, NEW i \in DOMAIN log', Latest(log', r, M, i)
        PROVE  source'[r] = log'[i].after
    <3>1. CASE r = m.row
      <4>1. i = N
        BY <1>13, <2>4, <3>1
      <4> QED
        BY <1>1, <3>1, <4>1
    <3>2. CASE r # m.row
      <4>1. Latest(log, r, N, i)
        BY <1>13, <2>4, <3>2
      <4>2. i \in DOMAIN log
        BY <1>6, <4>1
      <4> QED
        BY <1>1, <1>9, <3>2, <4>1, <4>2
    <3> QED
      BY <3>1, <3>2
  <2>5. ASSUME NEW r \in SourceRows, source'[r] # NoRecord
        PROVE  \E i \in DOMAIN log' : Latest(log', r, M, i)
    <3>1. CASE r = m.row
      BY <1>13, <2>2, <3>1
    <3>2. CASE r # m.row
      <4>1. PICK i \in DOMAIN log : Latest(log, r, N, i)
        BY <1>1, <2>3, <2>5, <3>2
      <4>2. Latest(log', r, M, i) /\ i \in DOMAIN log'
        BY <1>1, <1>13, <3>2, <4>1
      <4> QED
        BY <4>2
    <3> QED
      BY <3>1, <3>2
  <2>6. ASSUME NEW q \in SourceRows, NEW r \in SourceRows,
               source'[q] = source'[r], source'[q] # NoRecord
        PROVE  q = r
    <3>1. \A p \in SourceRows \ {m.row} : source[p] # NoRecord => source[p] # m.after
      BY <1>2 DEF Reports
    <3>2. source[q] = source[r] /\ source[q] # NoRecord => q = r
      BY DEF LogInv, SourceIsLogged
    <3> QED
      BY <1>1, <2>6, <3>1, <3>2
  <2> QED
    BY <2>2, <2>4, <2>5, <2>6 DEF SourceIsLogged
<1> QED
  BY <1>7, <1>8, <1>10, <1>11, <1>12 DEF LogInv

\* What is compacted is not the latest message of a row that is in the source there.
LEMMA LatestIsCompacted ==
    ASSUME TypeOK, MessagesAreSound, NEW n \in 1..Len(log), Compact(n)
    PROVE  /\ \A r, b, i : Latest(log', r, b, i) => Latest(log, r, b, i) /\ log'[i] = log[i]
           /\ \A r, b, i : Latest(log, r, b, i) /\ b > n /\ b \in Nat /\ log[i].after # NoRecord =>
                  Latest(log', r, b, i)
<1>1. /\ Len(log) \in Nat /\ DOMAIN log = 1..Len(log) /\ DOMAIN log' = DOMAIN log
      /\ \A i \in DOMAIN log : log'[i].row = log[i].row
  BY CompactFacts
<1>2. ASSUME NEW r, NEW b, NEW i, Latest(log', r, b, i)
      PROVE  Latest(log, r, b, i) /\ log'[i] = log[i]
  <2>1. i \in DOMAIN log /\ Alive(log', i)
    BY <1>1, <1>2 DEF Latest
  <2>2. Alive(log, i) /\ log'[i] = log[i]
    BY <2>1, CompactFacts
  <2> QED
    BY <1>1, <1>2, <2>2 DEF Latest
<1>3. ASSUME NEW r, NEW b \in Nat, NEW i, Latest(log, r, b, i), b > n,
             log[i].after # NoRecord
      PROVE  Latest(log', r, b, i)
  <2>1. i \in DOMAIN log /\ log[i].op # "d"
    BY <1>3 DEF Latest, MessagesAreSound, Alive
  <2>2. \A j \in (i + 1)..n : log[j].row # log[i].row
    BY <1>1, <1>3 DEF Latest
  <2>3. log'[i] = log[i]
    BY <2>1, <2>2, CompactFacts
  <2> QED
    BY <1>1, <1>3, <2>3 DEF Latest, Alive
<1> QED
  BY <1>2, <1>3

LEMMA CompactKeepsLog ==
    ASSUME TypeOK, LogInv, NEW n \in 1..Len(log), Compact(n)
    PROVE  LogInv'
<1>1. /\ Len(log) \in Nat /\ DOMAIN log = 1..Len(log)
      /\ DOMAIN log' = DOMAIN log /\ Len(log') = Len(log)
      /\ source' = source
  BY CompactFacts
<1>2. \A i \in DOMAIN log : /\ log'[i].row = log[i].row
                            /\ Alive(log', i) => Alive(log, i) /\ log'[i] = log[i]
  BY CompactFacts
<1>3. \A r, b, i : Latest(log', r, b, i) => Latest(log, r, b, i) /\ log'[i] = log[i]
  BY LatestIsCompacted DEF LogInv
<1>4. \A r, b, i : Latest(log, r, b, i) /\ b > n /\ b \in Nat /\ log[i].after # NoRecord =>
                       Latest(log', r, b, i)
  BY LatestIsCompacted DEF LogInv
<1>5. MessagesAreSound'
  BY <1>1, <1>2 DEF LogInv, MessagesAreSound
<1>6. CompactedFromStart'
  <2> SUFFICES ASSUME NEW i \in DOMAIN log', NEW j \in DOMAIN log',
                      i < j, log'[i].row = log'[j].row, ~Alive(log', j)
               PROVE  ~Alive(log', i)
    BY DEF CompactedFromStart
  <2>1. log[i].row = log[j].row
    BY <1>1, <1>2
  <2>2. CASE ~Alive(log, j)
    BY <1>1, <1>2, <2>1, <2>2 DEF LogInv, CompactedFromStart
  <2>3. CASE Alive(log, j)
    <3>1. j <= n
      <4>1. j > n => log'[j] = log[j]
        BY <1>1, CompactFacts
      <4> QED
        BY <1>1, <2>3, <4>1 DEF Alive
    <3>2. i <= n /\ j \in (i + 1)..n
      BY <1>1, <3>1
    <3> QED
      BY <1>1, <2>1, <3>2, CompactFacts
  <2> QED
    BY <2>2, <2>3
<1>7. RowsAreChained'
  <2> SUFFICES ASSUME NEW k \in DOMAIN log', Alive(log', k), NEW i \in DOMAIN log',
                      Latest(log', log'[k].row, k, i)
               PROVE  /\ log'[k].op \in {"u", "d"} => log'[k].before = log'[i].after
                      /\ log'[k].op = "r" => log'[k].after = log'[i].after
                      /\ log'[k].op = "c" => log'[i].after = NoRecord
    BY DEF RowsAreChained
  <2>1. Alive(log, k) /\ log'[k] = log[k] /\ k \in DOMAIN log /\ i \in DOMAIN log
    BY <1>1, <1>2
  <2>2. Latest(log, log[k].row, k, i) /\ log'[i] = log[i]
    BY <1>3, <2>1
  <2> QED
    BY <2>1, <2>2 DEF LogInv, RowsAreChained
<1>8. RowsAreApart'
  <2> SUFFICES ASSUME NEW k \in DOMAIN log', Alive(log', k),
                      NEW r \in SourceRows \ {log'[k].row}, NEW i \in DOMAIN log',
                      Latest(log', r, k, i), log'[i].after # NoRecord
               PROVE  log'[i].after # log'[k].before /\ log'[i].after # log'[k].after
    BY DEF RowsAreApart
  <2>1. Alive(log, k) /\ log'[k] = log[k] /\ k \in DOMAIN log /\ i \in DOMAIN log
    BY <1>1, <1>2
  <2>2. Latest(log, r, k, i) /\ log'[i] = log[i]
    BY <1>3
  <2> QED
    BY <2>1, <2>2 DEF LogInv, RowsAreApart
<1>9. SourceIsLogged'
  <2>1. ASSUME NEW r \in SourceRows, NEW i \in DOMAIN log', Latest(log', r, Len(log') + 1, i)
        PROVE  source'[r] = log'[i].after
    BY <1>1, <1>3, <2>1 DEF LogInv, SourceIsLogged
  <2>2. ASSUME NEW r \in SourceRows, source'[r] # NoRecord
        PROVE  \E i \in DOMAIN log' : Latest(log', r, Len(log') + 1, i)
    <3>1. PICK i \in DOMAIN log : Latest(log, r, Len(log) + 1, i)
      BY <1>1, <2>2 DEF LogInv, SourceIsLogged
    <3>2. log[i].after # NoRecord
      BY <1>1, <2>2, <3>1 DEF LogInv, SourceIsLogged
    <3>3. Len(log) + 1 > n /\ Len(log) + 1 \in Nat
      BY <1>1
    <3>4. Latest(log', r, Len(log) + 1, i)
      BY <1>4, <3>1, <3>2, <3>3
    <3> QED
      BY <1>1, <3>4
  <2>3. \A q, r \in SourceRows : source'[q] = source'[r] /\ source'[q] # NoRecord => q = r
    BY <1>1 DEF LogInv, SourceIsLogged
  <2> QED
    BY <2>1, <2>2, <2>3 DEF SourceIsLogged
<1> QED
  BY <1>5, <1>6, <1>7, <1>8, <1>9 DEF LogInv

\* The store says the same of the topic before and after a message is added.
LEMMA AppendKeepsStore ==
    ASSUME TypeOK, LogInv, StoredInv, NothingElseInv, NEW m, Appends(m)
    PROVE  StoredInv' /\ NothingElseInv'
<1> PICK N : N = Len(log) + 1
  OBVIOUS
<1>1. /\ N \in Nat /\ DOMAIN log = 1..(N - 1) /\ DOMAIN log' = 1..N
      /\ \A i \in DOMAIN log : log'[i] = log[i]
      /\ log'[N] = m
      /\ position \in 1..N /\ UNCHANGED <<position, store, dirty>>
      /\ \A r \in SourceRows \ {m.row} : source'[r] = source[r]
  BY DEF Appends, TypeOK
<1>2. Reports(m)
  BY DEF Appends
<1>3. MoreToRead => MoreToRead' /\ log'[position'] = log[position]
  BY <1>1 DEF MoreToRead
<1>4. StoredInv'
  <2> SUFFICES ASSUME NEW r \in SourceRows, NEW i \in DOMAIN log',
                      Latest(log', r, position', i), log'[i].after # NoRecord
               PROVE  \/ store'[<<log'[i].after.key, log'[i].after>>] > 0
                      \/ /\ MoreToRead'
                         /\ log'[position'].row = r
                         /\ log'[position'].op \in {"u", "d"}
    BY DEF StoredInv
  <2>1. Latest(log, r, position, i) /\ position' = position
    BY <1>1, LatestIsKept
  <2>2. i \in DOMAIN log /\ log'[i] = log[i]
    BY <1>1, <2>1 DEF Latest
  <2> QED
    BY <1>1, <1>3, <2>1, <2>2 DEF StoredInv
<1>5. ASSUME NEW r \in SourceRows, NEW rec \in Records, Standing(r, rec)
      PROVE  Standing(r, rec)'
  <2>1. ASSUME \A k \in DOMAIN log : k >= position => log[k].row # r
        PROVE  /\ source[r] = rec /\ source[r] # NoRecord
               /\ m.row = r => m.op # "c" /\ About(m) = rec /\ m.op # "compacted"
               /\ m.row # r => m.before # rec /\ m.after # rec
    <3>1. source[r] = rec /\ source[r] # NoRecord
      BY <1>5, <2>1, NoRecordAssumption DEF Standing
    <3> QED
      BY <1>2, <3>1 DEF Reports, About
  <2>2. ASSUME NEW n \in DOMAIN log', n >= position,
               \A k \in DOMAIN log' : position <= k /\ k < n => log'[k].row # r
        PROVE  IF log'[n].row = r
               THEN Alive(log', n) /\ log'[n].op # "c" /\ About(log'[n]) = rec
               ELSE Alive(log', n) => log'[n].before # rec /\ log'[n].after # rec
    <3>1. CASE n \in DOMAIN log
      <4>1. \A k \in DOMAIN log : position <= k /\ k < n => log[k].row # r
        BY <1>1, <2>2
      <4>2. log'[n] = log[n]
        BY <1>1, <3>1
      <4> QED
        BY <1>5, <2>2, <3>1, <4>1, <4>2 DEF Standing, Alive
    <3>2. CASE n = N
      <4>1. \A k \in DOMAIN log : k >= position => log[k].row # r
        BY <1>1, <2>2, <3>2
      <4> QED
        BY <1>1, <2>1, <3>2, <4>1 DEF Alive
    <3> QED
      BY <1>1, <3>1, <3>2
  <2>3. ASSUME \A k \in DOMAIN log' : k >= position => log'[k].row # r
        PROVE  source'[r] = rec
    <3>1. m.row # r /\ \A k \in DOMAIN log : k >= position => log[k].row # r
      BY <1>1, <2>3
    <3> QED
      BY <1>1, <2>1, <3>1
  <2>4. position' = position
    BY <1>1
  <2> QED
    BY <2>2, <2>3, <2>4 DEF Standing
<1>6. ASSUME NEW rec \in Records, Repeatable(rec) PROVE Repeatable(rec)'
  BY <1>3, <1>6 DEF Repeatable
<1>7. NothingElseInv'
  <2> SUFFICES ASSUME ~dirty', NEW k \in Keys, NEW rec \in Records, store'[<<k, rec>>] > 0
               PROVE  /\ store'[<<k, rec>>] = 1
                      /\ k = rec.key
                      /\ (\E r \in SourceRows : Standing(r, rec)') \/ Repeatable(rec)'
    BY DEF NothingElseInv
  <2>1. ~dirty /\ store' = store
    BY <1>1
  <2> QED
    BY <1>5, <1>6, <2>1 DEF NothingElseInv
<1> QED
  BY <1>4, <1>7

\* Nor does the log cleaner disturb it, but for a message about a stored record.
LEMMA CompactKeepsStore ==
    ASSUME TypeOK, LogInv, StoredInv, NothingElseInv, NEW n \in 1..Len(log), Compact(n)
    PROVE  StoredInv' /\ NothingElseInv'
<1>1. /\ DOMAIN log' = DOMAIN log
      /\ UNCHANGED <<source, position, store>> /\ (dirty => dirty')
      /\ \A i \in DOMAIN log :
            /\ ~dirty' /\ i >= position /\ Alive(log, i) /\ ~Alive(log', i) =>
                   ~Found(About(log[i]).key, About(log[i]))
            /\ log'[i].row = log[i].row
            /\ Alive(log', i) => Alive(log, i) /\ log'[i] = log[i]
  BY CompactFacts
<1>2. StoredInv'
  <2> SUFFICES ASSUME NEW r \in SourceRows, NEW i \in DOMAIN log',
                      Latest(log', r, position', i), log'[i].after # NoRecord
               PROVE  \/ store'[<<log'[i].after.key, log'[i].after>>] > 0
                      \/ /\ MoreToRead'
                         /\ log'[position'].row = r
                         /\ log'[position'].op \in {"u", "d"}
    BY DEF StoredInv
  <2>1. Latest(log, r, position, i) /\ log'[i] = log[i] /\ i \in DOMAIN log
    BY <1>1, LatestIsCompacted DEF LogInv
  <2>2. CASE store[<<log[i].after.key, log[i].after>>] > 0
    BY <1>1, <2>1, <2>2
  <2>3. CASE MoreToRead /\ log[position].row = r /\ log[position].op \in {"u", "d"}
    <3>1. i < position /\ log'[i].row = log'[position].row /\ Alive(log', i)
      BY <1>1, <2>1, <2>3 DEF Latest, MoreToRead
    <3>2. CompactedFromStart'
      BY CompactKeepsLog DEF LogInv
    <3>3. Alive(log', position)
      BY <1>1, <2>3, <3>1, <3>2 DEF CompactedFromStart, MoreToRead
    <3> QED
      BY <1>1, <2>3, <3>3 DEF MoreToRead
  <2> QED
    BY <2>1, <2>2, <2>3 DEF StoredInv
<1>3. NothingElseInv'
  <2> SUFFICES ASSUME ~dirty', NEW k \in Keys, NEW rec \in Records, store'[<<k, rec>>] > 0
               PROVE  /\ store'[<<k, rec>>] = 1
                      /\ k = rec.key
                      /\ (\E r \in SourceRows : Standing(r, rec)') \/ Repeatable(rec)'
    BY DEF NothingElseInv
  <2>1. /\ store[<<k, rec>>] > 0 /\ store' = store
        /\ store[<<k, rec>>] = 1 /\ k = rec.key
        /\ (\E r \in SourceRows : Standing(r, rec)) \/ Repeatable(rec)
    BY <1>1 DEF NothingElseInv
  \* A message about rec is left.
  <2>2. ASSUME NEW i \in DOMAIN log, i >= position, Alive(log, i), About(log[i]) = rec
        PROVE  Alive(log', i) /\ log'[i] = log[i]
    BY <1>1, <2>1, <2>2 DEF Found
  <2>3. ASSUME NEW r \in SourceRows, Standing(r, rec)
        PROVE  Standing(r, rec)'
    <3>1. ASSUME NEW i \in DOMAIN log, i >= position,
                 \A j \in DOMAIN log : position <= j /\ j < i => log[j].row # r
          PROVE  IF log'[i].row = r
                 THEN Alive(log', i) /\ log'[i].op # "c" /\ About(log'[i]) = rec
                 ELSE Alive(log', i) => log'[i].before # rec /\ log'[i].after # rec
      <4>1. IF log[i].row = r
            THEN Alive(log, i) /\ log[i].op # "c" /\ About(log[i]) = rec
            ELSE Alive(log, i) => log[i].before # rec /\ log[i].after # rec
        BY <2>3, <3>1 DEF Standing
      <4> QED
        BY <1>1, <2>2, <3>1, <4>1
    <3>2. \A j \in DOMAIN log : log'[j].row = log[j].row
      BY <1>1
    <3>3. (\A j \in DOMAIN log : j >= position => log[j].row # r) => source[r] = rec
      BY <2>3 DEF Standing
    <3> QED
      BY <1>1, <3>1, <3>2, <3>3 DEF Standing
  <2>4. ASSUME Repeatable(rec)
        PROVE  Repeatable(rec)'
    <3>1. /\ position \in DOMAIN log /\ position >= position
          /\ Alive(log, position) /\ About(log[position]) = rec
      BY <2>4 DEF Repeatable, MoreToRead, Alive, About, TypeOK
    <3>2. log'[position] = log[position]
      BY <2>2, <3>1
    <3> QED
      BY <1>1, <2>4, <3>2 DEF Repeatable, MoreToRead
  <2> QED
    BY <2>1, <2>3, <2>4
<1> QED
  BY <1>2, <1>3
-----------------------------------------------------------------------------
(***************************************************************************)
(* The copy                                                                *)
(***************************************************************************)
Slot(rec) == <<rec.key, rec>>

Slots == Keys \X Records

LEMMA SlotsAreApart ==
    /\ \A rec \in Records : Slot(rec) \in Slots
    /\ \A k \in Keys, rec \in Records : <<k, rec>> \in Slots
    /\ \A k, rec, r : <<k, rec>> = Slot(r) <=> k = r.key /\ rec = r
BY DEF Slot, Slots, Records

\* What update() does to the copies of a record, message by message.
LEMMA UpdatedByInsert ==
    ASSUME TypeOK, NEW m \in Messages, m.op \in {"c", "r"}, m.after \in Records
    PROVE  /\ Updated(m)[Slot(m.after)] =
                  IF store[Slot(m.after)] > 0 THEN store[Slot(m.after)] ELSE 1
           /\ \A s \in Slots \ {Slot(m.after)} : Updated(m)[s] = store[s]
<1>1. store \in [Slots -> Nat] /\ Slot(m.after) \in Slots
  BY SlotsAreApart DEF TypeOK, Slots
<1>2. Updated(m) = IF store[Slot(m.after)] > 0 THEN store
                   ELSE [store EXCEPT ![Slot(m.after)] = @ + 1]
  BY DEF Updated, Inserted, Found, Plus, Slot
<1> QED
  BY <1>1, <1>2

LEMMA UpdatedByReplace ==
    ASSUME TypeOK, NEW m \in Messages, m.op = "u",
           m.before \in Records, m.after \in Records, m.before.key = m.after.key
    PROVE  /\ m.before = m.after =>
                  Updated(m)[Slot(m.after)] =
                      IF store[Slot(m.after)] > 0 THEN store[Slot(m.after)] ELSE 1
           /\ m.before # m.after =>
                  /\ Updated(m)[Slot(m.after)] = store[Slot(m.after)] + 1
                  /\ Updated(m)[Slot(m.before)] =
                         IF store[Slot(m.before)] > 0 THEN store[Slot(m.before)] - 1 ELSE 0
           /\ \A s \in Slots \ {Slot(m.before), Slot(m.after)} : Updated(m)[s] = store[s]
<1>1. /\ store \in [Slots -> Nat] /\ Slot(m.after) \in Slots /\ Slot(m.before) \in Slots
      /\ m.before # m.after => Slot(m.before) # Slot(m.after)
  BY SlotsAreApart DEF TypeOK, Slots, Slot
<1>2. Updated(m) =
          IF store[Slot(m.before)] > 0
          THEN [[store EXCEPT ![Slot(m.before)] = @ - 1] EXCEPT ![Slot(m.after)] = @ + 1]
          ELSE [store EXCEPT ![Slot(m.after)] = @ + 1]
  BY DEF Updated, Replaced, Found, Plus, Minus, Slot
<1> QED
  BY <1>1, <1>2

LEMMA UpdatedByDelete ==
    ASSUME TypeOK, NEW m \in Messages, m.op = "d", m.before \in Records
    PROVE  /\ Updated(m)[Slot(m.before)] =
                  IF store[Slot(m.before)] > 0 THEN store[Slot(m.before)] - 1 ELSE 0
           /\ \A s \in Slots \ {Slot(m.before)} : Updated(m)[s] = store[s]
<1>1. store \in [Slots -> Nat] /\ Slot(m.before) \in Slots
  BY SlotsAreApart DEF TypeOK, Slots
<1>2. Updated(m) = IF store[Slot(m.before)] > 0
                   THEN [store EXCEPT ![Slot(m.before)] = @ - 1]
                   ELSE store
  BY DEF Updated, Deleted, Found, Minus, Slot
<1> QED
  BY <1>1, <1>2

\* The record another row has there keeps its copies.
LEMMA OthersAreKept ==
    ASSUME TypeOK, LogInv, MoreToRead,
           NEW r \in SourceRows, r # log[position].row,
           NEW i \in DOMAIN log, Latest(log, r, position, i), log[i].after # NoRecord
    PROVE  Updated(log[position])[Slot(log[i].after)] = store[Slot(log[i].after)]
<1> DEFINE m == log[position]
           rec == log[i].after
<1>1. m \in Messages /\ log[i] \in Messages /\ position \in DOMAIN log
  BY DEF TypeOK, MoreToRead
<1>2. rec \in Records
  BY <1>1 DEF Messages
<1>3. CASE ~Alive(log, position)
  BY <1>3 DEF Alive, Updated
<1>4. CASE Alive(log, position)
  <2>1. rec # m.before /\ rec # m.after
    BY <1>1, <1>4 DEF LogInv, RowsAreApart
  <2>2. /\ m.op \in {"c", "r", "u", "d"}
        /\ m.op \in {"c", "r", "u"} => m.after \in Records
        /\ m.op \in {"u", "d"} => m.before \in Records
        /\ m.op = "u" => m.before.key = m.after.key
    BY <1>1, <1>4 DEF LogInv, MessagesAreSound, Alive, Messages
  <2>3. Slot(rec) \in Slots /\ Slot(rec) # Slot(m.before) /\ Slot(rec) # Slot(m.after)
    BY <1>2, <2>1, SlotsAreApart DEF Slot
  <2> SUFFICES Updated(m)[Slot(rec)] = store[Slot(rec)]
    OBVIOUS
  <2> HIDE DEF m, rec
  <2>4. CASE m.op \in {"c", "r"}
    BY <1>1, <2>2, <2>3, <2>4, UpdatedByInsert
  <2>5. CASE m.op = "u"
    BY <1>1, <2>2, <2>3, <2>5, UpdatedByReplace
  <2>6. CASE m.op = "d"
    BY <1>1, <2>2, <2>3, <2>6, UpdatedByDelete
  <2> QED
    BY <2>2, <2>4, <2>5, <2>6
<1> QED
  BY <1>3, <1>4

\* The row of a message has the message's record once that was read.
LEMMA LatestOfNext ==
    ASSUME TypeOK, CompactedFromStart, MoreToRead, NEW n, n = position + 1
    PROVE  /\ \A r, i : r # log[position].row =>
                  (Latest(log, r, n, i) <=> Latest(log, r, position, i))
           /\ \A i : Latest(log, log[position].row, n, i) => i = position /\ Alive(log, position)
           /\ Alive(log, position) => Latest(log, log[position].row, n, position)
           /\ ~Alive(log, position) => \A i : ~Latest(log, log[position].row, position, i)
<1>1. /\ position \in DOMAIN log /\ DOMAIN log = 1..Len(log) /\ Len(log) \in Nat
      /\ position \in Nat
  BY DEF TypeOK, MoreToRead
<1>2. ASSUME NEW r, NEW i, r # log[position].row
      PROVE  Latest(log, r, n, i) <=> Latest(log, r, position, i)
  BY <1>1, <1>2 DEF Latest
<1>3. ASSUME NEW i, Latest(log, log[position].row, n, i)
      PROVE  i = position /\ Alive(log, position)
  BY <1>1, <1>3 DEF Latest
<1>4. Alive(log, position) => Latest(log, log[position].row, n, position)
  BY <1>1 DEF Latest
<1>5. ASSUME ~Alive(log, position), NEW i PROVE ~Latest(log, log[position].row, position, i)
  BY <1>1, <1>5 DEF Latest, CompactedFromStart
<1> QED
  BY <1>2, <1>3, <1>4, <1>5

Step == Apply \/ ApplyInterrupted

LEMMA StepFacts ==
    ASSUME TypeOK, Step
    PROVE  /\ MoreToRead /\ log[position] \in Messages
           /\ store' = Updated(log[position])
           /\ UNCHANGED <<source, log>>
           /\ position' \in {position, position + 1}
           /\ ~dirty' => ~dirty
           /\ ~dirty' /\ position' = position /\ log[position].op = "u" =>
                  log[position].before = log[position].after
<1>1. /\ position <= Len(log) /\ store' = Updated(log[position])
      /\ UNCHANGED <<source, log>>
      /\ position' \in {position, position + 1}
  BY Zenon DEF Step, Apply, ApplyInterrupted
<1>2. position \in Nat /\ MoreToRead /\ log[position] \in Messages
  <2>1. position \in 1..(Len(log) + 1) /\ Len(log) \in Nat /\ log \in Seq(Messages)
    BY DEF TypeOK
  <2> QED
    BY <1>1, <2>1 DEF MoreToRead
<1>3. CASE Apply
  <2>1. position' # position /\ dirty' = dirty
    BY <1>2, <1>3 DEF Apply
  <2> QED
    BY <1>1, <1>2, <2>1
<1>4. CASE ApplyInterrupted
  <2>1. dirty' = (\/ dirty
                  \/ /\ log[position].op = "u"
                     /\ log[position].before # log[position].after)
    BY <1>4 DEF ApplyInterrupted
  <2>2. /\ ~dirty' => ~dirty
        /\ ~dirty' /\ log[position].op = "u" => log[position].before = log[position].after
    BY <2>1, Zenon
  <2> QED
    BY <1>1, <1>2, <2>2
<1> QED
  BY <1>3, <1>4 DEF Step

LEMMA StepKeepsStored ==
    ASSUME TypeOK, LogInv, StoredInv, Step
    PROVE  StoredInv'
<1> DEFINE m == log[position]
<1>1. /\ MoreToRead /\ m \in Messages /\ store' = Updated(m) /\ log' = log
      /\ position' \in {position, position + 1}
  BY StepFacts
<1>2. ASSUME Alive(log, position)
      PROVE  /\ m.op \in {"c", "r", "u", "d"}
             /\ m.op \in {"c", "r", "u"} => m.after \in Records
             /\ m.op \in {"u", "d"} => m.before \in Records
             /\ m.op = "d" => m.after = NoRecord
             /\ m.op = "u" => m.before.key = m.after.key
  BY <1>1, <1>2 DEF LogInv, MessagesAreSound, Alive, Messages, MoreToRead
<1> SUFFICES ASSUME NEW r \in SourceRows, NEW i \in DOMAIN log,
                    Latest(log, r, position', i), log[i].after # NoRecord
             PROVE  \/ store'[Slot(log[i].after)] > 0
                    \/ /\ MoreToRead'
                       /\ log[position'].row = r
                       /\ log[position'].op \in {"u", "d"}
  BY <1>1 DEF StoredInv, Slot
<1>3. log[i] \in Messages /\ log[i].after \in Records
  <2>1. log[i] \in Messages
    BY DEF TypeOK
  <2> QED
    BY <2>1 DEF Messages
<1>4. store[Slot(log[i].after)] \in Nat
  BY <1>3, SlotsAreApart DEF TypeOK, Slots
<1>5. ASSUME Latest(log, r, position, i), r # m.row
      PROVE  store'[Slot(log[i].after)] > 0
  <2>1. store[Slot(log[i].after)] > 0
    BY <1>5 DEF StoredInv, Slot
  <2> QED
    BY <1>1, <1>5, <2>1, OthersAreKept
<1>6. CASE r # m.row
  <2>1. Latest(log, r, position, i)
    BY <1>1, <1>6, LatestOfNext DEF LogInv
  <2> QED
    BY <1>5, <1>6, <2>1
<1>7. CASE r = m.row /\ position' = position + 1
  <2>1. i = position /\ Alive(log, position)
    BY <1>1, <1>7, LatestOfNext DEF LogInv
  <2>2. m.op \in {"c", "r", "u"} /\ m.after = log[i].after
    BY <1>2, <2>1
  <2>3. store[Slot(m.after)] \in Nat
    BY <1>4, <2>1
  <2> HIDE DEF m
  <2>4. CASE m.op \in {"c", "r"}
    <3>1. store'[Slot(m.after)] > 0
      BY <1>1, <1>2, <2>1, <2>3, <2>4, UpdatedByInsert
    <3> QED
      BY <2>2, <3>1
  <2>5. CASE m.op = "u"
    <3>1. store'[Slot(m.after)] > 0
      BY <1>1, <1>2, <2>1, <2>3, <2>5, UpdatedByReplace
    <3> QED
      BY <2>2, <3>1
  <2> QED
    BY <2>2, <2>4, <2>5
<1>8. CASE r = m.row /\ position' = position
  <2>1. Latest(log, r, position, i) /\ (MoreToRead' <=> MoreToRead)
    BY <1>1, <1>8 DEF MoreToRead
  <2>2. CASE m.op \in {"u", "d"}
    BY <1>1, <1>8, <2>1, <2>2
  <2>3. CASE m.op \notin {"u", "d"}
    <3>1. store[Slot(log[i].after)] > 0
      BY <2>1, <2>3 DEF StoredInv, Slot
    <3>2. Alive(log, position)
      BY <1>1, <1>8, <2>1, LatestOfNext DEF LogInv
    <3>3. m.op \in {"c", "r"} /\ m.after \in Records
      BY <1>2, <2>3, <3>2
    <3>4. Slot(log[i].after) \in Slots
      BY <1>3, SlotsAreApart
    <3> HIDE DEF m
    <3>5. store'[Slot(log[i].after)] > 0
      BY <1>1, <3>1, <3>3, <3>4, UpdatedByInsert
    <3> QED
      BY <3>5
  <2> QED
    BY <2>2, <2>3
<1> QED
  BY <1>1, <1>6, <1>7, <1>8

\* The record of a row stands until its next message, and that which it then gets.
LEMMA StandingFacts ==
    ASSUME TypeOK, LogInv, MoreToRead, NEW rec, NEW r \in SourceRows,
           UNCHANGED <<source, log>>
    PROVE  /\ Standing(r, rec) =>
                  IF log[position].row = r
                  THEN /\ Alive(log, position) /\ log[position].op # "c"
                       /\ About(log[position]) = rec
                  ELSE /\ Alive(log, position) =>
                              log[position].before # rec /\ log[position].after # rec
                       /\ position' = position + 1 => Standing(r, rec)'
           /\ Standing(r, rec) /\ position' = position => Standing(r, rec)'
           /\ /\ Alive(log, position) /\ position' = position + 1 /\ rec \in Records
              /\ log[position].row = r /\ log[position].after = rec
              => Standing(r, rec)'
<1>1. /\ position \in DOMAIN log /\ DOMAIN log = 1..Len(log) /\ Len(log) \in Nat
      /\ position \in Nat
  BY DEF TypeOK, MoreToRead
<1>2. ASSUME Standing(r, rec)
      PROVE  IF log[position].row = r
             THEN /\ Alive(log, position) /\ log[position].op # "c"
                  /\ About(log[position]) = rec
             ELSE Alive(log, position) =>
                      log[position].before # rec /\ log[position].after # rec
  BY <1>1, <1>2 DEF Standing
<1>3. ASSUME Standing(r, rec), log[position].row # r, position' = position + 1
      PROVE  Standing(r, rec)'
  <2>1. ASSUME NEW n \in DOMAIN log, n >= position',
               \A k \in DOMAIN log : position' <= k /\ k < n => log[k].row # r
        PROVE  IF log[n].row = r
               THEN Alive(log, n) /\ log[n].op # "c" /\ About(log[n]) = rec
               ELSE Alive(log, n) => log[n].before # rec /\ log[n].after # rec
    <3>1. n >= position /\ \A k \in DOMAIN log : position <= k /\ k < n => log[k].row # r
      BY <1>1, <1>3, <2>1
    <3> QED
      BY <1>3, <3>1 DEF Standing
  <2>2. ASSUME \A k \in DOMAIN log : k >= position' => log[k].row # r
        PROVE  source[r] = rec
    <3>1. \A k \in DOMAIN log : k >= position => log[k].row # r
      BY <1>1, <1>3, <2>2
    <3> QED
      BY <1>3, <3>1 DEF Standing
  <2> QED
    BY <2>1, <2>2 DEF Standing
<1>4. ASSUME Alive(log, position), position' = position + 1, rec \in Records,
             log[position].row = r, log[position].after = rec
      PROVE  Standing(r, rec)'
  <2>1. ASSUME NEW n \in DOMAIN log, n >= position',
               \A k \in DOMAIN log : position' <= k /\ k < n => log[k].row # r
        PROVE  IF log[n].row = r
               THEN Alive(log, n) /\ log[n].op # "c" /\ About(log[n]) = rec
               ELSE Alive(log, n) => log[n].before # rec /\ log[n].after # rec
    <3>1. Latest(log, r, n, position)
      BY <1>1, <1>4, <2>1 DEF Latest
    <3>2. CASE log[n].row = r
      <4>1. Alive(log, n)
        BY <1>1, <1>4, <2>1, <3>2 DEF LogInv, CompactedFromStart
      <4>2. /\ log[n].op \in {"u", "d"} => log[n].before = rec
            /\ log[n].op = "r" => log[n].after = rec
            /\ log[n].op # "c"
        BY <1>1, <1>4, <3>1, <3>2, <4>1, NoRecordAssumption DEF LogInv, RowsAreChained
      <4>3. log[n].op \in {"r", "u", "d"}
        <5>1. log[n] \in Messages
          BY DEF TypeOK
        <5> QED
          BY <4>1, <4>2, <5>1 DEF Messages, Alive
      <4> QED
        BY <3>2, <4>1, <4>2, <4>3 DEF About
    <3>3. CASE log[n].row # r
      BY <1>1, <1>4, <3>1, <3>3, NoRecordAssumption DEF LogInv, RowsAreApart
    <3> QED
      BY <3>2, <3>3
  <2>2. ASSUME \A k \in DOMAIN log : k >= position' => log[k].row # r
        PROVE  source[r] = rec
    <3>1. Latest(log, r, Len(log) + 1, position)
      BY <1>1, <1>4, <2>2 DEF Latest
    <3> QED
      BY <1>1, <1>4, <3>1 DEF LogInv, SourceIsLogged
  <2> QED
    BY <2>1, <2>2 DEF Standing
<1>5. Standing(r, rec) /\ position' = position => Standing(r, rec)'
  BY DEF Standing
<1> QED
  BY <1>2, <1>3, <1>4, <1>5

LEMMA StepKeepsNothingElse ==
    ASSUME TypeOK, LogInv, NothingElseInv, Step
    PROVE  NothingElseInv'
<1> DEFINE m == log[position]
           n == position + 1
<1>1. /\ MoreToRead /\ m \in Messages /\ m.row \in SourceRows /\ source' = source
      /\ store' = Updated(m) /\ log' = log
      /\ position' \in {position, n} /\ position \in Nat
      /\ ~dirty' => ~dirty
      /\ ~dirty' /\ position' = position /\ m.op = "u" => m.before = m.after
  BY StepFacts DEF Messages, MoreToRead, TypeOK
<1>2. ASSUME Alive(log, position)
      PROVE  /\ m.op \in {"c", "r", "u", "d"}
             /\ m.op \in {"c", "r", "u"} => m.after \in Records
             /\ m.op \in {"u", "d"} => m.before \in Records
             /\ m.op = "u" => m.before.key = m.after.key
  BY <1>1, <1>2 DEF LogInv, MessagesAreSound, Alive, Messages, MoreToRead
<1> SUFFICES ASSUME ~dirty', NEW k \in Keys, NEW rec \in Records, store'[<<k, rec>>] > 0
             PROVE  /\ store'[<<k, rec>>] = 1
                    /\ k = rec.key
                    /\ (\E r \in SourceRows : Standing(r, rec)') \/ Repeatable(rec)'
  BY <1>1 DEF NothingElseInv
<1> DEFINE Stands == (\E r \in SourceRows : Standing(r, rec)) \/ Repeatable(rec)
<1>3. ASSUME NEW key \in Keys, NEW r \in Records, store[<<key, r>>] > 0
      PROVE  /\ store[<<key, r>>] = 1 /\ key = r.key
             /\ (\E q \in SourceRows : Standing(q, r)) \/ Repeatable(r)
  BY <1>1, <1>3 DEF NothingElseInv
<1>4. /\ <<k, rec>> \in Slots
      /\ \A s \in Slots : store[s] \in Nat
      /\ \A r \in Records : Slot(r) \in Slots /\ r.key \in Keys
      /\ \A r : <<k, rec>> = Slot(r) <=> k = r.key /\ rec = r
  BY SlotsAreApart DEF TypeOK, Slots, Records
\* The record of a row stands, or the message is about it.
<1>5. ASSUME NEW r \in SourceRows, Standing(r, rec)
      PROVE  /\ m.row = r => Alive(log, position) /\ m.op # "c" /\ About(m) = rec
             /\ m.row # r /\ Alive(log, position) => m.before # rec /\ m.after # rec
             /\ m.row # r => Standing(r, rec)'
  BY <1>1, <1>5, StandingFacts
<1>6. ASSUME Alive(log, position), m.after = rec, position' = n
      PROVE  \E r \in SourceRows : Standing(r, rec)'
  BY <1>1, <1>6, StandingFacts
<1>7. ASSUME NEW r, Repeatable(r) PROVE m.op \in {"c", "r", "u"} /\ m.after = r
                                       /\ (m.op = "u" => m.before = r)
                                       /\ Alive(log, position)
  BY <1>7 DEF Repeatable, Alive
<1>8. position' = position => (Repeatable(rec)' <=> Repeatable(rec))
  BY <1>1 DEF Repeatable, MoreToRead
\* The message leaves its record there once.
<1>9. ASSUME Alive(log, position), m.op \in {"c", "r", "u"}, m.after = rec, k = rec.key,
             m.op = "u" /\ m.before # m.after => position' = n
      PROVE  Stands'
  <2>1. CASE position' = n
    BY <1>6, <1>9, <2>1
  <2>2. CASE position' = position
    BY <1>1, <1>8, <1>9, <2>2 DEF Repeatable, MoreToRead
  <2> QED
    BY <1>1, <2>1, <2>2
\* Any other record that it leaves where it was is still that of a row.
<1>10. ASSUME store[<<k, rec>>] > 0,
              Alive(log, position) /\ m.op \in {"c", "r", "u"} => m.after # rec,
              Alive(log, position) /\ m.op \in {"u", "d"} => m.before # rec
       PROVE  store[<<k, rec>>] = 1 /\ k = rec.key /\ Stands'
  <2>1. store[<<k, rec>>] = 1 /\ k = rec.key /\ \E r \in SourceRows : Standing(r, rec)
    BY <1>3, <1>7, <1>10
  <2>2. PICK r \in SourceRows : Standing(r, rec)
    BY <2>1
  <2>3. m.row # r
    <3> SUFFICES ASSUME m.row = r PROVE FALSE
      OBVIOUS
    <3>1. Alive(log, position) /\ m.op # "c" /\ About(m) = rec
      BY <1>5, <2>2
    <3> QED
      BY <1>2, <1>10, <3>1 DEF About
  <2> QED
    BY <1>1, <1>5, <2>1, <2>2, <2>3
<1>11. CASE ~Alive(log, position)
  <2>1. store' = store
    BY <1>1, <1>11 DEF Alive, Updated
  <2> QED
    BY <1>10, <1>11, <2>1
<1> HIDE DEF m, n
<1>12. CASE Alive(log, position) /\ m.op \in {"c", "r"}
  <2>1. m.after \in Records
    BY <1>2, <1>12
  <2>2. /\ store'[Slot(m.after)] = IF store[Slot(m.after)] > 0 THEN store[Slot(m.after)] ELSE 1
        /\ \A s \in Slots \ {Slot(m.after)} : store'[s] = store[s]
    BY <1>1, <1>12, <2>1, UpdatedByInsert
  <2>3. CASE <<k, rec>> = Slot(m.after)
    <3>1. m.after = rec /\ k = rec.key /\ Slot(m.after) = <<k, rec>>
      BY <1>4, <2>3
    <3>2. store'[<<k, rec>>] = 1
      BY <1>3, <2>2, <3>1
    <3> QED
      BY <1>9, <1>12, <3>1, <3>2
  <2>4. CASE <<k, rec>> # Slot(m.after)
    <3>1. store'[<<k, rec>>] = store[<<k, rec>>]
      BY <1>4, <2>2, <2>4
    <3>2. store[<<k, rec>>] = 1 /\ k = rec.key
      BY <1>3, <3>1
    <3>3. m.after # rec
      BY <1>4, <2>4, <3>2
    <3> QED
      BY <1>10, <1>12, <3>1, <3>2, <3>3
  <2> QED
    BY <2>3, <2>4
<1>13. CASE Alive(log, position) /\ m.op = "u" /\ m.before = m.after
  <2>1. m.after \in Records
    BY <1>2, <1>13
  <2>2. /\ store'[Slot(m.after)] = IF store[Slot(m.after)] > 0 THEN store[Slot(m.after)] ELSE 1
        /\ \A s \in Slots \ {Slot(m.after)} : store'[s] = store[s]
    BY <1>1, <1>13, <2>1, UpdatedByReplace
  <2>3. CASE <<k, rec>> = Slot(m.after)
    <3>1. m.after = rec /\ k = rec.key /\ Slot(m.after) = <<k, rec>>
      BY <1>4, <2>3
    <3>2. store'[<<k, rec>>] = 1
      BY <1>3, <2>2, <3>1
    <3> QED
      BY <1>9, <1>13, <3>1, <3>2
  <2>4. CASE <<k, rec>> # Slot(m.after)
    <3>1. store'[<<k, rec>>] = store[<<k, rec>>]
      BY <1>4, <2>2, <2>4
    <3>2. store[<<k, rec>>] = 1 /\ k = rec.key
      BY <1>3, <3>1
    <3>3. m.after # rec
      BY <1>4, <2>4, <3>2
    <3> QED
      BY <1>10, <1>13, <3>1, <3>2, <3>3
  <2> QED
    BY <2>3, <2>4
<1>14. CASE Alive(log, position) /\ m.op = "u" /\ m.before # m.after
  <2>1. m.before \in Records /\ m.after \in Records /\ m.before.key = m.after.key
    BY <1>2, <1>14
  <2>2. /\ store'[Slot(m.after)] = store[Slot(m.after)] + 1
        /\ store'[Slot(m.before)] =
               IF store[Slot(m.before)] > 0 THEN store[Slot(m.before)] - 1 ELSE 0
        /\ \A s \in Slots \ {Slot(m.before), Slot(m.after)} : store'[s] = store[s]
    BY <1>1, <1>14, <2>1, UpdatedByReplace
  <2>3. position' = n
    BY <1>1, <1>14
  <2>4. CASE <<k, rec>> = Slot(m.after)
    <3>1. m.after = rec /\ k = rec.key /\ Slot(m.after) = <<k, rec>>
      BY <1>4, <2>4
    \* No row has that record yet.
    <3>2. ~(store[<<k, rec>>] > 0)
      <4> SUFFICES ASSUME store[<<k, rec>>] > 0 PROVE FALSE
        OBVIOUS
      <4>1. ~Repeatable(rec)
        BY <1>7, <1>14, <3>1
      <4>2. PICK r \in SourceRows : Standing(r, rec)
        BY <1>3, <4>1
      <4> QED
        BY <1>5, <1>14, <3>1, <4>2 DEF About
    <3>3. store'[<<k, rec>>] = 1
      <4>1. store[<<k, rec>>] \in Nat
        BY <1>4
      <4> QED
        BY <2>2, <3>1, <3>2, <4>1
    <3> QED
      BY <1>9, <1>14, <2>3, <3>1, <3>3
  <2>5. <<k, rec>> # Slot(m.before)
    <3> SUFFICES ASSUME <<k, rec>> = Slot(m.before) PROVE FALSE
      OBVIOUS
    <3>1. store[Slot(m.before)] > 0 => store[Slot(m.before)] = 1
      BY <1>3
    <3>2. store'[Slot(m.before)] = 0
      BY <2>2, <3>1
    <3> QED
      BY <3>2
  <2>6. CASE <<k, rec>> # Slot(m.after)
    <3>1. store'[<<k, rec>>] = store[<<k, rec>>]
      BY <1>4, <2>2, <2>5, <2>6
    <3>2. store[<<k, rec>>] = 1 /\ k = rec.key
      BY <1>3, <3>1
    <3>3. m.after # rec /\ m.before # rec
      BY <1>4, <2>5, <2>6, <3>2
    <3> QED
      BY <1>10, <1>14, <3>1, <3>2, <3>3
  <2> QED
    BY <2>4, <2>6
<1>15. CASE Alive(log, position) /\ m.op = "d"
  <2>1. m.before \in Records
    BY <1>2, <1>15
  <2>2. /\ store'[Slot(m.before)] =
               IF store[Slot(m.before)] > 0 THEN store[Slot(m.before)] - 1 ELSE 0
        /\ \A s \in Slots \ {Slot(m.before)} : store'[s] = store[s]
    BY <1>1, <1>15, <2>1, UpdatedByDelete
  <2>3. <<k, rec>> # Slot(m.before)
    <3> SUFFICES ASSUME <<k, rec>> = Slot(m.before) PROVE FALSE
      OBVIOUS
    <3>1. store[Slot(m.before)] > 0 => store[Slot(m.before)] = 1
      BY <1>3
    <3>2. store'[Slot(m.before)] = 0
      BY <2>2, <3>1
    <3> QED
      BY <3>2
  <2>4. store'[<<k, rec>>] = store[<<k, rec>>]
    BY <1>4, <2>2, <2>3
  <2>5. store[<<k, rec>>] = 1 /\ k = rec.key
    BY <1>3, <2>4
  <2>6. m.before # rec
    BY <1>4, <2>3, <2>5
  <2> QED
    BY <1>10, <1>15, <2>4, <2>5, <2>6
<1> QED
  BY <1>2, <1>11, <1>12, <1>13, <1>14, <1>15

-----------------------------------------------------------------------------
(***************************************************************************)
(* The theorems                                                            *)
(***************************************************************************)
LEMMA InvariantAtInit == Init => IInv
<1> SUFFICES ASSUME Init PROVE IInv
  OBVIOUS
<1>1. TypeOK /\ log = <<>> /\ DOMAIN log = {}
  BY TypeAtInit DEF Init
<1>2. LogInv
  BY <1>1 DEF Init, LogInv, MessagesAreSound, CompactedFromStart, RowsAreChained,
              RowsAreApart, SourceIsLogged
<1>3. StoredInv /\ NothingElseInv
  BY <1>1 DEF Init, StoredInv, NothingElseInv, Nothing
<1> QED
  BY <1>1, <1>2, <1>3 DEF IInv

LEMMA InvariantHolds ==
    ASSUME ~Twins, ~Moves
    PROVE  IInv /\ [Next]_vars => IInv'
<1> SUFFICES ASSUME IInv, [Next]_vars PROVE IInv'
  OBVIOUS
<1>1. TypeOK /\ LogInv /\ StoredInv /\ NothingElseInv /\ SourceIsLogged
  BY DEF IInv, LogInv
<1>2. TypeOK'
  BY <1>1, TypeHolds
<1>3. ASSUME NEW r \in SourceRows,
             (\E rec \in Records : Write(r, rec)) \/ Remove(r) \/ Snapshot(r)
      PROVE  IInv'
  <2>1. PICK m \in Messages : Appends(m)
    BY <1>1, <1>3, ChangesAreReported
  <2> QED
    BY <1>1, <1>2, <2>1, AppendKeepsLog, AppendKeepsStore DEF IInv
<1>4. ASSUME NEW n \in 1..Len(log), Compact(n) PROVE IInv'
  BY <1>1, <1>2, <1>4, CompactKeepsLog, CompactKeepsStore DEF IInv
<1>5. ASSUME UNCHANGED <<source, log>> PROVE LogInv'
  BY <1>1, <1>5 DEF LogInv, MessagesAreSound, CompactedFromStart, RowsAreChained,
                    RowsAreApart, SourceIsLogged
<1>6. CASE Step
  BY <1>1, <1>2, <1>5, <1>6, StepFacts, StepKeepsStored, StepKeepsNothingElse DEF IInv
<1>7. CASE Rebuild
  <2>1. /\ store' = Nothing /\ position' = 1 /\ UNCHANGED <<source, log>>
    BY <1>7 DEF Rebuild
  <2>2. \A r, i : ~Latest(log, r, 1, i)
    BY <1>1 DEF Latest, TypeOK
  <2>3. StoredInv'
    BY <2>1, <2>2 DEF StoredInv
  <2>4. NothingElseInv'
    BY <2>1 DEF NothingElseInv, Nothing
  <2> QED
    BY <1>2, <1>5, <2>1, <2>3, <2>4 DEF IInv
<1>8. CASE UNCHANGED vars
  BY <1>1, <1>2, <1>5, <1>8
     DEF vars, IInv, StoredInv, NothingElseInv, Standing, Repeatable, MoreToRead
<1> QED
  BY <1>3, <1>4, <1>6, <1>7, <1>8 DEF Next, Step

\* The topic says of each row what the source has, and the store has what the topic says:
\* the inductive invariant.
THEOREM Invariant ==
    ASSUME ~Twins, ~Moves
    PROVE  Spec => []IInv
<1>1. Init => IInv
  BY InvariantAtInit
<1>2. IInv /\ [Next]_vars => IInv'
  BY InvariantHolds
<1> QED
  BY <1>1, <1>2, PTL DEF Spec

LEMMA StandingIsInSource ==
    ASSUME IInv, CaughtUp, NEW rec \in Records, NEW r \in SourceRows, Standing(r, rec)
    PROVE  source[r] = rec
BY DEF IInv, TypeOK, Standing, CaughtUp

LEMMA InSourceCount ==
    ASSUME IInv, NEW k \in Keys, NEW rec \in Records
    PROVE  /\ InSource(k, rec) \in {0, 1}
           /\ InSource(k, rec) = 1 <=> k = rec.key /\ \E r \in SourceRows : source[r] = rec
<1> DEFINE rows == {r \in SourceRows : source[r] = rec /\ rec.key = k}
<1>1. CASE rows = {}
  <2>1. InSource(k, rec) = 0
    BY <1>1, FS_EmptySet DEF InSource
  <2> QED
    BY <1>1, <2>1
<1>2. ASSUME NEW r \in rows PROVE InSource(k, rec) = 1
  <2>1. rows = {r}
    BY <1>2, NoRecordAssumption DEF IInv, LogInv, SourceIsLogged
  <2> QED
    BY <2>1, FS_Singleton DEF InSource
<1> QED
  BY <1>1, <1>2

LEMMA AllIsStored == IInv => NothingMissing
<1> SUFFICES ASSUME IInv, CaughtUp, NEW k \in Keys, NEW rec \in Records
             PROVE  store[<<k, rec>>] >= InSource(k, rec)
  BY DEF NothingMissing
<1>1. store[<<k, rec>>] \in Nat
  BY DEF IInv, TypeOK
<1>2. ASSUME NEW r \in SourceRows, source[r] = rec, k = rec.key
      PROVE  store[<<k, rec>>] > 0
  <2>1. PICK i \in DOMAIN log : Latest(log, r, position, i) /\ log[i].after = rec
    BY <1>2, NoRecordAssumption DEF IInv, LogInv, SourceIsLogged, CaughtUp
  <2>2. ~MoreToRead
    BY DEF IInv, TypeOK, CaughtUp, MoreToRead
  <2> QED
    BY <1>2, <2>1, <2>2, NoRecordAssumption DEF IInv, StoredInv
<1> QED
  BY <1>1, <1>2, InSourceCount

LEMMA NothingElseIsStored == IInv => ExactUnlessDisturbed
<1> SUFFICES ASSUME IInv, CaughtUp, ~dirty, NEW k \in Keys, NEW rec \in Records
             PROVE  store[<<k, rec>>] = InSource(k, rec)
  BY DEF ExactUnlessDisturbed
<1>1. store[<<k, rec>>] \in Nat
  BY DEF IInv, TypeOK
<1>2. store[<<k, rec>>] >= InSource(k, rec)
  BY AllIsStored DEF NothingMissing
<1>3. ASSUME store[<<k, rec>>] > 0 PROVE store[<<k, rec>>] = 1 /\ InSource(k, rec) = 1
  <2>1. ~MoreToRead
    BY DEF IInv, TypeOK, CaughtUp, MoreToRead
  <2>2. store[<<k, rec>>] = 1 /\ k = rec.key /\ \E r \in SourceRows : Standing(r, rec)
    BY <1>3, <2>1 DEF IInv, NothingElseInv, Repeatable
  <2> QED
    BY <2>2, StandingIsInSource, InSourceCount
<1> QED
  BY <1>1, <1>2, <1>3, InSourceCount

\* Once the topic is read, every row of the source is in the store, whatever Kafka has
\* compacted away, read or not, and however often a message was delivered.
THEOREM AllRowsAreStored ==
    ASSUME ~Twins, ~Moves
    PROVE  Spec => []NothingMissing
<1>1. Spec => []IInv
  BY Invariant
<1> QED
  BY <1>1, AllIsStored, PTL

\* And the store has nothing else, unless an update was interrupted since it was cleared,
\* or the log cleaner took a message about a stored record before it was read.
THEOREM CopyIsExact ==
    ASSUME ~Twins, ~Moves
    PROVE  Spec => []ExactUnlessDisturbed
<1>1. Spec => []IInv
  BY Invariant
<1> QED
  BY <1>1, NothingElseIsStored, PTL
=============================================================================
