------------------------- MODULE BulkServiceProofs -------------------------
(***************************************************************************)
(* Proofs of the safety properties of BulkService, for any number of       *)
(* callers and items and any size of a batch.                              *)
(***************************************************************************)
EXTENDS BulkService, FiniteSetTheorems, TLAPS

\* Of the items of o, those in `acc` and `ref` have been sent, in batches that all but
\* the last are full, and `left` are still to be.
Accounts(o, left, acc, ref) ==
    /\ o.items = acc \cup ref \cup left
    /\ acc \cap ref = {}
    /\ (acc \cup ref) \cap left = {}
    /\ o.successBatches = 0 <=> acc = {}
    /\ o.failedBatches = 0 <=> ref = {}
    /\ (o.successBatches + o.failedBatches - 1) * BatchSize < Cardinality(acc \cup ref)
    /\ Cardinality(acc \cup ref) <= (o.successBatches + o.failedBatches) * BatchSize
    /\ left # {} => Cardinality(acc \cup ref) = (o.successBatches + o.failedBatches) * BatchSize

\* The batch under way is cut from what is left: it is full, or all of it.
Progress ==
    \A o \in operations :
        /\ o.batch \cap o.rest = {}
        /\ o.rest # {} => Cardinality(o.batch) = BatchSize
        /\ Accounts(o, o.batch \cup o.rest, accepted[o.caller], refused[o.caller])

IInv ==
    /\ BulkTypeOK
    /\ OneOperation
    /\ Progress
    /\ ReportsAreTrue

-----------------------------------------------------------------------------
\* What the next chunk of an array is.
LEMMA ChunkOf ==
    ASSUME NEW items \in SUBSET Items, items # {}, NEW b \in Batches(items)
    PROVE  /\ b \in Chunks
           /\ b \subseteq items
           /\ items \ b # {} => Cardinality(b) = BatchSize
<1>1. IsFiniteSet(items)
  BY BulkAssumption, FS_Subset
<1>2. Cardinality(items) \in Nat /\ Cardinality(items) # 0
  BY <1>1, FS_CardinalityType, FS_EmptySet
<1> QED
  BY <1>1, <1>2, BatchAssumption DEF Batches, Chunks

\* Sets of items, and how many they are.
LEMMA Counts ==
    ASSUME NEW S \in SUBSET Items, NEW T \in SUBSET Items
    PROVE  /\ Cardinality(S) \in Nat
           /\ Cardinality(S) = 0 <=> S = {}
           /\ S \cap T = {} => Cardinality(S \cup T) = Cardinality(S) + Cardinality(T)
<1>1. IsFiniteSet(S) /\ IsFiniteSet(T)
  BY BulkAssumption, FS_Subset
<1>2. S \cap T = {} => Cardinality(S \cap T) = 0
  BY FS_EmptySet
<1>3. Cardinality(S) \in Nat /\ Cardinality(T) \in Nat
  BY <1>1, FS_CardinalityType
<1>4. Cardinality(S \cup T) = Cardinality(S) + Cardinality(T) - Cardinality(S \cap T)
  BY <1>1, FS_Union
<1> QED
  BY <1>1, <1>2, <1>3, <1>4, FS_EmptySet

LEMMA OneMoreBatch ==
    ASSUME NEW n \in Nat
    PROVE  /\ n * BatchSize \in Nat
           /\ (n + 1) * BatchSize = n * BatchSize + BatchSize
           /\ (n + 1 - 1) * BatchSize = n * BatchSize
BY BatchAssumption

\* The end of a request moves its batch from what is left to what was sent.
LEMMA BatchIsAccounted ==
    ASSUME NEW o \in Operations, NEW ok \in BOOLEAN,
           NEW acc \in SUBSET Items, NEW ref \in SUBSET Items,
           o.batch \cap o.rest = {},
           o.rest # {} => Cardinality(o.batch) = BatchSize,
           Accounts(o, o.batch \cup o.rest, acc, ref)
    PROVE  Accounts(Counted(o, ok), o.rest,
                    IF ok THEN acc \cup o.batch ELSE acc,
                    IF ok THEN ref ELSE ref \cup o.batch)
<1> DEFINE n == o.successBatches + o.failedBatches
           p == Counted(o, ok)
           sent == acc \cup ref
           acc1 == IF ok THEN acc \cup o.batch ELSE acc
           ref1 == IF ok THEN ref ELSE ref \cup o.batch
<1>1. /\ o.batch \in SUBSET Items /\ Cardinality(o.batch) \in 1 .. BatchSize
      /\ o.rest \in SUBSET Items
      /\ o.successBatches \in Nat /\ o.failedBatches \in Nat /\ n \in Nat
  BY DEF Operations, Chunks
<1>2. o.batch # {}
  BY <1>1, Counts, BatchAssumption
<1>3. /\ p.items = o.items
      /\ p.successBatches + p.failedBatches = n + 1
      /\ p.successBatches = IF ok THEN o.successBatches + 1 ELSE o.successBatches
      /\ p.failedBatches = IF ok THEN o.failedBatches ELSE o.failedBatches + 1
  BY <1>1 DEF Counted, Operations
<1>4. acc1 \cup ref1 = sent \cup o.batch /\ sent \cap o.batch = {}
  BY DEF Accounts
<1>5. Cardinality(acc1 \cup ref1) = n * BatchSize + Cardinality(o.batch)
  <2>1. Cardinality(sent) = n * BatchSize
    BY <1>2 DEF Accounts
  <2>2. sent \in SUBSET Items
    OBVIOUS
  <2> HIDE DEF sent
  <2> QED
    BY <1>1, <1>4, <2>1, <2>2, Counts
<1>6. /\ (p.successBatches + p.failedBatches - 1) * BatchSize = n * BatchSize
      /\ (p.successBatches + p.failedBatches) * BatchSize = n * BatchSize + BatchSize
      /\ n * BatchSize \in Nat
  BY <1>1, <1>3, OneMoreBatch
<1>7. /\ p.items = acc1 \cup ref1 \cup o.rest
      /\ acc1 \cap ref1 = {}
      /\ (acc1 \cup ref1) \cap o.rest = {}
  BY <1>3 DEF Accounts
<1>8. /\ p.successBatches = 0 <=> acc1 = {}
      /\ p.failedBatches = 0 <=> ref1 = {}
  BY <1>1, <1>2, <1>3 DEF Accounts
<1>9. /\ n * BatchSize < Cardinality(acc1 \cup ref1)
      /\ Cardinality(acc1 \cup ref1) <= n * BatchSize + BatchSize
      /\ o.rest # {} => Cardinality(acc1 \cup ref1) = n * BatchSize + BatchSize
  <2> HIDE DEF acc1, ref1
  <2> QED
    BY <1>1, <1>5, <1>6, BatchAssumption
<1> HIDE DEF acc1, ref1, p, n
<1>10. Accounts(p, o.rest, acc1, ref1)
  BY <1>6, <1>7, <1>8, <1>9 DEF Accounts
<1> QED
  BY <1>10 DEF acc1, ref1, p

-----------------------------------------------------------------------------
\* What one caller is told is true.
Truthful(c) ==
    LET report == answers[c]
    IN  report.status = "200" =>
            /\ report.items = accepted[c] \cup refused[c]
            /\ accepted[c] \cap refused[c] = {}
            /\ report.failedBatches = 0 <=> refused[c] = {}
            /\ report.successBatches = 0 <=> accepted[c] = {}
            /\ (report.successBatches + report.failedBatches - 1) * BatchSize
                   < Cardinality(report.items)
            /\ Cardinality(report.items)
                   <= (report.successBatches + report.failedBatches) * BatchSize

LEMMA TruthfulForEach == ReportsAreTrue <=> \A c \in Callers : Truthful(c)
BY DEF ReportsAreTrue, Truthful

LEMMA Unchanged ==
    ASSUME NEW c \in Callers, Truthful(c), answers'[c] = answers[c],
           accepted'[c] = accepted[c], refused'[c] = refused[c]
    PROVE  Truthful(c)'
BY DEF Truthful

LEMMA AnswerTypes ==
    ASSUME NEW status \in {"none", "waiting", "409", "500", "lost"}
    PROVE  Answer(status) \in Answers /\ Answer(status).status = status
BY DEF Answer, Answers

\* An operation between two requests.
Drafts == [caller: Callers, method: Methods, items: SUBSET Items,
           batch: SUBSET Items, rest: SUBSET Items,
           successBatches: Nat, failedBatches: Nat]

\* sendBatches() goes on, or reports, while no other operation is under way.
LEMMA SendsOnKeepsInvariant ==
    ASSUME IInv, NEW o \in Drafts, NEW items \in SUBSET Items,
           SendsOn(o, items, {}),
           \A p \in operations : p.caller = o.caller,
           accepted' \in [Callers -> SUBSET Items],
           refused' \in [Callers -> SUBSET Items],
           \A c \in Callers \ {o.caller} :
               accepted'[c] = accepted[c] /\ refused'[c] = refused[c],
           Accounts(o, items, accepted'[o.caller], refused'[o.caller])
    PROVE  IInv'
<1>0. o.caller \in Callers
  BY DEF Drafts
<1>1. \A c \in Callers \ {o.caller} : answers[c].status # "waiting"
  BY DEF IInv, OneOperation
<1>2. \A c \in Callers \ {o.caller} : Truthful(c)
  BY TruthfulForEach DEF IInv
<1>3. CASE items = {}
  <2>1. running' = FALSE /\ operations' = {}
        /\ answers' = [answers EXCEPT ![o.caller] = Report(o)]
    BY <1>3 DEF SendsOn
  <2>2. Report(o) \in Answers /\ Report(o).status = "200"
    BY DEF Report, Answers, Drafts
  <2>3. BulkTypeOK'
    BY <2>1, <2>2 DEF BulkTypeOK, IInv
  <2>4. OneOperation' /\ Progress'
    BY <1>0, <1>1, <2>1, <2>2 DEF OneOperation, Progress, IInv, BulkTypeOK
  <2>5. Truthful(o.caller)'
    <3>1. answers'[o.caller] = Report(o)
      BY <1>0, <2>1 DEF IInv, BulkTypeOK
    <3> DEFINE acc == accepted'[o.caller]
               ref == refused'[o.caller]
    <3>2. /\ o.items = acc \cup ref /\ acc \cap ref = {}
          /\ o.successBatches = 0 <=> acc = {}
          /\ o.failedBatches = 0 <=> ref = {}
          /\ (o.successBatches + o.failedBatches - 1) * BatchSize < Cardinality(o.items)
          /\ Cardinality(o.items) <= (o.successBatches + o.failedBatches) * BatchSize
      <4>1. acc \cup ref \cup items = acc \cup ref
        BY <1>3
      <4> QED
        BY <4>1 DEF Accounts
    <3>3. /\ Report(o).items = o.items
          /\ Report(o).successBatches = o.successBatches
          /\ Report(o).failedBatches = o.failedBatches
      BY DEF Report
    <3> QED
      BY <3>1, <3>2, <3>3 DEF Truthful
  <2>6. ASSUME NEW c \in Callers \ {o.caller}
        PROVE  Truthful(c)'
    <3>1. answers'[c] = answers[c]
      BY <2>1 DEF IInv, BulkTypeOK
    <3> QED
      BY <1>2, <3>1, Unchanged
  <2>7. ReportsAreTrue'
    BY <2>5, <2>6 DEF ReportsAreTrue, Truthful
  <2> QED
    BY <2>3, <2>4, <2>7 DEF IInv
<1>4. CASE items # {}
  <2>1. /\ running' = TRUE
        /\ answers' = [answers EXCEPT ![o.caller] = Answer("waiting")]
    BY <1>4 DEF SendsOn
  <2>2. PICK b \in Batches(items) :
            operations' = {[o EXCEPT !.batch = b, !.rest = items \ b]}
    BY <1>4 DEF SendsOn
  <2> DEFINE p == [o EXCEPT !.batch = b, !.rest = items \ b]
  <2>3. b \in Chunks /\ b \subseteq items /\ (items \ b # {} => Cardinality(b) = BatchSize)
    BY <1>4, ChunkOf
  <2>4. /\ p.caller = o.caller /\ p.items = o.items /\ p.batch = b /\ p.rest = items \ b
        /\ p.successBatches = o.successBatches /\ p.failedBatches = o.failedBatches
        /\ p \in Operations
    BY <2>3 DEF Operations, Drafts
  <2>5. operations' = {p}
    BY <2>2
  <2> HIDE DEF p
  <2>6. Answer("waiting") \in Answers /\ Answer("waiting").status = "waiting"
    BY AnswerTypes
  <2>7. BulkTypeOK'
    BY <2>1, <2>4, <2>5, <2>6 DEF BulkTypeOK, IInv
  <2>8. /\ answers'[o.caller].status = "waiting"
        /\ \A c \in Callers \ {o.caller} : answers'[c] = answers[c]
    BY <1>0, <2>1, <2>6 DEF IInv, BulkTypeOK
  <2>9. OneOperation'
    BY <1>0, <1>1, <2>1, <2>4, <2>5, <2>8 DEF OneOperation
  <2>10. Progress'
    <3>1. p.batch \cup p.rest = items /\ p.batch \cap p.rest = {}
      BY <2>3, <2>4
    <3>2. Accounts(p, items, accepted'[p.caller], refused'[p.caller])
      BY <2>4 DEF Accounts
    <3>3. \A q \in operations' : q = p
      BY <2>5
    <3>4. Accounts(p, p.batch \cup p.rest, accepted'[p.caller], refused'[p.caller])
      BY <3>1, <3>2
    <3>5. Accounts(p, p.batch \cup p.rest, accepted[p.caller], refused[p.caller])'
      BY <3>4 DEF Accounts
    <3> QED
      BY <2>3, <2>4, <3>1, <3>3, <3>5 DEF Progress
  <2>11. ASSUME NEW c \in Callers
         PROVE  Truthful(c)'
    <3>1. CASE c = o.caller
      BY <2>8, <3>1 DEF Truthful
    <3>2. CASE c # o.caller
      BY <1>2, <2>8, <3>2, Unchanged
    <3> QED
      BY <3>1, <3>2
  <2>12. ReportsAreTrue'
    BY <2>11 DEF ReportsAreTrue, Truthful
  <2> QED
    BY <2>7, <2>9, <2>10, <2>12 DEF IInv
<1> QED
  BY <1>3, <1>4

\* A caller is turned down or told of an error, and the operations are left alone.
LEMMA TurnedDownKeepsInvariant ==
    ASSUME IInv, NEW c \in Callers, Calls(c), NEW status \in {"409", "500"},
           answers' = [answers EXCEPT ![c] = Answer(status)],
           UNCHANGED <<running, operations>>
    PROVE  IInv'
<1>1. Answer(status) \in Answers /\ Answer(status).status = status
  BY AnswerTypes
<1>2. /\ answers'[c].status = status
      /\ \A d \in Callers \ {c} : /\ answers'[d] = answers[d]
                                  /\ accepted'[d] = accepted[d] /\ refused'[d] = refused[d]
  BY <1>1 DEF IInv, BulkTypeOK, Calls
<1>3. BulkTypeOK'
  BY <1>1 DEF IInv, BulkTypeOK, Calls
<1>4. \A o \in operations : o.caller \in Callers \ {c}
  BY DEF IInv, BulkTypeOK, Operations, OneOperation, Calls
<1>5. OneOperation'
  BY <1>2, <1>4 DEF IInv, OneOperation, Calls
<1>6. Progress'
  BY <1>2, <1>4 DEF IInv, Progress, Accounts
<1>7. ASSUME NEW d \in Callers
      PROVE  Truthful(d)'
  <2>1. CASE d = c
    BY <1>2, <2>1 DEF Truthful
  <2>2. CASE d # c
    BY <1>2, <2>2, Unchanged, TruthfulForEach DEF IInv
  <2> QED
    BY <2>1, <2>2
<1>8. ReportsAreTrue'
  BY <1>7 DEF ReportsAreTrue, Truthful
<1> QED
  BY <1>3, <1>5, <1>6, <1>8 DEF IInv

LEMMA StartKeepsInvariant ==
    ASSUME IInv, NEW c \in Callers, NEW method \in Methods, NEW items \in SUBSET Items,
           Start(c, method, items)
    PROVE  IInv'
<1> DEFINE o == NewOperation(c, method, items)
<1>1. operations = {}
  BY DEF IInv, OneOperation, Start
<1>2. SendsOn(o, items, {})
  BY <1>1 DEF Start
<1>3. /\ o.caller = c /\ o.method = method /\ o.items = items
      /\ o.successBatches = 0 /\ o.failedBatches = 0
  BY DEF NewOperation
<1>4. /\ accepted' \in [Callers -> SUBSET Items] /\ refused' \in [Callers -> SUBSET Items]
      /\ accepted'[c] = {} /\ refused'[c] = {}
      /\ \A d \in Callers \ {c} : accepted'[d] = accepted[d] /\ refused'[d] = refused[d]
  BY DEF IInv, BulkTypeOK, Start, Calls
<1>5. o \in Drafts
  BY DEF NewOperation, Drafts
<1>6. Accounts(o, items, {}, {})
  <2>1. Cardinality({}) = 0 /\ {} \cup {} = {}
    BY FS_EmptySet
  <2>2. (0 + 0 - 1) * BatchSize < 0 /\ (0 + 0) * BatchSize = 0
    BY BatchAssumption
  <2> HIDE DEF o
  <2> QED
    BY <1>3, <2>1, <2>2 DEF Accounts
<1>7. Accounts(o, items, accepted'[o.caller], refused'[o.caller])
  BY <1>3, <1>4, <1>6
<1> HIDE DEF o
<1> QED
  BY <1>1, <1>2, <1>3, <1>4, <1>5, <1>7, SendsOnKeepsInvariant

LEMMA BatchEndsKeepsInvariant ==
    ASSUME IInv, NEW o \in operations, NEW ok \in BOOLEAN, BatchEnds(o, ok)
    PROVE  IInv'
<1> DEFINE p == Counted(o, ok)
           c == o.caller
<1>1. o \in Operations /\ operations = {o}
  BY DEF IInv, BulkTypeOK, OneOperation
<1>2. SendsOn(p, o.rest, {})
  BY <1>1 DEF BatchEnds
<1>3. /\ p.caller = c /\ p.method = o.method /\ p.items = o.items
      /\ p.successBatches \in Nat /\ p.failedBatches \in Nat
  BY <1>1 DEF Operations, Counted
<1>4. c \in Callers /\ o.method \in Methods /\ o.items \in SUBSET Items
      /\ o.rest \in SUBSET Items /\ o.batch \in SUBSET Items
  BY <1>1 DEF Operations, Chunks
<1>5. /\ accepted' \in [Callers -> SUBSET Items] /\ refused' \in [Callers -> SUBSET Items]
      /\ accepted'[c] = IF ok THEN accepted[c] \cup o.batch ELSE accepted[c]
      /\ refused'[c] = IF ok THEN refused[c] ELSE refused[c] \cup o.batch
      /\ \A d \in Callers \ {c} : accepted'[d] = accepted[d] /\ refused'[d] = refused[d]
  BY <1>4 DEF IInv, BulkTypeOK, BatchEnds
<1>6. p \in Drafts
  BY <1>1, <1>3, <1>4 DEF Counted, Operations, Drafts
<1>7. Accounts(p, o.rest, accepted'[c], refused'[c])
  <2>1. accepted[c] \in SUBSET Items /\ refused[c] \in SUBSET Items
    BY <1>4 DEF IInv, BulkTypeOK
  <2>2. /\ o.batch \cap o.rest = {}
        /\ o.rest # {} => Cardinality(o.batch) = BatchSize
        /\ Accounts(o, o.batch \cup o.rest, accepted[c], refused[c])
    BY DEF IInv, Progress
  <2>3. Accounts(p, o.rest, IF ok THEN accepted[c] \cup o.batch ELSE accepted[c],
                           IF ok THEN refused[c] ELSE refused[c] \cup o.batch)
    BY <1>1, <2>1, <2>2, BatchIsAccounted
  <2> HIDE DEF p, c
  <2> QED
    BY <1>5, <2>3
<1> HIDE DEF p, c
<1>8. \A q \in operations : q.caller = p.caller
  BY <1>1, <1>3 DEF c
<1>9. Accounts(p, o.rest, accepted'[p.caller], refused'[p.caller])
  BY <1>3, <1>7
<1> QED
  BY <1>2, <1>3, <1>4, <1>5, <1>6, <1>8, <1>9, SendsOnKeepsInvariant

LEMMA RestartedKeepsInvariant ==
    ASSUME IInv, Restarted
    PROVE  IInv'
<1>1. Answer("lost") \in Answers /\ Answer("lost").status = "lost"
  BY AnswerTypes
<1>2. \A c \in Callers : answers'[c] = IF answers[c].status = "waiting" THEN Answer("lost")
                                       ELSE answers[c]
  BY DEF Restarted
<1>3. BulkTypeOK'
  BY <1>1 DEF IInv, BulkTypeOK, Restarted
<1>4. OneOperation' /\ Progress'
  BY <1>1, <1>2 DEF Restarted, OneOperation, Progress
<1>5. ASSUME NEW c \in Callers
      PROVE  Truthful(c)'
  <2>1. CASE answers[c].status = "waiting"
    BY <1>1, <1>2, <2>1 DEF Truthful
  <2>2. CASE answers[c].status # "waiting"
    BY <1>2, <2>2, Unchanged, TruthfulForEach DEF IInv, Restarted
  <2> QED
    BY <2>1, <2>2
<1>6. ReportsAreTrue'
  BY <1>5 DEF ReportsAreTrue, Truthful
<1> QED
  BY <1>3, <1>4, <1>6 DEF IInv

LEMMA InitInvariant ==
    ASSUME BulkInit
    PROVE  IInv
<1>1. Answer("none") \in Answers /\ Answer("none").status = "none"
  BY AnswerTypes
<1> QED
  BY <1>1 DEF BulkInit, IInv, BulkTypeOK, OneOperation, Progress, ReportsAreTrue

LEMMA NextKeepsInvariant ==
    ASSUME IInv, [BulkNext]_bulk
    PROVE  IInv'
<1>1. CASE UNCHANGED bulk
  BY <1>1 DEF bulk, service, IInv, BulkTypeOK, OneOperation, Progress, ReportsAreTrue
<1>2. ASSUME NEW c \in Callers, Conflict(c) \/ HandlerThrows(c)
      PROVE  IInv'
  BY <1>2, TurnedDownKeepsInvariant DEF Conflict, HandlerThrows
<1>3. ASSUME NEW c \in Callers, NEW method \in Methods, NEW items \in SUBSET Items,
             Start(c, method, items)
      PROVE  IInv'
  BY <1>3, StartKeepsInvariant
<1>4. ASSUME NEW o \in operations, NEW ok \in BOOLEAN, BatchEnds(o, ok)
      PROVE  IInv'
  BY <1>4, BatchEndsKeepsInvariant
<1>5. CASE Restarted
  BY <1>5, RestartedKeepsInvariant
<1> QED
  BY <1>1, <1>2, <1>3, <1>4, <1>5 DEF BulkNext

-----------------------------------------------------------------------------
\* Every behaviour keeps the inductive invariant.
THEOREM Invariant == BulkSpec => []IInv
<1>1. BulkInit => IInv
  BY InitInvariant
<1>2. IInv /\ [BulkNext]_bulk => IInv'
  BY NextKeepsInvariant
<1> QED
  BY <1>1, <1>2, PTL DEF BulkSpec

\* The service's state is well formed, and a request never carries more than a batch.
THEOREM TypeCorrect == BulkSpec => []BulkTypeOK
<1>1. IInv => BulkTypeOK
  BY DEF IInv
<1> QED
  BY <1>1, Invariant, PTL

\* The mutex is held while an operation is under way, and then only, by that one.
THEOREM MutexIsExact == BulkSpec => []OneOperation
<1>1. IInv => OneOperation
  BY DEF IInv
<1> QED
  BY <1>1, Invariant, PTL

\* The report of an operation accounts for every item and every batch.
THEOREM ReportsAccount == BulkSpec => []ReportsAreTrue
<1>1. IInv => ReportsAreTrue
  BY DEF IInv
<1> QED
  BY <1>1, Invariant, PTL
=============================================================================
