------------------------- MODULE CdcDebouncerProofs -------------------------
(***************************************************************************)
(* Proofs of the safety properties of CdcDebouncer, for any sets of        *)
(* codigos and payload types and any sizes of buffer, batch and payload.   *)
(***************************************************************************)
EXTENDS CdcDebouncer, FiniteSetTheorems, TLAPS

\* Nothing is newer than the store, and what a running flush still has to send
\* is at least as new as what was settled.
Versions ==
    /\ \A e \in Entries : need[e] <= store[e[1]]
    /\ \A s \in Slots : settled[s] <= store[s[1][1]]
    /\ \A f \in flushes : \A c \in Codigos : f.seen[c] <= store[c]
    /\ \A f \in flushes : \A s \in f.batch \cup f.rest :
          settled[s] <= f.seen[s[1][1]]

\* What the API has, and what may still reach it late, is not newer than what was
\* settled.
Arrivals ==
    \A s \in Slots :
        /\ delivered[s] <= settled[s]
        /\ \A q \in late : s \in q.batch => q.seen[s[1][1]] <= settled[s]

\* A timer handle is kept only beside a buffer that is not empty, and under the
\* operating condition it is never a spent one.
TimerHandle ==
    /\ timer # "none" => buffer # {}
    /\ FlushWithinWindow => timer # "spent"

\* While a clean stop() waits, what it promised is settled or in its flush.
CleanStopHolds ==
    clean /\ phase = "stopping" =>
        \A s \in Slots :
            \/ settled[s] >= promised[s[1]]
            \/ \E f \in flushes : /\ s \in f.batch \cup f.rest
                                  /\ f.seen[s[1][1]] >= promised[s[1]]

IInv ==
    /\ TypeOK
    /\ AtMostOneFlush
    /\ Versions
    /\ Arrivals
    /\ NoChangeForgotten
    /\ TimerHandle
    /\ WakeupPending
    /\ CleanStopHolds
    /\ CleanStopDrains

-----------------------------------------------------------------------------
\* A slot names a codigo, a payload type and an element.
LEMMA SlotParts ==
    ASSUME NEW s \in Slots
    PROVE  s[1] \in Entries /\ s[1][1] \in Codigos /\ s[1][2] \in PayloadTypes
BY DEF Slots, Entries

LEMMA EntryParts ==
    ASSUME NEW e \in Entries
    PROVE  e[1] \in Codigos /\ e[2] \in PayloadTypes
BY DEF Entries

\* A suspended activation splits the items it was given into batch and rest.
LEMMA SuspensionSplits ==
    ASSUME NEW items \in SUBSET Slots, NEW seen \in [Codigos -> Nat],
           NEW types \in SUBSET PayloadTypes,
           NEW f \in Suspensions(items, seen, types)
    PROVE  /\ f \in Flushes
           /\ f.seen = seen
           /\ f.batch \cup f.rest = items
<1>1. PICK t \in types : \E b \in Batches(OfType(items, t)) :
                f = [type |-> t, batch |-> b, rest |-> items \ b, seen |-> seen]
  BY DEF Suspensions
<1>2. PICK b \in Batches(OfType(items, t)) :
                f = [type |-> t, batch |-> b, rest |-> items \ b, seen |-> seen]
  BY <1>1
<1>3. b \subseteq items
  BY DEF Batches, OfType
<1> QED
  BY <1>2, <1>3 DEF Flushes

\* What a flush() that starts does, as far as the invariant needs to know.
Started(buf, st) ==
    /\ ~flushing /\ flushes = {}
    /\ buf # {}
    /\ timer' = "none"
    /\ buffer' = {}
    /\ flushing' \in BOOLEAN
    /\ flushes' \in SUBSET Flushes
    /\ settled' \in [Slots -> Nat]
    /\ AtMostOneFlush'
    /\ \A s \in Slots : settled'[s] \in {settled[s], st[s[1][1]]}
    /\ \A f \in flushes' : f.seen = st
    /\ \A s \in Slots : s[1] \in buf =>
          \/ settled'[s] = st[s[1][1]]
          \/ \E f \in flushes' : s \in f.batch \cup f.rest
    /\ flushes' = {} => \A s \in Slots : s[1] \in buf =>
                            settled'[s] = st[s[1][1]]

LEMMA FlushStartedEffect ==
    ASSUME NEW buf \in SUBSET Entries, NEW st \in [Codigos -> Nat],
           TypeOK, AtMostOneFlush, FlushStarted(buf, st)
    PROVE  Started(buf, st)
<1>1. /\ ~flushing /\ flushes = {} /\ buf # {}
      /\ timer' = "none" /\ buffer' = {}
  BY DEF FlushStarted, TakeAndBuild, AtMostOneFlush
<1>2. PICK incomplete \in SUBSET buf :
          LET items == {s \in Slots : s[1] \in buf \ incomplete}
          IN  /\ settled' = [s \in Slots |-> IF s[1] \in incomplete
                                             THEN st[s[1][1]] ELSE settled[s]]
              /\ \/ /\ items = {}
                    /\ UNCHANGED <<flushing, flushes>>
                 \/ \E f \in Suspensions(items, st, PayloadTypes) :
                       /\ flushes' = flushes \cup {f}
                       /\ flushing' = TRUE
  BY DEF FlushStarted, TakeAndBuild
<1> DEFINE items == {s \in Slots : s[1] \in buf \ incomplete}
<1>3. /\ settled' \in [Slots -> Nat]
      /\ \A s \in Slots : settled'[s] \in {settled[s], st[s[1][1]]}
      /\ \A s \in Slots : s[1] \in incomplete => settled'[s] = st[s[1][1]]
  BY <1>2, SlotParts DEF TypeOK
<1>4. CASE items = {} /\ UNCHANGED <<flushing, flushes>>
  <2>1. \A s \in Slots : s[1] \in buf => s[1] \in incomplete
    BY <1>4
  <2>2. flushing' = FALSE /\ flushes' = {} /\ AtMostOneFlush'
    BY <1>1, <1>4 DEF AtMostOneFlush, TypeOK
  <2> QED
    BY <1>1, <1>3, <2>1, <2>2 DEF Started
<1>5. CASE \E f \in Suspensions(items, st, PayloadTypes) :
               flushes' = flushes \cup {f} /\ flushing' = TRUE
  <2>1. PICK f \in Suspensions(items, st, PayloadTypes) :
               flushes' = {f} /\ flushing' = TRUE
    BY <1>1, <1>5
  <2>2. items \in SUBSET Slots
    OBVIOUS
  <2>3. f \in Flushes /\ f.seen = st /\ f.batch \cup f.rest = items
    BY <2>1, <2>2, SuspensionSplits
  <2>4. AtMostOneFlush'
    BY <2>1 DEF AtMostOneFlush
  <2>5. \A s \in Slots : s[1] \in buf =>
           settled'[s] = st[s[1][1]] \/ \E g \in flushes' : s \in g.batch \cup g.rest
    BY <1>3, <2>1, <2>3
  <2> QED
    BY <1>1, <1>3, <2>1, <2>3, <2>4, <2>5 DEF Started
<1> QED
  BY <1>2, <1>4, <1>5

\* What enqueue(), the timer callback and stop() have in common: the entries in
\* `buf` stay in the buffer, or a flush that reads the new store takes them.
KeptOrStarted(buf) ==
    \/ buffer' = buf /\ UNCHANGED <<flushing, flushes, settled>>
    \/ Started(buf, store')

Noted(buf) ==
    /\ buf \in SUBSET Entries
    /\ buffer \subseteq buf
    /\ store' \in [Codigos -> Nat]
    /\ \A c \in Codigos : store[c] <= store'[c]
    /\ need' \in [Entries -> Nat]
    /\ \A e \in Entries : \/ need'[e] = need[e]
                          \/ e \in buf /\ need'[e] <= store'[e[1]]
    /\ UNCHANGED api

LEMMA FlushKeepsVersions ==
    ASSUME NEW buf, TypeOK, AtMostOneFlush, Versions, Noted(buf),
           KeptOrStarted(buf)
    PROVE  Versions' /\ AtMostOneFlush'
<1> USE SlotParts, EntryParts
<1>1. \A e \in Entries : need'[e] <= store'[e[1]]
  BY DEF Noted, Versions, TypeOK
<1>2. \A s \in Slots : settled[s] <= store'[s[1][1]]
  BY DEF Noted, Versions, TypeOK
<1>3. CASE buffer' = buf /\ UNCHANGED <<flushing, flushes, settled>>
  <2>1. \A f \in flushes : \A c \in Codigos : f.seen[c] <= store'[c]
    <3> SUFFICES ASSUME NEW f \in flushes, NEW c \in Codigos
                 PROVE  f.seen[c] <= store'[c]
      OBVIOUS
    <3>1. f.seen \in [Codigos -> Nat]
      BY DEF TypeOK, Flushes
    <3> QED
      BY <3>1 DEF Noted, Versions, TypeOK
  <2> QED
    BY <1>1, <1>2, <1>3, <2>1 DEF Noted, Versions, AtMostOneFlush
<1>4. CASE Started(buf, store')
  <2>1. \A s \in Slots : settled'[s] <= store'[s[1][1]]
    BY <1>2, <1>4 DEF Started, Noted
  <2>2. \A f \in flushes' : f.seen = store' /\ f.batch \cup f.rest \subseteq Slots
    BY <1>4 DEF Started, Flushes
  <2>3. \A c \in Codigos : store'[c] <= store'[c]
    BY DEF Noted
  <2>4. \A f \in flushes' : \A s \in f.batch \cup f.rest :
           settled'[s] <= f.seen[s[1][1]]
    BY <1>2, <2>1, <2>2 DEF Noted
  <2>5. \A f \in flushes' : \A c \in Codigos : f.seen[c] <= store'[c]
    BY <2>2, <2>3
  <2> QED
    BY <1>1, <1>4, <2>1, <2>4, <2>5 DEF Versions, Started
<1> QED
  BY <1>3, <1>4 DEF KeptOrStarted

LEMMA FlushForgetsNothing ==
    ASSUME NEW buf, TypeOK, AtMostOneFlush, Versions, NoChangeForgotten,
           Noted(buf), KeptOrStarted(buf)
    PROVE  /\ NoChangeForgotten'
           /\ \A s \in Slots : settled[s] <= settled'[s]
<1> USE SlotParts, EntryParts
<1>1. CASE buffer' = buf /\ UNCHANGED <<flushing, flushes, settled>>
  <2>1. NoChangeForgotten'
    <3> SUFFICES ASSUME NEW s \in Slots, s[1] \notin buf
                 PROVE  \/ settled[s] >= need[s[1]]
                        \/ \E f \in flushes : /\ s \in f.batch \cup f.rest
                                              /\ f.seen[s[1][1]] >= need[s[1]]
      BY <1>1 DEF Noted, NoChangeForgotten
    <3> QED
      BY DEF Noted, NoChangeForgotten
  <2> QED
    BY <1>1, <2>1 DEF TypeOK
<1>2. CASE Started(buf, store')
  <2>1. \A s \in Slots : settled[s] <= settled'[s]
    <3> SUFFICES ASSUME NEW s \in Slots
                 PROVE  settled[s] <= settled'[s]
      OBVIOUS
    <3>1. /\ settled[s] \in Nat /\ settled[s] <= store[s[1][1]]
          /\ store[s[1][1]] <= store'[s[1][1]]
          /\ store[s[1][1]] \in Nat /\ store'[s[1][1]] \in Nat
      BY DEF TypeOK, Versions, Noted
    <3>2. settled'[s] \in {settled[s], store'[s[1][1]]}
      BY <1>2 DEF Started
    <3> QED
      BY <3>1, <3>2
  <2>2. ASSUME NEW s \in Slots, s[1] \in buf
        PROVE  \/ settled'[s] >= need'[s[1]]
               \/ \E f \in flushes' : /\ s \in f.batch \cup f.rest
                                      /\ f.seen[s[1][1]] >= need'[s[1]]
    <3>1. need'[s[1]] <= store'[s[1][1]] /\ need'[s[1]] \in Nat
      BY DEF Noted, Versions, TypeOK
    <3>2. \/ settled'[s] = store'[s[1][1]]
          \/ \E f \in flushes' : s \in f.batch \cup f.rest /\ f.seen = store'
      BY <1>2, <2>2 DEF Started
    <3> QED
      BY <3>1, <3>2 DEF Noted
  <2>3. ASSUME NEW s \in Slots, s[1] \notin buf
        PROVE  settled'[s] >= need'[s[1]]
    <3>1. need'[s[1]] = need[s[1]] /\ settled[s] >= need[s[1]]
      BY <1>2, <2>3 DEF Started, Noted, NoChangeForgotten
    <3> QED
      BY <1>2, <2>1, <3>1 DEF Started, Noted, TypeOK
  <2> QED
    BY <2>1, <2>2, <2>3 DEF NoChangeForgotten
<1> QED
  BY <1>1, <1>2 DEF KeptOrStarted

\* A step that only settles forward leaves what the API has behind what was settled.
LEMMA ArrivalsKept ==
    ASSUME TypeOK, Arrivals, UNCHANGED api, settled' \in [Slots -> Nat],
           \A s \in Slots : settled[s] <= settled'[s]
    PROVE  Arrivals'
<1> SUFFICES ASSUME NEW s \in Slots
             PROVE  /\ delivered[s] <= settled'[s]
                    /\ \A q \in late : s \in q.batch => q.seen[s[1][1]] <= settled'[s]
  BY DEF Arrivals, api
<1>1. /\ delivered[s] \in Nat /\ settled[s] \in Nat /\ settled'[s] \in Nat
      /\ \A q \in late : q.seen[s[1][1]] \in Nat
  BY SlotParts DEF TypeOK, Requests
<1>2. settled[s] <= settled'[s] /\ delivered[s] <= settled[s]
  BY DEF Arrivals
<1>3. \A q \in late : s \in q.batch => q.seen[s[1][1]] <= settled[s]
  BY DEF Arrivals
<1> QED
  BY <1>1, <1>2, <1>3

-----------------------------------------------------------------------------
\* The buffer of a single codigo never counts as full when it may hold two.
LEMMA FullBufferHeldAnother ==
    ASSUME NEW c \in Codigos, NEW types \in SUBSET PayloadTypes, types # {},
           MaxBufferSize > 1,
           BufferSize(buffer \cup ({c} \X types)) >= MaxBufferSize
    PROVE  buffer # {}
<1> SUFFICES ASSUME buffer = {}
             PROVE  FALSE
  OBVIOUS
<1>1. {e[1] : e \in buffer \cup ({c} \X types)} = {c}
  <2>1. PICK t \in types : TRUE
    OBVIOUS
  <2>2. <<c, t>> \in {c} \X types /\ <<c, t>>[1] = c
    OBVIOUS
  <2>3. \A e \in {c} \X types : e[1] = c
    OBVIOUS
  <2> QED
    BY <2>2, <2>3
<1>2. BufferSize(buffer \cup ({c} \X types)) = 1
  BY <1>1, FS_Singleton DEF BufferSize
<1> QED
  BY <1>2, DebouncerAssumption

LEMMA FlushSplit ==
    ASSUME NEW buf \in SUBSET Entries, NEW tmr, NEW st \in [Codigos -> Nat],
           TypeOK, AtMostOneFlush, Flush(buf, tmr, st)
    PROVE  \/ /\ flushing \/ buf = {}
              /\ buffer' = buf /\ timer' = tmr
              /\ UNCHANGED <<flushing, flushes, settled>>
           \/ Started(buf, st)
BY FlushStartedEffect DEF Flush, FlushSkipped

\* What the properties of a clean stop() need of any step before the stop.
LEMMA CleanStopKept ==
    ASSUME TypeOK, CleanStopHolds, CleanStopDrains,
           UNCHANGED <<phase, promised, clean>>,
           settled' \in [Slots -> Nat],
           \A s \in Slots : settled[s] <= settled'[s],
           \A f \in flushes : f \in flushes'
    PROVE  CleanStopHolds' /\ CleanStopDrains'
<1>1. \A s \in Slots : settled[s] >= promised[s[1]] => settled'[s] >= promised[s[1]]
  BY SlotParts DEF TypeOK
<1>2. CleanStopHolds'
  BY <1>1 DEF CleanStopHolds
<1>3. CleanStopDrains'
  BY <1>1 DEF CleanStopDrains, Drained
<1> QED
  BY <1>2, <1>3

LEMMA EnqueueKeepsInvariant ==
    ASSUME IInv, NEW c \in Codigos, NEW types \in (SUBSET PayloadTypes) \ {{}},
           Enqueue(c, types)
    PROVE  IInv'
<1> DEFINE buf == buffer \cup ({c} \X types)
<1> USE DebouncerAssumption DEF IInv
<1>1. /\ store' = [store EXCEPT ![c] = @ + 1]
      /\ need' = [e \in Entries |-> IF e \in {c} \X types
                                    THEN store[c] + 1 ELSE need[e]]
      /\ UNCHANGED <<phase, api, promised, clean>>
  BY DEF Enqueue, Changed
<1>2. Noted(buf)
  <2>1. buf \in SUBSET Entries /\ {c} \X types \subseteq Entries
    BY DEF TypeOK, Entries
  <2>2. store' \in [Codigos -> Nat] /\ \A d \in Codigos : store[d] <= store'[d]
    BY <1>1 DEF TypeOK
  <2>3. need' \in [Entries -> Nat]
    BY <1>1 DEF TypeOK
  <2>4. \A e \in Entries : \/ need'[e] = need[e]
                           \/ e \in buf /\ need'[e] <= store'[e[1]]
    <3>1. \A e \in {c} \X types : e[1] = c
      OBVIOUS
    <3>2. store'[c] = store[c] + 1 /\ store[c] + 1 <= store[c] + 1
      BY <1>1 DEF TypeOK
    <3> QED
      BY <1>1, <3>1, <3>2
  <2> QED
    BY <1>1, <2>1, <2>2, <2>3, <2>4 DEF Noted
<1>3. buf # {}
  <2>1. PICK t \in types : <<c, t>> \in {c} \X types
    OBVIOUS
  <2> QED
    BY <2>1
<1>4. \/ /\ BufferSize(buf) >= MaxBufferSize
         /\ \/ /\ flushing
               /\ buffer' = buf /\ timer' = timer
               /\ UNCHANGED <<flushing, flushes, settled>>
            \/ Started(buf, store')
      \/ /\ buffer' = buf
         /\ timer' = IF timer = "none" THEN "armed" ELSE timer
         /\ UNCHANGED <<flushing, flushes, settled>>
  <2>1. buf \in SUBSET Entries /\ store' \in [Codigos -> Nat]
    BY <1>2 DEF Noted
  <2> QED
    BY <1>3, <2>1, FlushSplit DEF Enqueue, Buffered
<1>5. KeptOrStarted(buf)
  BY <1>4 DEF KeptOrStarted
<1>6. Versions' /\ AtMostOneFlush'
  BY <1>2, <1>5, FlushKeepsVersions
<1>7. NoChangeForgotten' /\ \A s \in Slots : settled[s] <= settled'[s]
  BY <1>2, <1>5, FlushForgetsNothing
<1>8. TypeOK' /\ Arrivals'
  <2>1. TypeOK'
    BY <1>1, <1>2, <1>4 DEF TypeOK, Noted, Started, api
  <2> QED
    BY <1>1, <1>7, <2>1, ArrivalsKept DEF TypeOK
<1>9. CleanStopHolds' /\ CleanStopDrains'
  <2>1. \A f \in flushes : f \in flushes'
    BY <1>5 DEF KeptOrStarted, Started
  <2> QED
    BY <1>1, <1>7, <1>8, <2>1, CleanStopKept DEF TypeOK
<1>10. TimerHandle' /\ WakeupPending'
  <2>1. buf # {}
    BY <1>3
  <2>2. MaxBufferSize > 1 /\ BufferSize(buf) >= MaxBufferSize => buffer # {}
    <3>1. types \in SUBSET PayloadTypes /\ types # {}
      OBVIOUS
    <3> QED
      BY <3>1, FullBufferHeldAnother
  <2>3. CASE Started(buf, store')
    BY <2>3 DEF Started, TimerHandle, WakeupPending
  <2>4. CASE /\ BufferSize(buf) >= MaxBufferSize
             /\ buffer' = buf /\ timer' = timer
    BY <1>1, <2>1, <2>2, <2>4 DEF TimerHandle, WakeupPending
  <2>5. CASE /\ buffer' = buf
             /\ timer' = IF timer = "none" THEN "armed" ELSE timer
    BY <1>1, <2>1, <2>5 DEF TimerHandle, WakeupPending, TypeOK
  <2> QED
    BY <1>4, <2>3, <2>4, <2>5
<1> QED
  BY <1>6, <1>7, <1>8, <1>9, <1>10

LEMMA TimerKeepsInvariant ==
    ASSUME IInv, TimerFires
    PROVE  IInv'
<1> USE DEF IInv
<1>1. /\ timer = "armed" /\ buffer # {}
      /\ FlushWithinWindow => ~flushing
      /\ UNCHANGED <<store, phase, api, need, promised, clean>>
  BY DEF TimerFires, TimerHandle
<1>2. Noted(buffer)
  BY <1>1 DEF Noted, TypeOK
<1>3. \/ /\ flushing
         /\ buffer' = buffer /\ timer' = "spent"
         /\ UNCHANGED <<flushing, flushes, settled>>
      \/ Started(buffer, store')
  BY <1>1, FlushSplit DEF TimerFires, TypeOK
<1>4. KeptOrStarted(buffer)
  BY <1>3 DEF KeptOrStarted
<1>5. Versions' /\ AtMostOneFlush'
  BY <1>2, <1>4, FlushKeepsVersions
<1>6. NoChangeForgotten' /\ \A s \in Slots : settled[s] <= settled'[s]
  BY <1>2, <1>4, FlushForgetsNothing
<1>7. TypeOK' /\ Arrivals'
  <2>1. TypeOK'
    BY <1>1, <1>3 DEF TypeOK, Started, api
  <2> QED
    BY <1>1, <1>6, <2>1, ArrivalsKept DEF TypeOK
<1>8. CleanStopHolds' /\ CleanStopDrains'
  <2>1. \A f \in flushes : f \in flushes'
    BY <1>3 DEF Started
  <2> QED
    BY <1>1, <1>6, <1>7, <2>1, CleanStopKept DEF TypeOK
<1>9. TimerHandle' /\ WakeupPending'
  BY <1>1, <1>3, DebouncerAssumption DEF TimerHandle, WakeupPending, Started
<1> QED
  BY <1>5, <1>6, <1>7, <1>8, <1>9

\* When a dispatch ends, its batch is settled and the rest stays with the flush.
LEMMA DispatchEffect ==
    ASSUME IInv, NEW f \in flushes, NEW outcome, DispatchEnds(f, outcome)
    PROVE  /\ flushes = {f} /\ flushing
           /\ f \in Flushes
           /\ settled' = [s \in Slots |-> IF s \in f.batch THEN f.seen[s[1][1]]
                                          ELSE settled[s]]
           /\ delivered' = delivered \/ delivered' = Applied(f)
           /\ late' = late \/ late' = late \cup {Request(f)}
           /\ UNCHANGED <<store, buffer, timer, need, promised, clean>>
           /\ \/ /\ f.rest = {} /\ flushes' = {} /\ flushing' = FALSE
                 /\ phase' = IF phase = "stopping" THEN "stopped" ELSE phase
              \/ \E g \in Flushes : /\ g.batch \cup g.rest = f.rest
                                    /\ g.seen = f.seen
                                    /\ flushes' = {g} /\ flushing' = TRUE
                                    /\ phase' = phase
<1>1. flushes = {f} /\ flushing
  BY DEF IInv, AtMostOneFlush
<1>2. f \in Flushes /\ f.rest \in SUBSET Slots /\ f.seen \in [Codigos -> Nat]
  BY DEF IInv, TypeOK, Flushes
<1>3. ASSUME NEW types \in SUBSET PayloadTypes,
             NEW g \in Suspensions(f.rest, f.seen, types)
      PROVE  g \in Flushes /\ g.batch \cup g.rest = f.rest /\ g.seen = f.seen
  BY <1>2, SuspensionSplits
<1>4. f.type \in PayloadTypes
  BY <1>2 DEF Flushes
<1>5. CASE NextBatch(f)
  <2>1. PICK g \in Suspensions(f.rest, f.seen,
                               IF OfType(f.rest, f.type) # {} THEN {f.type}
                               ELSE PayloadTypes) :
             flushes' = (flushes \ {f}) \cup {g} /\ UNCHANGED <<flushing, phase>>
    BY <1>5 DEF NextBatch
  <2>2. g \in Flushes /\ g.batch \cup g.rest = f.rest /\ g.seen = f.seen
    BY <1>3, <1>4, <2>1
  <2> QED
    BY <1>1, <1>2, <2>1, <2>2 DEF DispatchEnds, BatchEnds, api
<1>6. CASE FlushEnds(f)
  BY <1>1, <1>2, <1>6 DEF FlushEnds, DispatchEnds, BatchEnds, api
<1> QED
  BY <1>5, <1>6 DEF DispatchEnds

LEMMA DispatchKeepsInvariant ==
    ASSUME IInv, NEW f \in flushes, NEW outcome, DispatchEnds(f, outcome)
    PROVE  IInv' /\ \A s \in Slots : delivered[s] <= delivered'[s]
<1> USE SlotParts
<1>1. /\ flushes = {f} /\ flushing
      /\ f \in Flushes
      /\ settled' = [s \in Slots |-> IF s \in f.batch THEN f.seen[s[1][1]]
                                     ELSE settled[s]]
      /\ delivered' = delivered \/ delivered' = Applied(f)
      /\ late' = late \/ late' = late \cup {Request(f)}
      /\ UNCHANGED <<store, buffer, timer, need, promised, clean>>
  BY DispatchEffect
<1>2. \/ /\ f.rest = {} /\ flushes' = {} /\ flushing' = FALSE
         /\ phase' = IF phase = "stopping" THEN "stopped" ELSE phase
      \/ \E g \in Flushes : /\ g.batch \cup g.rest = f.rest
                            /\ g.seen = f.seen
                            /\ flushes' = {g} /\ flushing' = TRUE
                            /\ phase' = phase
  BY DispatchEffect
<1>3. f.seen \in [Codigos -> Nat] /\ f.batch \in SUBSET Slots /\ f.rest \in SUBSET Slots
  BY <1>1 DEF Flushes
<1>4. /\ settled' \in [Slots -> Nat] /\ delivered' \in [Slots -> Nat]
      /\ late' \in SUBSET Requests
  BY <1>1, <1>3 DEF IInv, TypeOK, Applied, Request, Requests
<1>5. TypeOK'
  BY <1>1, <1>2, <1>4 DEF IInv, TypeOK
<1>6. AtMostOneFlush'
  BY <1>2 DEF AtMostOneFlush
<1>7. \A s \in Slots : settled[s] <= settled'[s]
  <2>1. \A s \in f.batch : settled[s] <= f.seen[s[1][1]]
    BY DEF IInv, Versions
  <2> QED
    BY <1>1, <2>1 DEF IInv, TypeOK
<1>8. Versions'
  <2>1. \A c \in Codigos : f.seen[c] <= store[c]
    BY DEF IInv, Versions
  <2>2. \A s \in Slots : settled'[s] <= store[s[1][1]]
    BY <1>1, <1>3, <2>1 DEF IInv, Versions
  <2>3. \A s \in f.rest : settled'[s] <= f.seen[s[1][1]]
    <3> SUFFICES ASSUME NEW s \in f.rest
                 PROVE  settled'[s] <= f.seen[s[1][1]]
      OBVIOUS
    <3>1. f.seen[s[1][1]] \in Nat
      BY <1>3
    <3>2. settled[s] <= f.seen[s[1][1]]
      BY DEF IInv, Versions
    <3> QED
      BY <1>1, <1>3, <3>1, <3>2
  <2>4. \A g \in flushes' : g.batch \cup g.rest = f.rest /\ g.seen = f.seen
    BY <1>2
  <2> QED
    BY <1>1, <2>1, <2>2, <2>3, <2>4 DEF IInv, Versions
<1>9. NoChangeForgotten'
  <2> SUFFICES ASSUME NEW s \in Slots, s[1] \notin buffer
               PROVE  \/ settled'[s] >= need[s[1]]
                      \/ \E g \in flushes' : /\ s \in g.batch \cup g.rest
                                             /\ g.seen[s[1][1]] >= need[s[1]]
    BY <1>1 DEF NoChangeForgotten
  <2>1. CASE settled[s] >= need[s[1]]
    BY <1>4, <1>7, <2>1 DEF IInv, TypeOK
  <2>2. CASE s \in f.batch \cup f.rest /\ f.seen[s[1][1]] >= need[s[1]]
    BY <1>1, <1>2, <2>2
  <2> QED
    BY <1>1, <2>1, <2>2 DEF IInv, NoChangeForgotten
<1>10. TimerHandle' /\ WakeupPending'
  BY <1>1, <1>2 DEF IInv, TimerHandle, WakeupPending
<1>11. CleanStopHolds'
  <2> SUFFICES ASSUME clean, phase' = "stopping", NEW s \in Slots
               PROVE  \/ settled'[s] >= promised[s[1]]
                      \/ \E g \in flushes' : /\ s \in g.batch \cup g.rest
                                             /\ g.seen[s[1][1]] >= promised[s[1]]
    BY <1>1 DEF CleanStopHolds
  <2>1. phase = "stopping"
    BY <1>2
  <2>2. CASE settled[s] >= promised[s[1]]
    BY <1>4, <1>7, <2>2 DEF IInv, TypeOK
  <2>3. CASE s \in f.batch \cup f.rest /\ f.seen[s[1][1]] >= promised[s[1]]
    BY <1>1, <1>2, <2>3
  <2> QED
    BY <1>1, <2>1, <2>2, <2>3 DEF IInv, CleanStopHolds
<1>12. CleanStopDrains'
  <2> SUFFICES ASSUME clean, phase' \in {"stopped", "exited"}, NEW s \in Slots
               PROVE  settled'[s] >= promised[s[1]]
    BY <1>1 DEF CleanStopDrains, Drained
  <2>1. CASE settled[s] >= promised[s[1]]
    BY <1>4, <1>7, <2>1 DEF IInv, TypeOK
  <2>2. CASE phase = "stopping"
    <3>1. f.rest = {}
      BY <1>2, <2>2
    <3>2. CASE s \in f.batch \cup f.rest /\ f.seen[s[1][1]] >= promised[s[1]]
      BY <1>1, <3>1, <3>2
    <3> QED
      BY <1>1, <2>1, <2>2, <3>2 DEF IInv, CleanStopHolds
  <2>3. CASE phase \in {"stopped", "exited"}
    BY <2>1, <2>3 DEF IInv, CleanStopDrains, Drained
  <2> QED
    BY <1>2, <2>2, <2>3
<1>13. Arrivals' /\ \A s \in Slots : delivered[s] <= delivered'[s]
  <2> SUFFICES ASSUME NEW s \in Slots
               PROVE  /\ delivered'[s] <= settled'[s]
                      /\ delivered[s] <= delivered'[s]
                      /\ \A q \in late' : s \in q.batch => q.seen[s[1][1]] <= settled'[s]
    BY DEF Arrivals
  <2>1. /\ delivered[s] \in Nat /\ settled[s] \in Nat /\ settled'[s] \in Nat
        /\ f.seen[s[1][1]] \in Nat
        /\ \A q \in late : q.seen[s[1][1]] \in Nat
    BY <1>3, <1>4 DEF IInv, TypeOK, Requests
  <2>2. delivered[s] <= settled[s] /\ settled[s] <= settled'[s]
    BY <1>7 DEF IInv, Arrivals
  <2>3. s \in f.batch => settled'[s] = f.seen[s[1][1]]
    BY <1>1
  <2>4. \/ delivered'[s] = delivered[s]
        \/ s \in f.batch /\ delivered'[s] = settled'[s]
    BY <1>1, <2>3 DEF Applied
  <2>5. \A q \in late' : s \in q.batch => q.seen[s[1][1]] <= settled'[s]
    <3>1. \A q \in late : s \in q.batch => q.seen[s[1][1]] <= settled[s]
      BY DEF IInv, Arrivals
    <3> QED
      BY <1>1, <2>1, <2>2, <2>3, <3>1 DEF Request
  <2> QED
    BY <2>1, <2>2, <2>4, <2>5
<1> QED
  BY <1>5, <1>6, <1>7, <1>8, <1>9, <1>10, <1>11, <1>12, <1>13 DEF IInv

\* A late batch reaches the API and touches nothing here.
LEMMA LateKeepsInvariant ==
    ASSUME IInv, NEW q \in late, LateArrives(q)
    PROVE  IInv'
<1>1. /\ UNCHANGED <<store, buffer, timer, flushing, flushes, phase>>
      /\ UNCHANGED <<need, settled, promised, clean>>
      /\ delivered' = Applied(q) /\ late' = late \ {q}
  BY DEF LateArrives, state, history
<1>2. q \in Requests /\ q.seen \in [Codigos -> Nat]
  BY DEF IInv, TypeOK, Requests
<1>3. TypeOK'
  <2>1. delivered' \in [Slots -> Nat]
    BY <1>1, <1>2, SlotParts DEF IInv, TypeOK, Applied
  <2> QED
    BY <1>1, <2>1 DEF IInv, TypeOK
<1>4. Arrivals'
  BY <1>1 DEF IInv, Arrivals, Applied
<1>5. AtMostOneFlush' /\ Versions' /\ NoChangeForgotten'
  BY <1>1 DEF IInv, AtMostOneFlush, Versions, NoChangeForgotten
<1>6. TimerHandle' /\ WakeupPending'
  BY <1>1 DEF IInv, TimerHandle, WakeupPending
<1>7. CleanStopHolds' /\ CleanStopDrains'
  BY <1>1 DEF IInv, CleanStopHolds, CleanStopDrains, Drained
<1> QED
  BY <1>3, <1>4, <1>5, <1>6, <1>7 DEF IInv

LEMMA StopKeepsInvariant ==
    ASSUME IInv, Stop
    PROVE  IInv'
<1> USE DEF IInv
<1>1. /\ phase \in {"running", "stopping", "stopped"}
      /\ phase' = IF flushing' /\ ~flushing /\ phase = "running"
                  THEN "stopping" ELSE "stopped"
      /\ promised' = IF phase = "running" THEN need ELSE promised
      /\ clean' = IF phase = "running" THEN ~flushing
                  ELSE clean /\ phase = "stopped"
      /\ UNCHANGED <<store, need, api>>
  BY DEF Stop, Signalled, Alive
<1>2. Noted(buffer)
  BY <1>1 DEF Noted, TypeOK
<1>3. \/ /\ flushing \/ buffer = {}
         /\ buffer' = buffer /\ timer' = "none"
         /\ UNCHANGED <<flushing, flushes, settled>>
      \/ Started(buffer, store')
  BY <1>1, FlushSplit DEF Stop, TypeOK
<1>4. KeptOrStarted(buffer)
  BY <1>3 DEF KeptOrStarted
<1>5. Versions' /\ AtMostOneFlush'
  BY <1>2, <1>4, FlushKeepsVersions
<1>6. NoChangeForgotten' /\ \A s \in Slots : settled[s] <= settled'[s]
  BY <1>2, <1>4, FlushForgetsNothing
<1>7. TypeOK' /\ Arrivals'
  <2>1. clean' \in BOOLEAN
    BY <1>1 DEF TypeOK
  <2>2. TypeOK'
    BY <1>1, <1>3, <2>1 DEF TypeOK, Started, api
  <2> QED
    BY <1>1, <1>6, <2>2, ArrivalsKept DEF TypeOK
<1>8. TimerHandle' /\ WakeupPending'
  BY <1>1, <1>3 DEF TimerHandle, WakeupPending, Started
<1>9. ASSUME phase = "running"
      PROVE  CleanStopHolds' /\ CleanStopDrains'
  <2> SUFFICES ASSUME clean'
               PROVE  CleanStopHolds' /\ CleanStopDrains'
    BY DEF CleanStopHolds, CleanStopDrains
  <2>1. ~flushing /\ flushes = {} /\ promised' = need
    BY <1>1, <1>9 DEF AtMostOneFlush
  <2>2. \A s \in Slots : s[1] \notin buffer => settled'[s] >= need[s[1]]
    <3>1. \A s \in Slots : s[1] \notin buffer => settled[s] >= need[s[1]]
      BY <2>1 DEF NoChangeForgotten
    <3> QED
      BY <1>6, <1>7, <3>1, SlotParts DEF TypeOK
  <2>3. CASE buffer = {} /\ UNCHANGED <<flushing, flushes, settled>>
    BY <1>1, <2>1, <2>2, <2>3 DEF CleanStopHolds, CleanStopDrains, Drained
  <2>4. CASE Started(buffer, store')
    <3>1. \A s \in Slots : need[s[1]] <= store'[s[1][1]] /\ need[s[1]] <= need[s[1]]
      BY <1>1, SlotParts DEF Versions, TypeOK
    <3>2. CleanStopHolds'
      <4> SUFFICES ASSUME NEW s \in Slots
                   PROVE  \/ settled'[s] >= need[s[1]]
                          \/ \E f \in flushes' : /\ s \in f.batch \cup f.rest
                                                 /\ f.seen[s[1][1]] >= need[s[1]]
        BY <2>1 DEF CleanStopHolds
      <4> QED
        BY <2>2, <2>4, <3>1 DEF Started
    <3>3. CleanStopDrains'
      <4> SUFFICES ASSUME phase' = "stopped", NEW s \in Slots
                   PROVE  settled'[s] >= need[s[1]]
        BY <1>1, <2>1 DEF CleanStopDrains, Drained
      <4>1. flushes' = {}
        BY <1>1, <1>9, <2>1, <1>5 DEF AtMostOneFlush
      <4> QED
        BY <2>2, <2>4, <3>1, <4>1 DEF Started
    <3> QED
      BY <3>2, <3>3
  <2> QED
    BY <1>3, <2>1, <2>3, <2>4
<1>10. ASSUME phase # "running"
       PROVE  CleanStopHolds' /\ CleanStopDrains'
  <2>1. CleanStopHolds'
    BY <1>1, <1>10 DEF CleanStopHolds
  <2>2. CleanStopDrains'
    <3> SUFFICES ASSUME clean', NEW s \in Slots
                 PROVE  settled'[s] >= promised'[s[1]]
      BY DEF CleanStopDrains, Drained
    <3>1. settled[s] >= promised[s[1]] /\ promised' = promised
      BY <1>1, <1>10 DEF CleanStopDrains, Drained
    <3> QED
      BY <1>6, <1>7, <3>1, SlotParts DEF TypeOK
  <2> QED
    BY <2>1, <2>2
<1> QED
  BY <1>5, <1>6, <1>7, <1>8, <1>9, <1>10

\* The process ends without touching what the debouncer holds.
LEMMA EndKeepsInvariant ==
    ASSUME IInv, Exit \/ ShutdownTimeout
    PROVE  IInv'
<1>1. /\ UNCHANGED <<store, buffer, timer, flushing, flushes>>
      /\ UNCHANGED <<need, settled, delivered, late, promised, clean>>
      /\ \/ phase = "stopped" /\ phase' = "exited"
         \/ phase \in {"stopping", "stopped"} /\ phase' = "aborted"
  BY DEF Exit, ShutdownTimeout, api, history
<1>2. TypeOK' /\ AtMostOneFlush' /\ Versions' /\ Arrivals' /\ NoChangeForgotten'
  BY <1>1 DEF IInv, TypeOK, AtMostOneFlush, Versions, Arrivals, NoChangeForgotten
<1>3. TimerHandle' /\ WakeupPending'
  BY <1>1 DEF IInv, TimerHandle, WakeupPending
<1>4. CleanStopHolds' /\ CleanStopDrains'
  BY <1>1 DEF IInv, CleanStopHolds, CleanStopDrains, Drained
<1> QED
  BY <1>2, <1>3, <1>4 DEF IInv

LEMMA StutterKeepsInvariant ==
    ASSUME IInv, UNCHANGED vars
    PROVE  IInv'
<1>1. /\ UNCHANGED <<store, buffer, timer, flushing, flushes, phase>>
      /\ UNCHANGED <<need, settled, delivered, late, promised, clean>>
  BY DEF vars, state, api, history
<1>2. TypeOK' /\ AtMostOneFlush' /\ Versions' /\ Arrivals' /\ NoChangeForgotten'
  BY <1>1 DEF IInv, TypeOK, AtMostOneFlush, Versions, Arrivals, NoChangeForgotten
<1>3. TimerHandle' /\ WakeupPending' /\ CleanStopHolds' /\ CleanStopDrains'
  BY <1>1 DEF IInv, TimerHandle, WakeupPending, CleanStopHolds, CleanStopDrains,
              Drained
<1> QED
  BY <1>2, <1>3 DEF IInv

LEMMA InitInvariant ==
    ASSUME Init
    PROVE  IInv
<1>1. TypeOK
  BY DEF Init, TypeOK
<1>2. AtMostOneFlush /\ TimerHandle /\ WakeupPending
  BY DEF Init, AtMostOneFlush, TimerHandle, WakeupPending
<1>3. Versions /\ Arrivals /\ NoChangeForgotten
  BY SlotParts, EntryParts DEF Init, Versions, Arrivals, NoChangeForgotten
<1>4. CleanStopHolds /\ CleanStopDrains
  BY DEF Init, CleanStopHolds, CleanStopDrains
<1> QED
  BY <1>1, <1>2, <1>3, <1>4 DEF IInv

LEMMA NextKeepsInvariant ==
    ASSUME IInv, [Next]_vars
    PROVE  IInv'
<1>1. ASSUME NEW c \in Codigos, NEW types \in (SUBSET PayloadTypes) \ {{}},
             Enqueue(c, types)
      PROVE  IInv'
  BY <1>1, EnqueueKeepsInvariant
<1>2. ASSUME NEW f \in flushes, NEW outcome \in Outcomes, DispatchEnds(f, outcome)
      PROVE  IInv'
  BY <1>2, DispatchKeepsInvariant
<1> QED
  BY <1>1, <1>2, LateKeepsInvariant, TimerKeepsInvariant, StopKeepsInvariant,
     EndKeepsInvariant, StutterKeepsInvariant DEF Next

-----------------------------------------------------------------------------
\* Every behaviour keeps the inductive invariant.
THEOREM Invariant == Spec => []IInv
<1>1. Init => IInv
  BY InitInvariant
<1>2. IInv /\ [Next]_vars => IInv'
  BY NextKeepsInvariant
<1> QED
  BY <1>1, <1>2, PTL DEF Spec

\* The state of the debouncer is always well formed.
THEOREM TypeCorrect == Spec => []TypeOK
<1>1. IInv => TypeOK
  BY DEF IInv
<1> QED
  BY <1>1, Invariant, PTL

\* No two flushes overlap, whatever starts them: timer, full buffer or stop().
THEOREM FlushesDoNotOverlap == Spec => []AtMostOneFlush
<1>1. IInv => AtMostOneFlush
  BY DEF IInv
<1> QED
  BY <1>1, Invariant, PTL

\* A watched change, once enqueued, is never dropped while the process lives.
THEOREM ChangesAreKept == Spec => []NoChangeForgotten
<1>1. IInv => NoChangeForgotten
  BY DEF IInv
<1> QED
  BY <1>1, Invariant, PTL

\* No wake-up is lost when flushes end within the window.
THEOREM WakeupIsPending == Spec => []WakeupPending
<1>1. IInv => WakeupPending
  BY DEF IInv
<1> QED
  BY <1>1, Invariant, PTL

\* A stop() that starts with no flush running drains the debouncer.
THEOREM CleanStopIsComplete == Spec => []CleanStopDrains
<1>1. IInv => CleanStopDrains
  BY DEF IInv
<1> QED
  BY <1>1, Invariant, PTL

\* A step that takes the API back to an older version of an item applies a late batch.
THEOREM RegressionIsLate == Spec => OnlyLateBatchesRegress
<1>1. ASSUME IInv, [Next]_vars
      PROVE  [\A s \in Slots :
                 \/ delivered'[s] >= delivered[s]
                 \/ \E q \in late \ late' : s \in q.batch /\ delivered'[s] = q.seen[s[1][1]]]_vars
  <2>1. CASE \E f \in flushes, outcome \in Outcomes : DispatchEnds(f, outcome)
    <3>1. PICK f \in flushes, outcome \in Outcomes : DispatchEnds(f, outcome)
      BY <2>1
    <3>2. IInv' /\ \A s \in Slots : delivered[s] <= delivered'[s]
      BY <1>1, <3>1, DispatchKeepsInvariant
    <3>3. \A s \in Slots : delivered[s] \in Nat /\ delivered'[s] \in Nat
      BY <1>1, <3>2 DEF IInv, TypeOK
    <3> QED
      BY <3>2, <3>3
  <2>2. CASE \E q \in late : LateArrives(q)
    <3>1. PICK q \in late : delivered' = Applied(q) /\ late' = late \ {q}
      BY <2>2 DEF LateArrives
    <3>2. q \in late \ late'
      BY <3>1
    <3> SUFFICES ASSUME NEW s \in Slots
                 PROVE  \/ delivered'[s] >= delivered[s]
                        \/ \E d \in late \ late' :
                              s \in d.batch /\ delivered'[s] = d.seen[s[1][1]]
      OBVIOUS
    <3>3. CASE s \in q.batch
      BY <3>1, <3>2, <3>3 DEF Applied
    <3>4. CASE s \notin q.batch
      <4>1. delivered'[s] = delivered[s] /\ delivered[s] \in Nat
        BY <1>1, <3>1, <3>4 DEF Applied, IInv, TypeOK
      <4> QED
        BY <4>1
    <3> QED
      BY <3>3, <3>4
  <2>3. CASE UNCHANGED api
    BY <1>1, <2>3 DEF IInv, TypeOK, api
  <2>4. \/ \E f \in flushes, outcome \in Outcomes : DispatchEnds(f, outcome)
        \/ \E q \in late : LateArrives(q)
        \/ UNCHANGED api
    BY <1>1 DEF Next, vars, Enqueue, Changed, TimerFires, Stop, Signalled, Exit,
                ShutdownTimeout
  <2> QED
    BY <2>1, <2>2, <2>3, <2>4
<1> QED
  BY <1>1, Invariant, PTL DEF Spec, OnlyLateBatchesRegress

-----------------------------------------------------------------------------
\* A flush() that starts, or does not, settles nothing but with the store it reads.
LEMMA FlushSettles ==
    ASSUME IInv, NEW buf \in SUBSET Entries, NEW tmr, NEW st \in [Codigos -> Nat],
           \A c \in Codigos : store[c] <= st[c],
           Flush(buf, tmr, st)
    PROVE  \A s \in Slots : settled[s] <= settled'[s]
<1> SUFFICES ASSUME NEW s \in Slots
             PROVE  settled[s] <= settled'[s]
  OBVIOUS
<1>1. settled'[s] \in {settled[s], st[s[1][1]]}
  BY FlushSplit DEF IInv, Started
<1>2. /\ settled[s] \in Nat /\ store[s[1][1]] \in Nat /\ st[s[1][1]] \in Nat
      /\ settled[s] <= store[s[1][1]] /\ store[s[1][1]] <= st[s[1][1]]
  BY SlotParts DEF IInv, TypeOK, Versions
<1> QED
  BY <1>1, <1>2

\* No step takes an item back to a version older than the one it was settled with.
LEMMA StepSettlesForward ==
    ASSUME IInv, [Next]_vars
    PROVE  \A s \in Slots : settled[s] <= settled'[s]
<1> USE DEF IInv
<1>1. \A c \in Codigos : store[c] \in Nat /\ store[c] <= store[c]
  BY DEF TypeOK
<1>2. ASSUME NEW c \in Codigos, NEW types \in (SUBSET PayloadTypes) \ {{}},
             Enqueue(c, types)
      PROVE  \A s \in Slots : settled[s] <= settled'[s]
  <2>1. buffer \cup ({c} \X types) \in SUBSET Entries
    BY DEF TypeOK, Entries
  <2>2. /\ store' \in [Codigos -> Nat]
        /\ \A d \in Codigos : store[d] <= store'[d]
    BY <1>2 DEF Enqueue, Changed, TypeOK
  <2>3. CASE Flush(buffer \cup ({c} \X types), timer, store')
    BY <2>1, <2>2, <2>3, FlushSettles
  <2>4. CASE UNCHANGED settled
    BY <2>4 DEF TypeOK
  <2> QED
    BY <1>2, <2>3, <2>4 DEF Enqueue, Buffered
<1>3. CASE TimerFires
  <2>1. Flush(buffer, "spent", store) /\ buffer \in SUBSET Entries
    BY <1>3 DEF TimerFires, TypeOK
  <2> QED
    BY <1>1, <2>1, FlushSettles DEF TypeOK
<1>4. CASE \E f \in flushes, outcome \in Outcomes : DispatchEnds(f, outcome)
  <2>1. PICK f \in flushes, outcome \in Outcomes : DispatchEnds(f, outcome)
    BY <1>4
  <2>2. settled' = [s \in Slots |-> IF s \in f.batch THEN f.seen[s[1][1]] ELSE settled[s]]
    BY <2>1 DEF DispatchEnds, BatchEnds
  <2>3. \A s \in f.batch : settled[s] <= f.seen[s[1][1]]
    BY DEF Versions
  <2> QED
    BY <2>2, <2>3 DEF TypeOK
<1>5. CASE Stop
  <2>1. Flush(buffer, "none", store) /\ buffer \in SUBSET Entries
    BY <1>5 DEF Stop, TypeOK
  <2> QED
    BY <1>1, <2>1, FlushSettles DEF TypeOK
<1>6. CASE UNCHANGED settled
  BY <1>6 DEF TypeOK
<1> QED
  BY <1>2, <1>3, <1>4, <1>5, <1>6 DEF Next, LateArrives, Exit, ShutdownTimeout, history,
                                      vars

\* The API gets an item as it is settled, and no older one than it has, or late.
LEMMA StepDelivers ==
    ASSUME IInv, [Next]_vars
    PROVE  O!Deliver
<1> DEFINE given == UNION {{<<s, q.seen[s[1][1]]>> : s \in q.batch} : q \in late}
           InOrder == \A s \in Slots : delivered'[s] # delivered[s] =>
                          delivered'[s] > delivered[s] /\ delivered'[s] = settled'[s]
           GivenNow == \A g \in given' \ given : g[2] = settled'[g[1]]
<1>1. CASE \E f \in flushes, outcome \in Outcomes : DispatchEnds(f, outcome)
  <2>1. PICK f \in flushes, outcome \in Outcomes : DispatchEnds(f, outcome)
    BY <1>1
  <2>2. /\ f \in Flushes
        /\ settled' = [i \in Slots |-> IF i \in f.batch THEN f.seen[i[1][1]]
                                       ELSE settled[i]]
        /\ delivered' = delivered \/ delivered' = Applied(f)
        /\ late' = late \/ late' = late \cup {Request(f)}
    BY <2>1, DispatchEffect
  <2>3. IInv' /\ \A s \in Slots : delivered[s] <= delivered'[s]
    BY <2>1, DispatchKeepsInvariant
  <2>4. InOrder
    <3> SUFFICES ASSUME NEW s \in Slots, delivered'[s] # delivered[s]
                 PROVE  delivered'[s] > delivered[s] /\ delivered'[s] = settled'[s]
      OBVIOUS
    <3>1. delivered'[s] = settled'[s]
      BY <2>2 DEF Applied
    <3>2. /\ delivered[s] \in Nat /\ delivered'[s] \in Nat
          /\ delivered[s] <= delivered'[s]
      BY <2>3 DEF IInv, TypeOK
    <3> QED
      BY <3>1, <3>2
  <2>5. GivenNow
    <3> SUFFICES ASSUME NEW g \in given', g \notin given
                 PROVE  g[2] = settled'[g[1]]
      OBVIOUS
    <3>1. PICK q \in late' : \E s \in q.batch : g = <<s, q.seen[s[1][1]]>>
      OBVIOUS
    <3>2. q \notin late
      BY <3>1
    <3>3. q = Request(f)
      BY <2>2, <3>1, <3>2
    <3>4. PICK s \in f.batch : g = <<s, f.seen[s[1][1]]>>
      BY <3>1, <3>3 DEF Request
    <3>5. s \in Slots
      BY <2>2, <3>4 DEF Flushes
    <3> QED
      BY <2>2, <3>4, <3>5
  <2> QED
    BY <2>4, <2>5 DEF O!Deliver
<1>2. CASE \E q \in late : LateArrives(q)
  <2>1. PICK q \in late : delivered' = Applied(q) /\ late' = late \ {q}
    BY <1>2 DEF LateArrives
  <2>2. ASSUME NEW s \in Slots, delivered'[s] # delivered[s]
        PROVE  <<s, delivered'[s]>> \in given
    <3>1. s \in q.batch /\ delivered'[s] = q.seen[s[1][1]]
      BY <2>1, <2>2 DEF Applied, IInv, TypeOK
    <3> QED
      BY <3>1
  <2>3. given' \subseteq given
    BY <2>1
  <2> QED
    BY <2>2, <2>3 DEF O!Deliver
<1>3. CASE UNCHANGED api
  <2>1. given' = given /\ delivered' = delivered
    BY <1>3 DEF api
  <2> QED
    BY <2>1 DEF O!Deliver
<1> QED
  BY <1>1, <1>2, <1>3 DEF Next, vars, Enqueue, Changed, TimerFires, Stop, Signalled,
                    Exit, ShutdownTimeout

\* Every step of the debouncer is one of the outbox, or leaves it as it is.
LEMMA StepImplements ==
    ASSUME IInv, [Next]_vars
    PROVE  [O!Next]_(O!vars)
<1>1. IInv'
  BY NextKeepsInvariant
<1>2. O!Settle
  <2> SUFFICES ASSUME NEW s \in Slots
               PROVE  settled'[s] \in settled[s] .. store'[s[1][1]]
    BY DEF O!Settle
  <2>1. settled[s] \in Nat /\ settled'[s] \in Nat /\ store'[s[1][1]] \in Nat
    BY <1>1, SlotParts DEF IInv, TypeOK
  <2>2. settled[s] <= settled'[s] /\ settled'[s] <= store'[s[1][1]]
    BY <1>1, StepSettlesForward DEF IInv, Versions
  <2> QED
    BY <2>1, <2>2
<1>3. O!Deliver
  BY StepDelivers
<1>4. O!Close
  BY DEF O!Close, Next, vars, state, Enqueue, Changed, TimerFires, DispatchEnds, FlushEnds,
         NextBatch, LateArrives, Stop, Signalled, Exit, ShutdownTimeout
<1>5. \/ UNCHANGED <<store, need>>
      \/ \E c \in Codigos : \E asked \in SUBSET {e \in Entries : e[1] = c} :
            O!Change(c, asked)
  <2>1. ASSUME NEW c \in Codigos, NEW types \in (SUBSET PayloadTypes) \ {{}},
               Enqueue(c, types)
        PROVE  \E asked \in SUBSET {e \in Entries : e[1] = c} : O!Change(c, asked)
    <3>1. {c} \X types \in SUBSET {e \in Entries : e[1] = c}
      BY DEF Entries
    <3>2. O!Change(c, {c} \X types)
      BY <2>1 DEF O!Change, Enqueue, Changed
    <3> QED
      BY <3>1, <3>2
  <2> QED
    BY <2>1 DEF Next, vars, state, history, TimerFires, DispatchEnds, LateArrives, Stop,
                Signalled, Exit, ShutdownTimeout
<1> QED
  BY <1>2, <1>3, <1>4, <1>5 DEF O!Next

\* The debouncer implements the outbox: its initial state is one of the outbox, and every
\* step of the code from one await to the next is a step of the outbox or leaves it alone.
THEOREM DebouncerImplementsOutbox == Spec => ImplementsOutbox
<1>1. Init => O!Init
  BY DEF Init, O!Init
<1>2. IInv /\ [Next]_vars => [O!Next]_(O!vars)
  BY StepImplements
<1> QED
  BY <1>1, <1>2, Invariant, PTL DEF Spec, ImplementsOutbox, O!Safety
=============================================================================
