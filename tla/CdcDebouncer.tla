---------------------------- MODULE CdcDebouncer ----------------------------
(***************************************************************************)
(* The debouncer between the Kafka message handler and the REST API        *)
(* (dispatch/cdc-debouncer.ts) and the part of the shutdown sequence that  *)
(* waits for it (index.ts).  JavaScript runs one callback at a time, so an *)
(* action is everything that happens up to the next await: enqueue() with  *)
(* the flush() it may start, the timer callback, the code after one        *)
(* `await dispatch(...)`, and the signal handler up to its await.          *)
(*                                                                         *)
(* The content of a payload is abstracted to the number of watched changes *)
(* of its codigo that it reflects.  A build of payload type t yields an    *)
(* array with one item per member of ElementsOf[t]; an item is a Slot.     *)
(***************************************************************************)
EXTENDS Batching

CONSTANTS
    Codigos,                \* business keys that change
    PayloadTypes,           \* supplier, contact, agreement
    ElementsOf,             \* the items one build of a type yields
    MaxBufferSize,          \* DEBOUNCE_MAX_BUFFER_SIZE, in codigos
    MaxChanges,             \* bound: watched changes per codigo
    MaxLate,                \* bound: batches that are late at a time
    FlushWithinWindow       \* operating condition: see TimerFires

ASSUME DebouncerAssumption ==
    /\ MaxBufferSize \in Nat \ {0}
    /\ MaxChanges \in [Codigos -> Nat]
    /\ MaxLate \in Nat
    /\ FlushWithinWindow \in BOOLEAN

Entries == Codigos \X PayloadTypes
Elements == UNION {ElementsOf[t] : t \in PayloadTypes}
Slots == {s \in Entries \X Elements : s[2] \in ElementsOf[s[1][2]]}

VARIABLES
    store,      \* store[c]: watched changes of c applied to the store
    buffer,     \* the entries <<codigo, type>> of this.buffer
    timer,      \* "none" (null), "armed", or "spent": fired but still not null
    flushing,   \* this.flushing
    flushes,    \* activations of flush() suspended at their await
    phase       \* of the process; "stopping" while it awaits debouncer.stop()

\* External: the API.
VARIABLES
    delivered,  \* delivered[s]: version of s the API applied last
    late        \* batches that timed out here and that the API may still apply

\* History, read by the properties only.
VARIABLES
    need,       \* need[e]: store version when entry e was last enqueued
    settled,    \* settled[s]: last version of s dispatched or handed to pending
    promised,   \* need as it was when the first signal called stop()
    clean       \* that stop() found no flush running, and was let finish

state   == <<store, buffer, timer, flushing, flushes, phase>>
api     == <<delivered, late>>
history == <<need, settled, promised, clean>>
vars    == <<state, api, history>>

Alive == phase \in {"running", "stopping", "stopped"}

\* An activation dispatches `batch`; `rest` waits; `seen` is the store it read.
Flushes == [type: PayloadTypes, batch: SUBSET Slots, rest: SUBSET Slots,
            seen: [Codigos -> Nat]]

Request(f) == [batch |-> f.batch, seen |-> f.seen]
Requests == [batch: SUBSET Slots, seen: [Codigos -> Nat]]

TypeOK ==
    /\ store \in [Codigos -> Nat]
    /\ buffer \in SUBSET Entries
    /\ timer \in {"none", "armed", "spent"}
    /\ flushing \in BOOLEAN
    /\ flushes \in SUBSET Flushes
    /\ phase \in {"running", "stopping", "stopped", "exited", "aborted"}
    /\ need \in [Entries -> Nat]
    /\ settled \in [Slots -> Nat]
    /\ delivered \in [Slots -> Nat]
    /\ late \in SUBSET Requests
    /\ promised \in [Entries -> Nat]
    /\ clean \in BOOLEAN

Init ==
    /\ store = [c \in Codigos |-> 0]
    /\ buffer = {}
    /\ timer = "none"
    /\ flushing = FALSE
    /\ flushes = {}
    /\ phase = "running"
    /\ need = [e \in Entries |-> 0]
    /\ settled = [s \in Slots |-> 0]
    /\ delivered = [s \in Slots |-> 0]
    /\ late = {}
    /\ promised = [e \in Entries |-> 0]
    /\ clean = FALSE

-----------------------------------------------------------------------------
BufferSize(buf) == Cardinality({e[1] : e \in buf})

OfType(items, t) == {s \in items : s[1][2] = t}

\* Where the dispatch loop may be suspended next with `items` still to send.
Suspensions(items, seen, types) ==
    UNION {{[type |-> t, batch |-> b, rest |-> items \ b, seen |-> seen] :
               b \in Batches(OfType(items, t))} :
           t \in {u \in types : OfType(items, u) # {}}}

\* flush() returns at once: one is running already, or there is nothing to do.
FlushSkipped(buf, tmr) ==
    /\ flushing \/ buf = {}
    /\ buffer' = buf
    /\ timer' = tmr
    /\ UNCHANGED <<flushing, flushes, settled>>

\* flush() takes the buffer, builds what it can from store `st`, hands the
\* entries whose builder returned null to the pending buffer, and runs up to
\* its first await, or to its end when nothing was built.
TakeAndBuild(buf, st) ==
    /\ buffer' = {}
    /\ \E incomplete \in SUBSET buf :
          LET items == {s \in Slots : s[1] \in buf \ incomplete}
          IN  /\ settled' = [s \in Slots |-> IF s[1] \in incomplete
                                             THEN st[s[1][1]] ELSE settled[s]]
              /\ \/ /\ items = {}
                    /\ UNCHANGED <<flushing, flushes>>
                 \/ \E f \in Suspensions(items, st, PayloadTypes) :
                       /\ flushes' = flushes \cup {f}
                       /\ flushing' = TRUE

\* Mutant: a flush() may start beside a running one.
FlushStartedBesideAnother(buf, st) ==
    /\ buf # {}
    /\ timer' = "none"
    /\ TakeAndBuild(buf, st)

\* Mutant: flush() leaves this.timer as it is.
FlushStartedKeepsTimer(buf, st) ==
    /\ ~flushing
    /\ buf # {}
    /\ timer' = IF timer = "none" THEN "none" ELSE "spent"
    /\ TakeAndBuild(buf, st)

FlushStarted(buf, st) ==
    /\ ~flushing
    /\ buf # {}
    /\ timer' = "none"
    /\ TakeAndBuild(buf, st)

Flush(buf, tmr, st) ==
    FlushSkipped(buf, tmr) \/ FlushStarted(buf, st)

\* The message handler stored a watched change of c ...
Changed(c, types) ==
    /\ Alive
    /\ store[c] < MaxChanges[c]
    /\ store' = [store EXCEPT ![c] = @ + 1]
    /\ need' = [e \in Entries |-> IF e \in {c} \X types
                                  THEN store[c] + 1 ELSE need[e]]
    /\ UNCHANGED <<phase, api, promised, clean>>

\* ... and calls enqueue(c, types), which adds to the buffer and arms the timer
\* when none is set, or flushes when the buffer is full.
Buffered(buf, mayArm) ==
    IF BufferSize(buf) >= MaxBufferSize
    THEN Flush(buf, timer, store')
    ELSE /\ buffer' = buf
         /\ timer' = IF timer = "none" /\ mayArm THEN "armed" ELSE timer
         /\ UNCHANGED <<flushing, flushes, settled>>

\* Mutant: key and value of the map swapped.
EnqueueSwapped(c, types) ==
    Changed(c, types) /\ Buffered(buffer \cup (types \X {c}), TRUE)

\* Mutant: no timer is armed while a flush runs.
EnqueueNotArming(c, types) ==
    Changed(c, types) /\ Buffered(buffer \cup ({c} \X types), ~flushing)

Enqueue(c, types) ==
    Changed(c, types) /\ Buffered(buffer \cup ({c} \X types), TRUE)

\* The window elapses.  The callback only calls flush(): when that returns at
\* once this.timer keeps the handle of a timer that will not fire again.
TimerFires ==
    /\ Alive
    /\ timer = "armed"
    /\ FlushWithinWindow => ~flushing
    /\ Flush(buffer, "spent", store)
    /\ UNCHANGED <<store, phase, api, need, promised, clean>>

Outcomes == {"applied", "lost", "late"}

\* A request reaches the API.
Applied(q) == [s \in Slots |-> IF s \in q.batch THEN q.seen[s[1][1]] ELSE delivered[s]]

\* The await of activation f ends.  Whether dispatch() resolved or threw, the
\* loop goes on; `outcome` tells what became of the batch at the API, which may
\* still apply one that AbortSignal.timeout() ended here.
BatchEnds(f, outcome) ==
    /\ Alive
    /\ f \in flushes
    /\ settled' = [s \in Slots |-> IF s \in f.batch THEN f.seen[s[1][1]]
                                   ELSE settled[s]]
    /\ \/ outcome = "applied" /\ delivered' = Applied(f) /\ UNCHANGED late
       \/ outcome = "lost" /\ UNCHANGED api
       \/ /\ outcome = "late"
          /\ Cardinality(late) < MaxLate
          /\ late' = late \cup {Request(f)}
          /\ UNCHANGED delivered

\* The API applies a late batch, in whatever state the process is.
LateArrives(q) ==
    /\ delivered' = Applied(q)
    /\ late' = late \ {q}
    /\ UNCHANGED <<state, history>>

FlushEnds(f) ==
    /\ f.rest = {}
    /\ flushes' = flushes \ {f}
    /\ flushing' = FALSE
    /\ phase' = IF phase = "stopping" THEN "stopped" ELSE phase

NextBatch(f) ==
    \E g \in Suspensions(f.rest, f.seen,
                         IF OfType(f.rest, f.type) # {} THEN {f.type}
                         ELSE PayloadTypes) :
        /\ flushes' = (flushes \ {f}) \cup {g}
        /\ UNCHANGED <<flushing, phase>>

\* Mutant: the buffer is cleared when the flush ends.
DispatchEndsThenClears(f, outcome) ==
    /\ BatchEnds(f, outcome)
    /\ FlushEnds(f) \/ NextBatch(f)
    /\ buffer' = IF f.rest = {} THEN {} ELSE buffer
    /\ UNCHANGED <<store, timer, need, promised, clean>>

DispatchEnds(f, outcome) ==
    /\ BatchEnds(f, outcome)
    /\ FlushEnds(f) \/ NextBatch(f)
    /\ UNCHANGED <<store, buffer, timer, need, promised, clean>>

\* SIGINT or SIGTERM: stopRetryLoop(), then `await debouncer.stop()`, which
\* clears the timer and awaits a flush().  A second signal does it all again.
Signalled ==
    /\ Alive
    /\ phase' = IF flushing' /\ ~flushing /\ phase = "running"
                THEN "stopping" ELSE "stopped"
    /\ promised' = IF phase = "running" THEN need ELSE promised
    /\ clean' = IF phase = "running" THEN ~flushing
                ELSE clean /\ phase = "stopped"
    /\ UNCHANGED <<store, api, need>>

\* Mutant: stop() only clears the timer.
StopWithoutFlush ==
    /\ timer' = "none"
    /\ UNCHANGED <<buffer, flushing, flushes, settled>>
    /\ Signalled

Stop ==
    /\ Flush(buffer, "none", store)
    /\ Signalled

\* server.close(), consumer.disconnect(), store.close() and process.exit(0).
Exit ==
    /\ phase = "stopped"
    /\ phase' = "exited"
    /\ UNCHANGED <<store, buffer, timer, flushing, flushes, api, history>>

\* The shutdown timeout wins the race: process.exit(1).
ShutdownTimeout ==
    /\ phase \in {"stopping", "stopped"}
    /\ phase' = "aborted"
    /\ UNCHANGED <<store, buffer, timer, flushing, flushes, api, history>>

Next ==
    \/ \E c \in Codigos, types \in (SUBSET PayloadTypes) \ {{}} : Enqueue(c, types)
    \/ TimerFires
    \/ \E f \in flushes, outcome \in Outcomes : DispatchEnds(f, outcome)
    \/ \E q \in late : LateArrives(q)
    \/ Stop
    \/ Exit
    \/ ShutdownTimeout

\* The event loop runs an expired timer, and a request ends within the fetch
\* timeout, so neither is postponed for ever.
Fairness ==
    /\ WF_vars(TimerFires)
    /\ WF_vars(\E f \in flushes, outcome \in Outcomes : DispatchEnds(f, outcome))

Spec == Init /\ [][Next]_vars /\ Fairness

-----------------------------------------------------------------------------
(***************************************************************************)
(* Safety                                                                  *)
(***************************************************************************)

\* At most one flush() is suspended at a dispatch, and this.flushing tells so:
\* the timer, a full buffer and stop() never start a second one beside it.
AtMostOneFlush ==
    /\ flushing <=> flushes # {}
    /\ \A f, g \in flushes : f = g

\* No change is forgotten while the process lives: of every entry enqueued,
\* each item is still in the buffer, or in a running flush that read the store
\* after the change, or has been dispatched or handed to the pending buffer
\* with a version no older than the change.
NoChangeForgotten ==
    \A s \in Slots :
        \/ settled[s] >= need[s[1]]
        \/ s[1] \in buffer
        \/ \E f \in flushes : /\ s \in f.batch \cup f.rest
                              /\ f.seen[s[1][1]] >= need[s[1]]

\* While the process runs, a buffered entry has a timer that will fire, if a
\* flush never outlasts the window of an entry enqueued while it runs.
WakeupPending ==
    FlushWithinWindow /\ MaxBufferSize > 1 =>
        (phase = "running" /\ buffer # {} => timer = "armed")

Drained == \A s \in Slots : settled[s] >= promised[s[1]]

\* A stop() that found no flush running, and that no second signal cut short,
\* has settled everything enqueued before it by the time the shutdown goes on
\* to close the server and the consumer.
CleanStopDrains == clean /\ phase \in {"stopped", "exited"} => Drained

\* The API goes back to an older version of an item only when a batch that had timed
\* out is applied after a later one, and never to a version that was not given up here:
\* what the flushes await, they send in the order of the changes.
OnlyLateBatchesRegress ==
    [][\A s \in Slots :
          \/ delivered'[s] >= delivered[s]
          \/ \E q \in late \ late' : s \in q.batch /\ delivered'[s] = q.seen[s[1][1]]]_vars

(***************************************************************************)
(* Refinement                                                              *)
(***************************************************************************)

\* The outbox is open until the first signal, and knows of late batches item by item.
O == INSTANCE Outbox
        WITH open <- phase = "running",
             late <- UNION {{<<s, q.seen[s[1][1]]>> : s \in q.batch} : q \in late}

\* Seen from outside, the debouncer is an Outbox: with all its timers, batches and skipped
\* flushes, items are settled in the order of the changes, none with a version that the
\* store never held or that is older than the last one, and only what is settled reaches
\* the API, in that order unless it is late.
ImplementsOutbox == O!Safety

(***************************************************************************)
(* Liveness                                                                *)
(***************************************************************************)

\* Whatever is enqueued is dispatched or handed to the pending buffer, with the version it
\* was enqueued with or a newer one, unless the process begins to shut down.
ChangesAreSettled == O!Promise

\* What README.md says of stop(): its final flush loses nothing that was
\* enqueued before it, so an exit with code 0 leaves nothing unsettled.
FinalFlushKeepsAll == phase = "exited" => Drained
=============================================================================
