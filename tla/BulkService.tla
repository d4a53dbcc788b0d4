---------------------------- MODULE BulkService ----------------------------
(***************************************************************************)
(* Bulk operations: the trigger routes (http/server.ts) and the service    *)
(* behind them (bulk/bulk-service.ts).  A POST synchronises, a DELETE      *)
(* deletes; the handler reads the store and gives all items at once, then  *)
(* they are sent batch by batch.  An action runs up to the next await.     *)
(*                                                                         *)
(* Which items a handler gives is the matter of BulkHandlers: here they    *)
(* are any set of Items.                                                   *)
(***************************************************************************)
EXTENDS Batching

CONSTANTS
    Callers,        \* HTTP clients with one call at a time
    Items

ASSUME BulkAssumption == IsFiniteSet(Items)

VARIABLES
    running,        \* this.running
    operations,     \* the activations suspended at `await client.request(...)`
    answers         \* answers[c]: what became of the last call of c

\* History, read by the properties only.
VARIABLES
    accepted,       \* accepted[c]: items of its last call whose request resolved
    refused         \* refused[c]: items of its last call whose request was rejected

service == <<running, operations, answers>>
bulk    == <<service, accepted, refused>>

Methods == {"PUT", "DELETE"}

\* What one request may carry.
Chunks == {b \in SUBSET Items : Cardinality(b) \in 1 .. BatchSize}

\* An activation waits for `batch` to be sent; `rest` is still to come.
Operations == [caller: Callers, method: Methods, items: SUBSET Items,
               batch: Chunks, rest: SUBSET Items,
               successBatches: Nat, failedBatches: Nat]

\* "lost": the process ended before it answered.  The numbers are those of the
\* report that comes with a 200.
Answers == [status: {"none", "waiting", "200", "409", "500", "lost"},
            items: SUBSET Items, successBatches: Nat, failedBatches: Nat]

Answer(status) ==
    [status |-> status, items |-> {}, successBatches |-> 0, failedBatches |-> 0]

Report(o) ==
    [status |-> "200", items |-> o.items, successBatches |-> o.successBatches,
     failedBatches |-> o.failedBatches]

BulkTypeOK ==
    /\ running \in BOOLEAN
    /\ operations \in SUBSET Operations
    /\ answers \in [Callers -> Answers]
    /\ accepted \in [Callers -> SUBSET Items]
    /\ refused \in [Callers -> SUBSET Items]

BulkInit ==
    /\ running = FALSE
    /\ operations = {}
    /\ answers = [c \in Callers |-> Answer("none")]
    /\ accepted = [c \in Callers |-> {}]
    /\ refused = [c \in Callers |-> {}]

-----------------------------------------------------------------------------
\* c calls a trigger route.
Calls(c) ==
    /\ answers[c].status # "waiting"
    /\ accepted' = [accepted EXCEPT ![c] = {}]
    /\ refused' = [refused EXCEPT ![c] = {}]

\* withMutex(): an operation is under way, so this one is turned down with a 409.
Conflict(c) ==
    /\ Calls(c)
    /\ running
    /\ answers' = [answers EXCEPT ![c] = Answer("409")]
    /\ UNCHANGED <<running, operations>>

\* sendBatches() with the items of o still to send: up to the next request, or, when
\* there is none, to the answer, with the mutex released.
SendsOn(o, items, others) ==
    \/ /\ items = {}
       /\ running' = FALSE
       /\ operations' = others
       /\ answers' = [answers EXCEPT ![o.caller] = Report(o)]
    \/ /\ items # {}
       /\ running' = TRUE
       /\ \E b \in Batches(items) :
             operations' = others \cup {[o EXCEPT !.batch = b, !.rest = items \ b]}
       /\ answers' = [answers EXCEPT ![o.caller] = Answer("waiting")]

NewOperation(c, method, items) ==
    [caller |-> c, method |-> method, items |-> items, batch |-> {}, rest |-> {},
     successBatches |-> 0, failedBatches |-> 0]

\* Mutant: the mutex is not looked at.
StartUnguarded(c, method, items) ==
    /\ Calls(c)
    /\ SendsOn(NewOperation(c, method, items), items, operations)

\* doSync() or doDelete(): the handler's items, none if the list of codigos is empty.
Start(c, method, items) ==
    /\ Calls(c)
    /\ ~running
    /\ SendsOn(NewOperation(c, method, items), items, operations)

\* Mutant: the mutex is not released when the handler throws.
HandlerThrowsLocked(c) ==
    /\ Calls(c)
    /\ ~running
    /\ running' = TRUE
    /\ answers' = [answers EXCEPT ![c] = Answer("500")]
    /\ UNCHANGED operations

\* The handler throws: finally, the mutex is released; handleBulk() answers 500.
HandlerThrows(c) ==
    /\ Calls(c)
    /\ ~running
    /\ answers' = [answers EXCEPT ![c] = Answer("500")]
    /\ UNCHANGED <<running, operations>>

\* What the end of a request, resolved or rejected, counts for.
Counted(o, ok) ==
    IF ok THEN [o EXCEPT !.successBatches = @ + 1] ELSE [o EXCEPT !.failedBatches = @ + 1]

\* Mutant: a batch that failed is sent again.
BatchEndsRepeating(o, ok) ==
    /\ o \in operations
    /\ accepted' = [accepted EXCEPT ![o.caller] = IF ok THEN @ \cup o.batch ELSE @]
    /\ refused' = [refused EXCEPT ![o.caller] = IF ok THEN @ ELSE @ \cup o.batch]
    /\ IF ok THEN SendsOn(Counted(o, ok), o.rest, operations \ {o})
             ELSE UNCHANGED service

\* The request of o ends; a batch that failed is counted, and the loop goes on.
BatchEnds(o, ok) ==
    /\ o \in operations
    /\ accepted' = [accepted EXCEPT ![o.caller] = IF ok THEN @ \cup o.batch ELSE @]
    /\ refused' = [refused EXCEPT ![o.caller] = IF ok THEN @ ELSE @ \cup o.batch]
    /\ SendsOn(Counted(o, ok), o.rest, operations \ {o})

\* The process ends, and starts again.
Restarted ==
    /\ running' = FALSE
    /\ operations' = {}
    /\ answers' = [c \in Callers |-> IF answers[c].status = "waiting" THEN Answer("lost")
                                     ELSE answers[c]]
    /\ UNCHANGED <<accepted, refused>>

BulkNext ==
    \/ \E c \in Callers : Conflict(c) \/ HandlerThrows(c)
    \/ \E c \in Callers, method \in Methods, items \in SUBSET Items :
           Start(c, method, items)
    \/ \E o \in operations, ok \in BOOLEAN : BatchEnds(o, ok)
    \/ Restarted

\* A request ends within the fetch timeout.
BulkFairness == WF_bulk(\E o \in operations, ok \in BOOLEAN : BatchEnds(o, ok))

BulkSpec == BulkInit /\ [][BulkNext]_bulk /\ BulkFairness

-----------------------------------------------------------------------------
(***************************************************************************)
(* Safety                                                                  *)
(***************************************************************************)

\* The mutex admits one operation, and is held exactly while one is under way: it is
\* released however the operation ends, so no 409 is given for nothing.
OneOperation ==
    /\ running <=> operations # {}
    /\ \A o, p \in operations : o = p
    /\ \A c \in Callers :
           answers[c].status = "waiting" <=> \E o \in operations : o.caller = c

\* The report is true: every item was sent, once; those of the batches counted as
\* successful, and no others, were accepted; and the batches are as many as the items need.
ReportsAreTrue ==
    \A c \in Callers :
        LET report == answers[c]
        IN  report.status = "200" =>
                /\ report.items = accepted[c] \cup refused[c]
                /\ accepted[c] \cap refused[c] = {}
                /\ report.failedBatches = 0 <=> refused[c] = {}
                /\ report.successBatches = 0 <=> accepted[c] = {}
                /\ (report.successBatches + report.failedBatches - 1) * BatchSize
                       < Cardinality(report.items)
                /\ Cardinality(report.items)
                       <= (report.successBatches + report.failedBatches) * BatchSize

(***************************************************************************)
(* Liveness                                                                *)
(***************************************************************************)

\* Every call is answered, whatever becomes of the handler and the batches, unless the
\* process ends; and the service does not stay locked, so a call after a 409 is of use.
CallsAreAnswered ==
    /\ \A c \in Callers : answers[c].status = "waiting" ~> answers[c].status # "waiting"
    /\ running ~> ~running
=============================================================================
