------------------------------ MODULE Delivery ------------------------------
(***************************************************************************)
(* One item of the API and the three senders that write it, each with its  *)
(* own idea of when: the debouncer's flush (dispatch/cdc-debouncer.ts),    *)
(* the retry loop (dispatch/pending-buffer.ts) and the bulk service        *)
(* (bulk/bulk-service.ts).  They share the store they build from and the   *)
(* API client, and nothing orders their requests.                          *)
(*                                                                         *)
(* Composed from what their own modules show: a flush takes what the       *)
(* buffer holds, and no two overlap (CdcDebouncer); nor do two passes of   *)
(* the retry loop (PendingBuffer) or two bulk operations, which send each  *)
(* item once (BulkService).  A version of the item is the number of        *)
(* changes its rows went through; 0 stands for its absence.  A request is  *)
(* on its way from when its payload is built until the API applies it.     *)
(***************************************************************************)
EXTENDS Integers, FiniteSets

CONSTANTS
    MaxVersion,     \* bound: changes of the rows
    MaxStrays       \* bound: strays of one version at a time

ASSUME DeliveryAssumption == MaxVersion \in Nat /\ MaxStrays \in Nat

Senders == {"flush", "retry", "bulk"}
Versions == 0 .. MaxVersion
Gone == 0               \* the version that a DELETE carries
Nothing == -1

VARIABLES
    store,      \* version of the rows of the item
    due,        \* version that its builder returns: that of the store, or 0 for null
    buffered,   \* its entry is in the debouncer's buffer
    stranded,   \* and the timer that was to flush it has fired for nothing
    pending,    \* its entry is in the pending buffer
    flights,    \* flights[s]: the request of sender s, and whether the API applied it
    strays,     \* strays[v]: requests given up here that may still reach the API
    api         \* version the API has

\* History, read by the properties only.
VARIABLES
    owed,       \* version that was asked for last, by a live change or a bulk operation
    causes,     \* what has since gone wrong with it
    company     \* whether two requests have since been on their way at once

delivery == <<store, due, buffered, stranded, pending, flights, strays, api>>
vars     == <<delivery, owed, causes, company>>

Idle == [stage |-> "idle", version |-> 0]
Sent(v) == [stage |-> "sent", version |-> v]

DeliveryTypeOK ==
    /\ store \in Versions
    /\ due \in {0, store}
    /\ buffered \in BOOLEAN
    /\ stranded \in BOOLEAN
    /\ stranded => buffered
    /\ pending \in BOOLEAN
    /\ flights \in [Senders -> [stage: {"idle", "sent", "applied"}, version: Versions]]
    /\ strays \in [Versions -> Nat]
    /\ api \in Versions
    /\ owed \in Versions \cup {Nothing}
    /\ causes \in SUBSET {"failed", "overtaken", "ended"}
    /\ company \in BOOLEAN

Init ==
    /\ store = 0
    /\ due = 0
    /\ buffered = FALSE
    /\ stranded = FALSE
    /\ pending = FALSE
    /\ flights = [s \in Senders |-> Idle]
    /\ strays = [v \in Versions |-> 0]
    /\ api = Gone
    /\ owed = Nothing
    /\ causes = {}
    /\ company = FALSE

-----------------------------------------------------------------------------
OnTheWay(s) == flights[s].stage = "sent"

\* Two requests are on their way at once, or one that was given up here is.
Company ==
    \/ \E v \in Versions : strays[v] > 0
    \/ \E s, t \in Senders : s # t /\ OnTheWay(s) /\ OnTheWay(t)

\* Version v is asked for.
Owes(v) ==
    /\ owed' = v
    /\ causes' = {}
    /\ company' = (v # Nothing /\ Company')

\* Nothing is asked for, and what went wrong with what was is added to the causes.
Notes(causesNow) ==
    /\ owed' = owed
    /\ causes' = IF owed = Nothing THEN {} ELSE causes \cup causesNow
    /\ company' = (owed # Nothing /\ (company \/ Company'))

\* The rows of the item change; `complete` tells whether its builder returns it then.
Changes(complete) ==
    /\ store < MaxVersion
    /\ store' = store + 1
    /\ due' = IF complete THEN store + 1 ELSE 0
    /\ UNCHANGED <<stranded, pending, flights, strays, api>>

\* A change that the message handler enqueues.
LiveChange(complete) ==
    /\ Changes(complete)
    /\ buffered' = TRUE
    /\ Owes(IF complete THEN store + 1 ELSE Nothing)

\* Mutant: the builder keeps returning what it built before.
SilentChangeUnseen(complete) ==
    /\ store < MaxVersion
    /\ store' = store + 1
    /\ due' = IF complete /\ due # 0 THEN due ELSE IF complete THEN store + 1 ELSE 0
    /\ UNCHANGED <<buffered, stranded, pending, flights, strays, api>>
    /\ Owes(Nothing)

\* A change that it does not: the event is part of a snapshot, the re-snapshot cleared the
\* store, or another row than those of the codigo decides whether the payload is complete.
SilentChange(complete) ==
    /\ Changes(complete)
    /\ UNCHANGED buffered
    /\ Owes(Nothing)

-----------------------------------------------------------------------------
\* s builds the payload from the store, and sends it.  After a DELETE was asked for that is
\* a second demand, and neither has a claim.
BuildsAndSends(s) ==
    /\ due # 0
    /\ flights' = [flights EXCEPT ![s] = Sent(due)]
    /\ IF owed = Gone THEN Owes(Nothing) ELSE Notes({})

\* The timer fires while a flush, of this item or of others, is in progress: flush() returns
\* at once, and the next enqueue finds the timer set.  Only a full buffer flushes the entry.
TimerFiresInVain ==
    /\ buffered
    /\ ~stranded
    /\ stranded' = TRUE
    /\ UNCHANGED <<store, due, buffered, pending, flights, strays, api>>
    /\ Notes({})

\* flush(): the payload is built and sent, or the entry is handed to the pending buffer.
FlushTakes ==
    /\ buffered
    /\ flights["flush"] = Idle
    /\ buffered' = FALSE
    /\ stranded' = FALSE
    /\ UNCHANGED <<store, due, strays, api>>
    /\ \/ BuildsAndSends("flush") /\ UNCHANGED pending
       \/ due = 0 /\ pending' = TRUE /\ UNCHANGED flights /\ Notes({})

\* The retry loop visits the entry, and can build it now.
RetryTakes ==
    /\ pending
    /\ flights["retry"] = Idle
    /\ UNCHANGED <<store, due, buffered, stranded, pending, strays, api>>
    /\ BuildsAndSends("retry")

\* The entry is evicted, or has used up its retries or its age.
RetryGivesUp ==
    /\ pending
    /\ pending' = FALSE
    /\ UNCHANGED <<store, due, buffered, stranded, flights, strays, api>>
    /\ Notes({})

\* POST: a bulk synchronisation builds the item with all others.
SyncStarts ==
    /\ flights["bulk"] = Idle
    /\ due # 0
    /\ flights' = [flights EXCEPT !["bulk"] = Sent(due)]
    /\ UNCHANGED <<store, due, buffered, stranded, pending, strays, api>>
    /\ Owes(due)

\* DELETE: a bulk deletion lists the item, complete or not.
DeleteStarts ==
    /\ flights["bulk"] = Idle
    /\ store # 0
    /\ flights' = [flights EXCEPT !["bulk"] = Sent(Gone)]
    /\ UNCHANGED <<store, due, buffered, stranded, pending, strays, api>>
    /\ Owes(Gone)

-----------------------------------------------------------------------------
\* Version v reaches the API; what was asked for may have been there before.
Applies(v) ==
    /\ api' = v
    /\ UNCHANGED <<store, due, buffered, stranded, pending>>
    /\ Notes(IF api = owed /\ v # owed THEN {"overtaken"} ELSE {})

ApiApplies(s) ==
    /\ OnTheWay(s)
    /\ flights' = [flights EXCEPT ![s].stage = "applied"]
    /\ UNCHANGED strays
    /\ Applies(flights[s].version)

ApiAppliesStray(v) ==
    /\ strays[v] > 0
    /\ strays' = [strays EXCEPT ![v] = @ - 1]
    /\ UNCHANGED flights
    /\ Applies(v)

StrayIsLost(v) ==
    /\ strays[v] > 0
    /\ strays' = [strays EXCEPT ![v] = @ - 1]
    /\ UNCHANGED <<store, due, buffered, stranded, pending, flights, api>>
    /\ Notes({})

\* Mutant: the buffer is cleared when the flush ends.
RequestResolvesThenClears(s) ==
    /\ flights[s].stage = "applied"
    /\ flights' = [flights EXCEPT ![s] = Idle]
    /\ pending' = (pending /\ s # "retry")
    /\ buffered' = (buffered /\ s # "flush")
    /\ stranded' = (stranded /\ s # "flush")
    /\ UNCHANGED <<store, due, strays, api>>
    /\ Notes({})

\* The request of s resolves.  The retry loop deletes the type from its entry, or the entry
\* from the pending buffer, even one that came meanwhile.
RequestResolves(s) ==
    /\ flights[s].stage = "applied"
    /\ flights' = [flights EXCEPT ![s] = Idle]
    /\ pending' = (pending /\ s # "retry")
    /\ UNCHANGED <<store, due, buffered, stranded, strays, api>>
    /\ Notes({})

\* Requests given up here may stay on their way.
Strays(senders) ==
    \E left \in SUBSET {s \in senders : OnTheWay(s)} :
        /\ strays' = [v \in Versions |->
                         strays[v] + Cardinality({s \in left : flights[s].version = v})]
        /\ \A s \in left : strays'[flights[s].version] <= MaxStrays

\* What is lost with a request of s that never reached the API from here.
Failure(s) == IF OnTheWay(s) /\ flights[s].version = owed THEN {"failed"} ELSE {}

\* Mutant: a request whose answer is lost is sent again.
RequestIsRejectedAndResent(s) ==
    /\ flights[s] # Idle
    /\ flights' = [flights EXCEPT ![s] = IF OnTheWay(s) THEN Idle
                                         ELSE Sent(flights[s].version)]
    /\ Strays({s})
    /\ UNCHANGED <<store, due, buffered, stranded, pending, api>>
    /\ Notes(Failure(s))

\* Mutant: no timeout ends a request that the API does not answer.
RequestIsRejectedUntimed(s) ==
    /\ flights[s].stage = "applied"
    /\ flights' = [flights EXCEPT ![s] = Idle]
    /\ Strays({s})
    /\ UNCHANGED <<store, due, buffered, stranded, pending, api>>
    /\ Notes(Failure(s))

\* The request of s is rejected: the API refused it, it timed out, or its answer was lost.
\* The flush and the bulk service log that and go on; the retry loop keeps its entry.
RequestIsRejected(s) ==
    /\ flights[s] # Idle
    /\ flights' = [flights EXCEPT ![s] = Idle]
    /\ Strays({s})
    /\ UNCHANGED <<store, due, buffered, stranded, pending, api>>
    /\ Notes(Failure(s))

\* The process ends - a stop, a crash, or an error in flush() that nobody handles - and
\* starts again: only the store is kept.
ProcessEnds ==
    /\ buffered' = FALSE
    /\ stranded' = FALSE
    /\ pending' = FALSE
    /\ flights' = [s \in Senders |-> Idle]
    /\ Strays(Senders)
    /\ UNCHANGED <<store, due, api>>
    /\ Notes(IF buffered \/ \E s \in Senders : OnTheWay(s) THEN {"ended"} ELSE {})

-----------------------------------------------------------------------------
Next ==
    \/ \E complete \in BOOLEAN : LiveChange(complete) \/ SilentChange(complete)
    \/ TimerFiresInVain
    \/ FlushTakes
    \/ RetryTakes
    \/ RetryGivesUp
    \/ SyncStarts
    \/ DeleteStarts
    \/ \E s \in Senders : ApiApplies(s) \/ RequestResolves(s) \/ RequestIsRejected(s)
    \/ \E v \in Versions : ApiAppliesStray(v) \/ StrayIsLost(v)
    \/ ProcessEnds

\* What is buffered is flushed by its timer, but for an entry that is stranded: nothing makes
\* the buffer fill up.  A request ends within the fetch timeout.
Fairness ==
    /\ WF_vars(~stranded /\ FlushTakes)
    /\ \A s \in Senders : WF_vars(RequestResolves(s) \/ RequestIsRejected(s))

Spec == Init /\ [][Next]_vars /\ Fairness

-----------------------------------------------------------------------------
(***************************************************************************)
(* Safety                                                                  *)
(***************************************************************************)

AtRest == ~buffered /\ \A s \in Senders : flights[s] = Idle

\* With nothing left to send, the API has what was asked for last, by a live change, by a
\* synchronisation or by a deletion, unless since then a request with it failed, the
\* process ended under it, or it was there and another request overtook it.  A silent
\* change asks for nothing, so the copy may be older than the rows until somebody does; a
\* synchronisation makes good for all of that.
StaleForAReason ==
    AtRest /\ owed # Nothing /\ causes = {} => api = owed

\* What was asked for is overtaken only by a request that was on its way with another one,
\* be it of another sender or one that its own sender had given up: what the senders hold
\* back, repeat or build late does not reverse the changes as long as requests go one at a
\* time and none outlives its timeout.
OvertakenInCompany == "overtaken" \in causes => company

(***************************************************************************)
(* Liveness                                                                *)
(***************************************************************************)

\* What is asked for reaches the API, unless something goes wrong with it, something else is
\* asked for, or its entry is stranded in the buffer; and if it is flushed after all, it
\* reaches the API from there.
DemandsArrive ==
    \A v \in Versions : owed = v ~> api = v \/ causes # {} \/ owed # v \/ stranded
=============================================================================
