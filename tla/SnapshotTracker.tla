-------------------------- MODULE SnapshotTracker --------------------------
(***************************************************************************)
(* The state machine that tells replayed snapshot events from live changes *)
(* (kafka/snapshot-tracker.ts), as operators on its state, a record with   *)
(* the flag `ready` and the set `topicsDone`.  The consumer owns one.      *)
(***************************************************************************)
CONSTANT Topics     \* the subscribed topics

Trackers == [ready: BOOLEAN, topicsDone: SUBSET Topics]

NewTracker(startReady) ==
    [ready |-> startReady, topicsDone |-> IF startReady THEN Topics ELSE {}]

\* reset() keeps the object and goes back to the snapshot phase.
ResetTracker == [ready |-> FALSE, topicsDone |-> {}]

\* Mutant: the snapshot flag of the event is not looked at.
MarkedWithoutFlag(tracker, op, last, topic) ==
    tracker.topicsDone \cup (IF op # "r" THEN {topic} ELSE {})

\* The topics done after an event: the last event of a snapshot ends it for all
\* topics, a change event for its own.
Marked(tracker, op, last, topic) ==
    IF last THEN Topics
    ELSE tracker.topicsDone \cup (IF op # "r" THEN {topic} ELSE {})

ProcessEvent(tracker, op, last, topic) ==
    IF tracker.ready /\ op # "r" THEN tracker
    ELSE LET done == Marked(tracker, op, last, topic)
         IN  [ready |-> tracker.ready \/ done = Topics, topicsDone |-> done]
=============================================================================
