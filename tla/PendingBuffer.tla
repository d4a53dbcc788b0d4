--------------------------- MODULE PendingBuffer ---------------------------
(***************************************************************************)
(* The retry buffer for payloads whose builder returned null               *)
(* (dispatch/pending-buffer.ts).  A pass of the retry loop goes through    *)
(* the map `pending` in insertion order and is suspended at each dispatch; *)
(* meanwhile flush() may call addPending().  An action runs up to the next *)
(* await.  A builder returns null or a payload, at will.                   *)
(***************************************************************************)
EXTENDS Integers, Sequences, FiniteSets

CONSTANTS
    Codigos,
    PayloadTypes,
    MAX_RETRIES,
    MAX_PENDING_SIZE

ASSUME PendingAssumption ==
    /\ MAX_RETRIES \in Nat
    /\ MAX_PENDING_SIZE \in Nat \ {0}

VARIABLES
    pending,    \* the entries of the map, oldest first
    ticking,    \* timer: the interval is set
    retrying,
    passes,     \* the passes of the retry loop suspended at a dispatch
    delivered   \* history: the dispatch that ended last succeeded

vars == <<pending, ticking, retrying, passes, delivered>>

\* `aged`: older than MAX_AGE_MS.
PendingEntries == [codigo: Codigos, types: SUBSET PayloadTypes, retries: Nat,
                   aged: BOOLEAN]

\* A pass has visited the first `visited` entries, the last of which, `entry`, it
\* is at: it gave the types `tried` to their builders and dispatches `type`.
\* An entry evicted meanwhile is `detached`: only the pass still refers to it.
Passes == [visited: Nat, type: PayloadTypes, tried: SUBSET PayloadTypes,
           entry: PendingEntries, detached: BOOLEAN]

Keys == {pending[i].codigo : i \in DOMAIN pending}

TypeOK ==
    /\ pending \in Seq(PendingEntries)
    /\ \A i, j \in DOMAIN pending :
           pending[i].codigo = pending[j].codigo => i = j
    /\ ticking \in BOOLEAN
    /\ retrying \in BOOLEAN
    /\ passes \in SUBSET Passes
    /\ delivered \in BOOLEAN

Init ==
    /\ pending = <<>>
    /\ ticking = TRUE
    /\ retrying = FALSE
    /\ passes = {}
    /\ delivered = FALSE

\* Map s once the entries that are not at the places `kept` have been deleted: the
\* others stay in their order.  (SelectSeq would do, but is recursive, and nothing
\* could be proved of it.)
Kept(s, kept) ==
    LET nth(k) == CHOOSE i \in kept : Cardinality(kept \cap 1..i) = k
    IN  [k \in 1..Cardinality(kept) |-> s[nth(k)]]

-----------------------------------------------------------------------------
(***************************************************************************)
(* addPending(c, t), called by flush()                                     *)
(***************************************************************************)
\* Mutant: merging counts the retries anew.
WithRetriesReset(e, t) == [e EXCEPT !.types = @ \cup {t}, !.retries = 0]

\* The retries that the entry has used up count for the new type, too.
With(e, t) == [e EXCEPT !.types = @ \cup {t}]

\* The entry is one object, which the pass that is at it sees change.
PassesWith(c, t) ==
    {IF p.entry.codigo = c /\ ~p.detached THEN [p EXCEPT !.entry = With(@, t)]
     ELSE p : p \in passes}

\* Mutant: a merged entry is put in again, as the youngest.
MergeRefreshing(c, t) ==
    LET merged == {i \in DOMAIN pending : pending[i].codigo = c}
    IN  /\ pending' = Kept(pending, DOMAIN pending \ merged)
                         \o Kept([i \in DOMAIN pending |-> With(pending[i], t)], merged)
        /\ passes' = PassesWith(c, t)

Merge(c, t) ==
    /\ pending' = [i \in DOMAIN pending |->
                      IF pending[i].codigo = c THEN With(pending[i], t) ELSE pending[i]]
    /\ passes' = PassesWith(c, t)

NewEntry(c, t) == [codigo |-> c, types |-> {t}, retries |-> 0, aged |-> FALSE]

\* Mutant: one entry more than the capacity.
MustEvictLate == Len(pending) > MAX_PENDING_SIZE

MustEvict == Len(pending) >= MAX_PENDING_SIZE

\* A new entry; when the map is full the oldest one makes room for it.
Insert(c, t) ==
    IF MustEvict
    THEN /\ pending' = Append(Tail(pending), NewEntry(c, t))
         /\ passes' = {[p EXCEPT !.visited = IF p.visited = 0 THEN 0 ELSE @ - 1,
                                 !.detached = @ \/ p.visited = 1] : p \in passes}
    ELSE /\ pending' = Append(pending, NewEntry(c, t))
         /\ UNCHANGED passes

\* Mutant: a codigo may get a second entry.
AddPendingUnmerged(c, t) ==
    /\ Insert(c, t)
    /\ UNCHANGED <<ticking, retrying, delivered>>

AddPending(c, t) ==
    /\ IF c \in Keys THEN Merge(c, t) ELSE Insert(c, t)
    /\ UNCHANGED <<ticking, retrying, delivered>>

-----------------------------------------------------------------------------
(***************************************************************************)
(* The retry loop                                                          *)
(***************************************************************************)
Visited(e) == [e EXCEPT !.retries = @ + 1]

GivenUp(e) == e.retries > MAX_RETRIES \/ e.aged

\* From map s with v entries visited, pass over the next n, whose builders all
\* return null, and give up on the spent ones among them.
PassedOver(s, v, n) ==
    LET visited == [i \in 1..n |-> Visited(s[v + i])]
    IN  Kept(visited, {i \in 1..n : ~GivenUp(visited[i])})

PassEnds(s, v, others) ==
    /\ pending' = SubSeq(s, 1, v) \o PassedOver(s, v, Len(s) - v)
    /\ passes' = others
    /\ retrying' = FALSE

\* The pass is suspended at the first type that its builder has a payload for.
PassDispatches(s, v, others) ==
    \E n \in 0..(Len(s) - v - 1) :
        LET entry  == Visited(s[v + n + 1])
            before == SubSeq(s, 1, v) \o PassedOver(s, v, n)
        IN  /\ ~GivenUp(entry)
            /\ \E tried \in SUBSET entry.types : \E t \in tried :
                  /\ pending' = Append(before, entry)
                                    \o SubSeq(s, v + n + 2, Len(s))
                  /\ passes' = others \cup
                         {[visited |-> Len(before) + 1, type |-> t, tried |-> tried,
                           entry |-> entry, detached |-> FALSE]}
                  /\ retrying' = TRUE

VisitNext(s, v, others) == PassEnds(s, v, others) \/ PassDispatches(s, v, others)

\* Mutant: the flag `retrying` is not looked at.
TickOverlapping ==
    /\ ticking
    /\ pending # <<>>
    /\ VisitNext(pending, 0, passes)
    /\ UNCHANGED <<ticking, delivered>>

Tick ==
    /\ ticking
    /\ ~retrying
    /\ pending # <<>>
    /\ VisitNext(pending, 0, passes)
    /\ UNCHANGED <<ticking, delivered>>

\* Mutant: the type is dropped when the dispatch fails, too.
AfterAnyDispatch(p, ok) ==
    [p EXCEPT !.entry.types = @ \ {p.type}, !.tried = @ \ {p.type}]

\* What the dispatch that pass p awaits leaves of its entry, and what the pass
\* has tried of it.
AfterDispatch(p, ok) ==
    IF ok THEN [p EXCEPT !.entry.types = @ \ {p.type},
                         !.tried = @ \ {p.type}]
          ELSE p

Stored(s, q) ==
    IF q.detached THEN s ELSE [s EXCEPT ![q.visited] = q.entry]

\* The builder of another type of the entry has a payload.
NextType(s, q, others) ==
    \E tried \in SUBSET (q.entry.types \ q.tried) : \E t \in tried :
        LET r == [q EXCEPT !.type = t, !.tried = @ \cup tried]
        IN  /\ pending' = Stored(s, r)
            /\ passes' = others \cup {r}
            /\ UNCHANGED retrying

Deleted(s, c) == Kept(s, {i \in DOMAIN s : s[i].codigo # c})

\* Mutant: after a deletion the pass goes on one place further, as a cursor into an
\* array would.
EntryEndsSkipping(s, q, others) ==
    LET left == IF q.entry.types # {} THEN Stored(s, q) ELSE Deleted(s, q.entry.codigo)
    IN  VisitNext(left, IF q.visited > Len(left) THEN Len(left) ELSE q.visited, others)

\* None has: an entry left without types is deleted, by its codigo, and the pass
\* goes on.
EntryEnds(s, q, others) ==
    IF q.entry.types # {}
    THEN VisitNext(Stored(s, q), q.visited, others)
    ELSE VisitNext(Deleted(s, q.entry.codigo),
                   IF q.detached THEN q.visited ELSE q.visited - 1,
                   others)

DispatchEnds(p, ok) ==
    LET q == AfterDispatch(p, ok)
    IN  /\ \/ NextType(pending, q, passes \ {p})
           \/ EntryEnds(pending, q, passes \ {p})
        /\ delivered' = ok
        /\ UNCHANGED ticking

\* stopRetryLoop(): no further pass begins; one that runs goes on.
StopRetryLoop ==
    /\ ticking
    /\ ticking' = FALSE
    /\ UNCHANGED <<pending, retrying, passes, delivered>>

\* An entry gets older than MAX_AGE_MS.  The retries of an idle loop are over
\* sooner, so it takes a pass that is held up by its requests.
Ages(i) ==
    /\ retrying
    /\ ~pending[i].aged
    /\ pending' = [pending EXCEPT ![i].aged = TRUE]
    /\ passes' = {IF p.visited = i /\ ~p.detached THEN [p EXCEPT !.entry.aged = TRUE]
                  ELSE p : p \in passes}
    /\ UNCHANGED <<ticking, retrying, delivered>>

Next ==
    \/ \E c \in Codigos, t \in PayloadTypes : AddPending(c, t)
    \/ Tick
    \/ \E p \in passes, ok \in BOOLEAN : DispatchEnds(p, ok)
    \/ StopRetryLoop
    \/ \E i \in DOMAIN pending : Ages(i)

\* The interval fires again and again, and a request ends within its timeout.
Fairness ==
    /\ WF_vars(Tick)
    /\ WF_vars(\E p \in passes, ok \in BOOLEAN : DispatchEnds(p, ok))

Spec == Init /\ [][Next]_vars /\ Fairness

-----------------------------------------------------------------------------
(***************************************************************************)
(* Safety                                                                  *)
(***************************************************************************)

\* The interval never starts a pass beside one suspended at a dispatch, and the
\* flag tells whether one is.
PassesDoNotOverlap ==
    /\ retrying <=> passes # {}
    /\ \A p, q \in passes : p = q

\* The map never holds more than MAX_PENDING_SIZE entries.
WithinCapacity == Len(pending) <= MAX_PENDING_SIZE

\* A pass that was not overtaken by an eviction is at an entry of the map, the
\* last of those it visited: no addPending() moves it off its place.
PassKeepsItsPlace ==
    \A p \in passes : ~p.detached =>
        /\ p.visited \in DOMAIN pending
        /\ pending[p.visited] = p.entry

Requests(s) == UNION {{s[i].codigo} \X s[i].types : i \in DOMAIN s}

Spent(r) == \E i \in DOMAIN pending :
                /\ pending[i].codigo = r[1]
                /\ pending[i].retries >= MAX_RETRIES \/ pending[i].aged

Oldest(r) == MustEvict /\ r[1] = Head(pending).codigo

\* A request leaves the buffer for a reason: its entry has been retried often
\* enough or is too old, or is the oldest of a full map, or a dispatch of the
\* same codigo and type has succeeded.  Excepted is an entry put in after one of
\* the same codigo was evicted under a pass: that pass deletes it.
RequestsLeaveForAReason ==
    [][\A r \in Requests(pending) \ Requests(pending') :
          \/ Spent(r)
          \/ Oldest(r)
          \/ \E p \in passes : /\ p.entry.codigo = r[1]
                               /\ (p.type = r[2] /\ delivered') \/ p.detached]_vars

\* A step of the retry loop.
RetryStep == Tick \/ \E p \in passes, ok \in BOOLEAN : DispatchEnds(p, ok)

\* Entries leave the map, but those that stay keep their turn, for the next pass and
\* for the next eviction, whatever is merged, put in, evicted or deleted under a
\* pass; and a pass skips none of them, nor visits one twice: it counts one retry
\* for each that it goes by.  Nothing else changes that count.
EntriesKeepTheirTurn ==
    [][\A i \in DOMAIN pending, k \in DOMAIN pending' :
          pending'[k].codigo = pending[i].codigo =>
          /\ \A j \in DOMAIN pending, l \in DOMAIN pending' :
                 pending'[l].codigo = pending[j].codigo /\ i < j => k < l
          /\ pending'[k].retries = pending[i].retries +
                 IF /\ \A p \in passes : i > p.visited
                    /\ \A p \in passes' : k <= p.visited
                    /\ RetryStep
                 THEN 1 ELSE 0]_vars

(***************************************************************************)
(* Liveness                                                                *)
(***************************************************************************)

\* No codigo stays in the buffer for ever, however often it is added again while
\* it is there: unless the loop is stopped, or a pass never ends because the
\* types it has just dispatched keep being added back to the entry it is at.
EntriesLeave ==
    []<>(~retrying) => \A c \in Codigos : c \in Keys ~> (c \notin Keys \/ ~ticking)
=============================================================================
