------------------------------- MODULE Outbox -------------------------------
(***************************************************************************)
(* What the debouncer promises to those who call enqueue(), without its    *)
(* buffer, timer, batches and flushes: each change that is asked for is    *)
(* settled - dispatched, or handed over to the retries - in the order of   *)
(* the changes, with nothing older than what was asked for.  CdcDebouncer  *)
(* implements it.                                                          *)
(***************************************************************************)
EXTENDS Integers

CONSTANTS
    Codigos,        \* business keys that change
    Entries,        \* pairs <<codigo, payload type>>
    Slots,          \* pairs <<entry, element>>: the items to be sent
    MaxChanges      \* bound: changes per codigo

VARIABLES
    store,      \* store[c]: changes of c so far; a version of c is one of 0 .. store[c]
    need,       \* need[e]: version of its codigo when entry e was last asked for
    settled,    \* settled[s]: version of item s settled last
    delivered,  \* delivered[s]: version of item s the API has from here
    late,       \* pairs <<s, version>> given up that may still reach the API
    open        \* the promise holds: no shutdown has begun

vars == <<store, need, settled, delivered, late, open>>

Init ==
    /\ store = [c \in Codigos |-> 0]
    /\ need = [e \in Entries |-> 0]
    /\ settled = [s \in Slots |-> 0]
    /\ delivered = [s \in Slots |-> 0]
    /\ late = {}
    /\ open = TRUE

-----------------------------------------------------------------------------
\* The entries `asked` of codigo c are to be sent with its new version.
Change(c, asked) ==
    /\ store' = [store EXCEPT ![c] = @ + 1]
    /\ need' = [e \in Entries |-> IF e \in asked THEN store[c] + 1 ELSE need[e]]

\* Items are settled with what the store holds, or held since they were settled last.
Settle ==
    \A s \in Slots : settled'[s] # settled[s] =>
        settled'[s] \in settled[s] .. store'[s[1][1]]

\* The API gets items as they are settled, and then never one older than it has; or
\* late, when it may have a newer one.  Late is only what was settled.
Deliver ==
    /\ \A s \in Slots : delivered'[s] # delivered[s] =>
          \/ delivered'[s] > delivered[s] /\ delivered'[s] = settled'[s]
          \/ <<s, delivered'[s]>> \in late
    /\ \A given \in late' \ late : given[2] = settled'[given[1]]

Close == open' => open

\* A change may settle, in the same step, what it finds waiting.
Next ==
    /\ \/ UNCHANGED <<store, need>>
       \/ \E c \in Codigos : \E asked \in SUBSET {e \in Entries : e[1] = c} :
             Change(c, asked)
    /\ Settle
    /\ Deliver
    /\ Close

Safety == Init /\ [][Next]_vars

\* Whatever is asked for is settled, all its items with that version or newer ones, while
\* open.
Promise ==
    \A e \in Entries : \A n \in 1 .. MaxChanges[e[1]] :
        need[e] >= n ~> (\A s \in Slots : s[1] = e => settled[s] >= n) \/ ~open

Spec == Safety /\ Promise
=============================================================================
