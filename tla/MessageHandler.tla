--------------------------- MODULE MessageHandler ---------------------------
(***************************************************************************)
(* From a live change to its payloads, for one codigo: the message handler *)
(* (kafka/message-handler.ts) updates the store, finds the types that the  *)
(* change affects and enqueues them; the debouncer or, after a null, the   *)
(* pending buffer calls the builder, at any later time.  When they do, and *)
(* what becomes of the request, is the matter of CdcDebouncer and          *)
(* PendingBuffer: here a type that has been enqueued is "wanted" until a   *)
(* payload of it is sent or it is given up.                                *)
(***************************************************************************)
EXTENDS BulkHandlers, FiniteSets, Naturals

CONSTANTS
    Contents,       \* the rows that each table can hold
    MaxRows         \* bound: rows of an array table

\* The indmod of an agreement, which no one trims, has no padding: it is the flag "M" or
\* another.
ASSUME HandlerAssumption ==
    /\ DOMAIN Contents = Tables
    /\ \A table \in Tables : \A r \in Contents[table] :
          /\ WatchedFields(table) \subseteq DOMAIN r
          /\ \A f \in DOMAIN r : DOMAIN r[f] = {"text", "pad"}
    /\ \A r \in Contents["gvenacuh"] : ~r["indmod"].pad
    /\ MaxRows \in Nat \ {0}

VARIABLES
    store,
    wanted,         \* types in the debouncer's or the pending buffer
    upToDate        \* history: types whose last payload sent is the one due

vars == <<store, wanted, upToDate>>

TypeOK ==
    /\ store \in [Tables -> SUBSET UNION {Contents[table] : table \in Tables}]
    /\ \A table \in Tables : store[table] \subseteq Contents[table]
    /\ \A table \in SingleTables : \A r, q \in store[table] : r = q
    /\ wanted \subseteq PayloadTypes
    /\ upToDate \subseteq PayloadTypes

Init ==
    /\ store = [table \in Tables |-> {}]
    /\ wanted = {}
    /\ upToDate = {}

\* What the API is to know of the codigo: its payload, if its codare is registered
\* for the type or the type is exempt.
Due(type, s) ==
    IF type \in CodareExempt \/ Admitted(type, s) THEN Build(type, s) ELSE {}

-----------------------------------------------------------------------------
\* Mutant: the types are filtered with the record that the event found.
HandleFilteredEarly(table, op, before, after) ==
    LET types == AffectedTypes(table, ChangedFields(table, op, before, after))
    IN  /\ store' = Updated(store, table, op, before, after)
        /\ wanted' = wanted \cup Filtered(store, types)
        /\ upToDate' = {t \in upToDate : Due(t, store') = Due(t, store)}

\* The handler of one live event.  The filter reads the updated store.
Handle(table, op, before, after) ==
    LET types == AffectedTypes(table, ChangedFields(table, op, before, after))
    IN  /\ store' = Updated(store, table, op, before, after)
        /\ wanted' = wanted \cup Filtered(store', types)
        /\ upToDate' = {t \in upToDate : Due(t, store') = Due(t, store)}

\* External: the source table.  Its rows differ in more than padding.
Fits(table, rows, r) ==
    /\ table \in SingleTables => rows = {}
    /\ Cardinality(rows) < MaxRows
    /\ \A q \in rows : ~RecordsMatch(q, r)

Insert(table) ==
    \E after \in Contents[table] :
        /\ Fits(table, store[table], after)
        /\ Handle(table, "c", after, after)

\* A row that a snapshot reads again.
Read(table) == \E after \in store[table] : Handle(table, "r", after, after)

Update(table) ==
    \E before \in store[table], after \in Contents[table] :
        /\ before # after
        /\ Fits(table, store[table] \ {before}, after)
        /\ Handle(table, "u", before, after)

Delete(table) == \E before \in store[table] : Handle(table, "d", before, before)

\* The builder gives a payload, and it is sent.
Send(type) ==
    /\ type \in wanted
    /\ Build(type, store) # {}
    /\ wanted' = wanted \ {type}
    /\ upToDate' = IF Build(type, store) = Due(type, store) THEN upToDate \cup {type}
                   ELSE upToDate \ {type}
    /\ UNCHANGED store

\* The builder gives null once too often.
GiveUp(type) ==
    /\ type \in wanted
    /\ Build(type, store) = {}
    /\ wanted' = wanted \ {type}
    /\ UNCHANGED <<store, upToDate>>

Next ==
    \/ \E table \in Tables : Insert(table) \/ Read(table) \/ Update(table) \/ Delete(table)
    \/ \E type \in PayloadTypes : Send(type) \/ GiveUp(type)

Spec == Init /\ [][Next]_vars

-----------------------------------------------------------------------------
(***************************************************************************)
(* Safety                                                                  *)
(***************************************************************************)

\* No change is overlooked: whenever what the API is to know of the codigo is not
\* what was last sent, the type is wanted.  This holds for every order in which the
\* rows of the three tables and the codare arrive, and although the pending buffer
\* gives a type up: what completes the record enqueues it again.
ChangesAreWanted ==
    \A t \in PayloadTypes : Due(t, store) # {} => t \in wanted \cup upToDate

\* A bulk synchronisation has nothing to add to the changes: what it sends is the due
\* payload, and that the changes have sent last, or are about to.  (They may also have
\* sent what it would not, a payload that was not due.)  What it skips it reports, and
\* its checks leave the builder nothing to refuse.  One of all codigos leaves none out
\* that has something to send, except agreements that come without a ctercero record.
SyncMatchesChanges ==
    \A t \in PayloadTypes :
        LET result == SyncAll(t, store)
        IN  /\ result.items = Due(t, store)
            /\ result.items # {} => t \in wanted \cup upToDate
            /\ result.items = {} <=> result.skipped # None
            /\ result.skipped # "Builder returned null"
            /\ result.items # {} => Listed(store) \/ t = "agreement"

\* What the API knows an item by when it is deleted.
Name(type, item) == CASE type = "supplier"  -> "CodSupplier"
                      [] type = "contact"   -> item.NIF
                      [] type = "agreement" -> item.CodAgreement

\* What has been synchronised can be deleted: each item due is named to the API, or its
\* codigo reported for want of a NIF; but an agreement that was sent with a blank
\* CodAgreement is dropped without a word (agreement-handler.ts:47).
DeleteReachesSynced ==
    \A t \in PayloadTypes : \A item \in Due(t, store) :
        LET result == DeleteAll(t, store)
        IN  \/ Name(t, item) \in result.items
            \/ t = "contact" /\ item.NIF = Null /\ result.skipped = "cif"
            \/ t = "agreement" /\ item.CodAgreement = Blank

\* README.md:314 says that only a codigo with a registered codare generates payloads.
\* The filter is applied when a change is enqueued: a type may be enqueued before the
\* ctercero record is there, or before its codare changes.
OnlyRegisteredCodare ==
    [][\A t \in PayloadTypes : Send(t) => Due(t, store) # {}]_vars
=============================================================================
