------------------------------ MODULE Batching ------------------------------
(***************************************************************************)
(* Arrays are sent in chunks of BULK_BATCH_SIZE, by the debouncer          *)
(* (dispatch/cdc-debouncer.ts) and by the bulk service                     *)
(* (bulk/bulk-service.ts).  An array is abstracted to the set of its       *)
(* items: in which order they come is left open.                           *)
(***************************************************************************)
EXTENDS Integers, FiniteSets

CONSTANT BatchSize      \* BULK_BATCH_SIZE, in items

ASSUME BatchAssumption == BatchSize \in Nat \ {0}

\* Mutant: the array is sent whole.
BatchesWhole(items) == {items}

\* The chunks that arr.slice(i, i + batchSize) may cut next from an array.
Batches(items) ==
    {b \in SUBSET items : IF Cardinality(items) <= BatchSize
                          THEN b = items
                          ELSE Cardinality(b) = BatchSize}
=============================================================================
