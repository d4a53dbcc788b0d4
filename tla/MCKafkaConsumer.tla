-------------------------- MODULE MCKafkaConsumer --------------------------
(* Constants for checking KafkaConsumer: the two topics of single_store,   *)
(* of one partition each; and a specification with stops the main one      *)
(* leaves out.                                                             *)
EXTENDS KafkaConsumer

CONSTANTS k1, k2

MCPartitions == {<<"ctercero", 0>>, <<"gproveed", 0>>}
MCRows == {<<<<"ctercero", 0>>, k1>>, <<<<"ctercero", 0>>, k2>>, <<<<"gproveed", 0>>, k1>>}
MCMaxLog == [p \in MCPartitions |-> IF p[1] = "ctercero" THEN 3 ELSE 1]

\* The process may die at any time, also when it is not Undisturbed.
CrashAnyTime ==
    Init /\ [][Next \/ Crash \/ \E p \in Partitions : HandleInterrupted(p)]_vars
=============================================================================
