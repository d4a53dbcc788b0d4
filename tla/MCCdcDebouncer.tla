--------------------------- MODULE MCCdcDebouncer ---------------------------
(* Constants for checking CdcDebouncer.                                    *)
EXTENDS CdcDebouncer

CONSTANTS a, b

MCElementsOf == [t \in {"supplier", "contact"} |->
                    IF t = "supplier" THEN {1} ELSE {1, 2}]

\* One item per entry: what tells the entries of a codigo apart is their type.
MCSingleElements == [t \in {"supplier", "contact"} |-> {1}]

MCMaxChanges == [c \in {a, b} |-> IF c = a THEN 2 ELSE 1]
=============================================================================
