---------------------------- MODULE MCLocalRunner ---------------------------
(* A verified step that must not be repeated, a verified retry-safe one, and *)
(* one whose adapter a process lacks.                                        *)
EXTENDS LocalRunner

CONSTANTS p1, p2, specA, specB

MCMaxAttempts == [s \in Steps |-> IF s \in RetrySafe THEN 2 ELSE 1]
MCUnregistered == [p \in Processes |-> IF p = p2 THEN {3} ELSE {}]
=============================================================================
