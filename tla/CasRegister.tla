---------------------------- MODULE CasRegister ----------------------------
(***************************************************************************)
(* What a durable secret backend promises about one versioned record       *)
(* (the protocol DurableSecretBackend): compare_and_swap is applied        *)
(* atomically and only on top of the version it expects, and what the      *)
(* caller is told is never wrong.                                          *)
(*                                                                         *)
(*   ok           the replacement was applied;                             *)
(*   conflict     it was not and never will be: the version has moved on;  *)
(*   unavailable  it was not and never will be;                            *)
(*   ambiguous    it may have been, or may still be, applied.              *)
(***************************************************************************)
EXTENDS Integers

CONSTANT Calls          \* calls of compare_and_swap

VARIABLES
    version,            \* of the record
    expected,           \* the version each call expects
    applied,            \* the calls whose replacement was applied
    outcome             \* what the caller was told

casVars == <<version, expected, applied, outcome>>

NotCalled == -1

CasInit ==
    /\ version = 0
    /\ expected = [c \in Calls |-> NotCalled]
    /\ applied = {}
    /\ outcome = [c \in Calls |-> "pending"]

\* The caller replaces the record it has just read.
Invoke(c) ==
    /\ expected[c] = NotCalled
    /\ expected' = [expected EXCEPT ![c] = version]
    /\ UNCHANGED <<version, applied, outcome>>

Apply(c) ==
    /\ c \notin applied
    /\ expected[c] = version
    /\ outcome[c] \in {"pending", "ambiguous"}
    /\ version' = version + 1
    /\ applied' = applied \cup {c}
    /\ UNCHANGED <<expected, outcome>>

Answer(c, o) ==
    /\ expected[c] # NotCalled
    /\ outcome[c] = "pending"
    /\ o = "ok" => c \in applied
    /\ o \in {"conflict", "unavailable"} => c \notin applied
    /\ o = "conflict" => expected[c] < version
    /\ outcome' = [outcome EXCEPT ![c] = o]
    /\ UNCHANGED <<version, expected, applied>>

CasNext ==
    \E c \in Calls :
        \/ Invoke(c)
        \/ Apply(c)
        \/ \E o \in {"ok", "conflict", "unavailable", "ambiguous"} : Answer(c, o)

CasSpec == CasInit /\ [][CasNext]_casVars
=============================================================================
