---------------------------- MODULE MCTrustedRun ----------------------------
(* Three hosts, two of them authorised for the same instance, and one call *)
(* of the coordinator.                                                     *)
EXTENDS TrustedRun, TLC

CONSTANTS t1, t2, h1, h2, h3, i1, w1, w2, w3, w4

MCMaxAttempts == [t \in TaskIds |-> 2]
MCTarget == [h \in Hosts |-> IF h = h3 THEN t2 ELSE t1]
MCWorkerOf == (h1 :> w1) @@ (h2 :> w2) @@ (h3 :> w3) @@ (i1 :> w4)
MCProgress == {"unstarted", "attempted"}
=============================================================================
