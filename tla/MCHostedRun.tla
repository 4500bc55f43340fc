---------------------------- MODULE MCHostedRun -----------------------------
(* Two runs given the same worker id, as after a restart of the host while *)
(* the first process is still alive, and one trusted task.                 *)
EXTENDS HostedRun, TLC

CONSTANTS t1, t2, w1, r1, r2

MCMaxAttempts == [t \in TaskIds |-> 2]
MCWorkerId == [r \in Runs |-> w1]
MCExpected == [r \in Runs |-> t1]
MCClaims == [r \in Runs |-> TaskIds]
MCProgress == {"unstarted", "attempted", "verified"}
MCActivities == [task : TaskIds, event_type : EvidenceTypes, verified : BOOLEAN,
                 generation : 1..MaxRevision, revision : 1..MaxRevision]
MCSymmetry == Permutations({r1, r2})
=============================================================================
