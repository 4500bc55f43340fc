---------------------------- MODULE MCAgentQueue ----------------------------
(* AgentQueue with one task, two workers and an attempt budget of two. *)
EXTENDS AgentQueue, TLC

CONSTANTS t1, w1, w2

MCMaxAttempts == [t \in TaskIds |-> 2]
MCActivities == {[task |-> t1, event_type |-> "activity", worker |-> NoWorker,
                  generation |-> 0, revision |-> 0, status |-> "queued"]}
MCSymmetry == Permutations({w1, w2})
=============================================================================
