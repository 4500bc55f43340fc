-------------------------- MODULE TrustedRunProofs --------------------------
(***************************************************************************)
(* Approved run instances for any number of hosts and coordinators, any    *)
(* lease length and any order of creates, claims, deaths and requeues.     *)
(* Every step of the composition is a step of the queue, so the queue's    *)
(* invariant carries over; TrustedInv adds what each host knows of it.     *)
(***************************************************************************)
EXTENDS TrustedRun, AgentQueueProofs, TLAPS

HostPcs == {"start", "create", "reread", "queued", "used", "slot_taken", "claimed", "running",
            "unclaimed", "ended", "dead"}
InspectorPcs == {"idle", "claimed", "logged", "returned", "raised"}
HostState == [pc : HostPcs, row : Row]
InspectorState == [pc : InspectorPcs, task : TaskIds \cup {Absent}, row : Row]
Execution == [host : Hosts, task : TaskIds, generation : Nat]

\* The types of the calls' local states and of the history.
TrustedTypeOK ==
    /\ host \in [Hosts -> HostState]
    /\ inspector \in [Inspectors -> InspectorState]
    /\ executions \subseteq Execution
    /\ \A i \in Inspectors :
          inspector[i].pc \in {"claimed", "logged"} => inspector[i].task \in TaskIds

\* The row a host's claim returned: its generation counts the attempts, was
\* handed out, and was handed out to no other host.
ClaimInv ==
    \A h \in Hosts : host[h].pc = "claimed" =>
        /\ host[h].row.lease_generation = host[h].row.attempt_count
        /\ host[h].row.lease_generation <= tasks[Target[h]].lease_generation
        /\ \A k \in Hosts :
              /\ host[k].pc = "claimed" /\ Target[k] = Target[h]
              /\ host[k].row.lease_generation = host[h].row.lease_generation
              => k = h

\* An execution is that of generation 1, which the ledger gives to its host, and
\* nobody else is about to execute under it.
ExecutionInv ==
    \A e \in executions :
        /\ e.task = Target[e.host]
        /\ e.generation = 1
        /\ 1 <= tasks[e.task].lease_generation
        /\ \E l \in LeaseLog : /\ l.task = e.task /\ l.generation = 1
                               /\ l.worker = WorkerOf[e.host]
        /\ \A h \in Hosts : host[h].pc = "claimed" /\ Target[h] = e.task =>
              host[h].row.lease_generation # 1

\* The inductive invariant.
TrustedInv ==
    /\ QueueInv
    /\ CountersBounded
    /\ TrustedTypeOK
    /\ ClaimInv
    /\ ExecutionInv
    /\ InstanceRunsOnce

-----------------------------------------------------------------------------

\* The initial state: nobody has claimed anything.
LEMMA TrustedInitInv == TrustedInit => TrustedInv
<1>. SUFFICES ASSUME TrustedInit PROVE TrustedInv
  OBVIOUS
<1>1. QueueInv /\ CountersBounded
  BY InitInv, CountersBoundedInit DEF TrustedInit
<1>2. NewRow \in Row
  BY QueueAssumption DEF NewRow, Row, Statuses, NoTime
<1>3. TrustedTypeOK
  BY <1>2 DEF TrustedInit, TrustedTypeOK, HostState, HostPcs, InspectorState, InspectorPcs
<1>4. ClaimInv /\ ExecutionInv /\ InstanceRunsOnce
  BY DEF TrustedInit, ClaimInv, ExecutionInv, InstanceRunsOnce
<1>. QED
  BY <1>1, <1>3, <1>4 DEF TrustedInv

\* A save under the lease of a claimed row is a step of the queue.
LEMMA SaveLeaseQueue ==
    ASSUME QueueInv, CountersBounded, NEW x \in Hosts \cup Inspectors, NEW row \in Row,
           NEW t \in TaskIds, NEW status \in LeasedSaveStatuses, NEW p \in Progress,
           SaveLease(x, row, t, status, p)
    PROVE  SaveLeased
<1>1. LeaseLength \in LeaseSeconds /\ WorkerOf[x] \in Workers
  BY TrustedRunAssumption
<1>. QED
  BY <1>1, AcceptedSaveLeased DEF SaveLease

\* A step of the queue under which no host gets a row or begins to execute.
LEMMA QuietStep ==
    ASSUME TrustedInv, [QueueNext]_queueVars, executions' = executions, TrustedTypeOK',
           \A h \in Hosts : host'[h].pc = "claimed" =>
               host[h].pc = "claimed" /\ host'[h].row = host[h].row
    PROVE  TrustedInv'
<1>1. QueueInv' /\ CountersBounded'
  BY QueueNextInv, CountersBoundedStep DEF TrustedInv
<1>2. /\ LeaseLog \subseteq LeaseLog'
      /\ \A t \in TaskIds : tasks[t].lease_generation <= tasks'[t].lease_generation
  BY QueueGrows DEF TrustedInv
<1>3. \A t \in TaskIds : tasks[t].lease_generation \in Nat /\ tasks'[t].lease_generation \in Nat
  BY <1>1 DEF TrustedInv, QueueInv, QueueTypeOK, Row
<1>4. ClaimInv'
  <2>. SUFFICES ASSUME NEW h \in Hosts, host'[h].pc = "claimed"
                PROVE  /\ host'[h].row.lease_generation = host'[h].row.attempt_count
                       /\ host'[h].row.lease_generation <= tasks'[Target[h]].lease_generation
                       /\ \A k \in Hosts :
                             /\ host'[k].pc = "claimed" /\ Target[k] = Target[h]
                             /\ host'[k].row.lease_generation = host'[h].row.lease_generation
                             => k = h
    BY DEF ClaimInv
  <2>1. host[h].pc = "claimed" /\ host'[h].row = host[h].row /\ Target[h] \in TaskIds
    BY TrustedRunAssumption, QueueAssumption
  <2>2. host[h].row.lease_generation \in Nat
    BY DEF TrustedInv, TrustedTypeOK, HostState, Row
  <2>. QED
    BY <1>2, <1>3, <2>1, <2>2 DEF TrustedInv, ClaimInv
<1>5. ExecutionInv'
  <2>. SUFFICES ASSUME NEW e \in executions
                PROVE  /\ e.task = Target[e.host]
                       /\ e.generation = 1
                       /\ 1 <= tasks'[e.task].lease_generation
                       /\ \E l \in LeaseLog' : /\ l.task = e.task /\ l.generation = 1
                                               /\ l.worker = WorkerOf[e.host]
                       /\ \A h \in Hosts : host'[h].pc = "claimed" /\ Target[h] = e.task =>
                             host'[h].row.lease_generation # 1
    BY DEF ExecutionInv
  <2>1. e.task \in TaskIds
    BY DEF TrustedInv, TrustedTypeOK, Execution
  <2>. QED
    BY <1>2, <1>3, <2>1 DEF TrustedInv, ExecutionInv
<1>6. InstanceRunsOnce'
  BY DEF TrustedInv, InstanceRunsOnce
<1>. QED
  BY <1>1, <1>4, <1>5, <1>6 DEF TrustedInv

-----------------------------------------------------------------------------
(* The steps of a host *)

\* What is known of a host.
LEMMA HostFacts ==
    ASSUME TrustedInv, NEW h \in Hosts
    PROVE  /\ host \in [Hosts -> HostState]
           /\ host[h].row \in Row /\ host[h].row.state \in Progress
           /\ Target[h] \in TaskIds
BY TrustedRunAssumption, QueueAssumption DEF TrustedInv, TrustedTypeOK, HostState, Row

\* A host moves on, to anything but a claimed row.
LEMMA MoveTyped ==
    ASSUME TrustedInv, NEW h \in Hosts, NEW pc \in HostPcs \ {"claimed"}, Move(h, pc),
           executions' = executions, inspector' = inspector
    PROVE  /\ TrustedTypeOK'
           /\ \A k \in Hosts : host'[k].pc = "claimed" =>
                 host[k].pc = "claimed" /\ host'[k].row = host[k].row
<1>1. /\ host' \in [Hosts -> HostState]
      /\ host'[h].pc = pc
      /\ \A k \in Hosts \ {h} : host'[k] = host[k]
  BY HostFacts DEF Move, HostState
<1>. QED
  BY <1>1 DEF TrustedInv, TrustedTypeOK

\* Every step of run_once but the claim and the first save moves the host on.
LEMMA HostMoves ==
    ASSUME TrustedInv, NEW h \in Hosts,
           \/ GetExisting(h) \/ GetMissing(h) \/ CreateInstance(h) \/ CreateConflict(h)
           \/ SlotTaken(h) \/ CreateLost(h) \/ ClaimNothing(h) \/ Finish(h) \/ HostDies(h)
    PROVE  /\ \E pc \in HostPcs \ {"claimed"} : Move(h, pc)
           /\ executions' = executions /\ inspector' = inspector
           /\ [QueueNext]_queueVars
<1>1. CASE GetExisting(h)
  BY <1>1, Zenon DEF GetExisting, HostPcs
<1>2. CASE GetMissing(h) \/ CreateConflict(h) \/ SlotTaken(h) \/ CreateLost(h) \/ ClaimNothing(h)
           \/ HostDies(h)
  BY <1>2 DEF GetMissing, CreateConflict, SlotTaken, CreateLost, ClaimNothing, HostDies, HostPcs
<1>3. CASE CreateInstance(h)
  <2>1. Create
    BY <1>3, HostFacts DEF CreateInstance, Create
  <2>. QED
    BY <1>3, <2>1 DEF CreateInstance, HostPcs, QueueNext
<1>4. CASE Finish(h)
  <2>1. PICK status \in {"completed", "blocked"} :
          SaveLease(h, host[h].row, Target[h], status, host[h].row.state)
    BY <1>4 DEF Finish
  <2>2. status \in LeasedSaveStatuses
    BY DEF LeasedSaveStatuses
  <2>3. SaveLeased
    BY <2>1, <2>2, HostFacts, SaveLeaseQueue DEF TrustedInv
  <2>. QED
    BY <1>4, <2>3 DEF Finish, HostPcs, QueueNext
<1>. QED
  BY <1>1, <1>2, <1>3, <1>4

\* ClaimTarget: the generation the host gets is new.
LEMMA ClaimTargetInv ==
    ASSUME TrustedInv, NEW h \in Hosts, ClaimTarget(h)
    PROVE  TrustedInv' /\ Claim
<1>1. PICK v \in ClockReadings : agent_claim_task(Target[h], WorkerOf[h], LeaseLength, v)
  BY DEF ClaimTarget
<1>2. PICK t \in TaskIds : t = Target[h]
  BY HostFacts
<1>3. /\ Claim /\ tasks'[t] \in Row
      /\ tasks'[t].lease_generation = tasks[t].lease_generation + 1
      /\ \A u \in TaskIds \ {t} : tasks'[u] = tasks[u]
  BY <1>1, <1>2, AcceptedClaim, TrustedRunAssumption DEF TrustedInv
<1>4. QueueInv' /\ CountersBounded' /\ LeaseLog \subseteq LeaseLog'
  BY <1>3, QueueNextInv, CountersBoundedStep, QueueGrows DEF TrustedInv, QueueNext
<1>5. PICK row \in Row : row = tasks'[t]
  BY <1>3
<1>6. /\ host' \in [Hosts -> HostState]
      /\ host'[h].pc = "claimed" /\ host'[h].row = row
      /\ \A k \in Hosts \ {h} : host'[k] = host[k]
  <2>1. host' = [host EXCEPT ![h].pc = "claimed", ![h].row = row]
    BY <1>2, <1>5 DEF ClaimTarget
  <2>2. "claimed" \in HostPcs
    BY DEF HostPcs
  <2>. QED
    BY <2>1, <2>2, HostFacts DEF HostState
<1>7. inspector' = inspector /\ executions' = executions
  BY DEF ClaimTarget
<1>8. TrustedTypeOK'
  BY <1>6, <1>7 DEF TrustedInv, TrustedTypeOK
<1>9. PICK g \in Nat : g = tasks[t].lease_generation /\ row.lease_generation = g + 1
  BY <1>3, <1>5 DEF TrustedInv, QueueInv, QueueTypeOK, Row
<1>10. \A k \in Hosts \ {h} : host[k].pc = "claimed" =>
          /\ host[k].row.lease_generation \in Nat
          /\ host[k].row.lease_generation <= tasks[Target[k]].lease_generation
          /\ Target[k] \in TaskIds
  BY HostFacts DEF TrustedInv, ClaimInv, Row
<1>11. ClaimInv'
  <2>1. row.lease_generation = row.attempt_count
    BY <1>4, <1>5 DEF QueueInv, GenerationCountsAttempts
  <2>2. \A k \in Hosts \ {h} : host[k].pc = "claimed" =>
           host[k].row.lease_generation <= tasks'[Target[k]].lease_generation
    BY <1>3, <1>9, <1>10
  <2>3. \A k \in Hosts \ {h} : host[k].pc = "claimed" /\ Target[k] = t =>
           host[k].row.lease_generation # row.lease_generation
    BY <1>9, <1>10
  <2>4. row.lease_generation <= tasks'[Target[h]].lease_generation
    BY <1>2, <1>5, <1>9
  <2>. QED
    BY <1>2, <1>6, <2>1, <2>2, <2>3, <2>4 DEF TrustedInv, ClaimInv
<1>12. ExecutionInv'
  <2>. SUFFICES ASSUME NEW e \in executions
                PROVE  /\ e.task = Target[e.host]
                       /\ e.generation = 1
                       /\ 1 <= tasks'[e.task].lease_generation
                       /\ \E l \in LeaseLog' : /\ l.task = e.task /\ l.generation = 1
                                               /\ l.worker = WorkerOf[e.host]
                       /\ \A k \in Hosts : host'[k].pc = "claimed" /\ Target[k] = e.task =>
                             host'[k].row.lease_generation # 1
    BY <1>7 DEF ExecutionInv
  <2>1. e.task \in TaskIds /\ 1 <= tasks[e.task].lease_generation
    BY DEF TrustedInv, TrustedTypeOK, Execution, ExecutionInv
  <2>2. 1 <= tasks'[e.task].lease_generation
    BY <1>3, <1>9, <2>1
  <2>3. t = e.task => row.lease_generation # 1
    BY <1>9, <2>1
  <2>. QED
    BY <1>2, <1>4, <1>6, <2>2, <2>3 DEF TrustedInv, ExecutionInv
<1>13. InstanceRunsOnce'
  BY <1>7 DEF TrustedInv, InstanceRunsOnce
<1>. QED
  BY <1>3, <1>4, <1>8, <1>11, <1>12, <1>13 DEF TrustedInv

\* Begin: the first attempt is executed by the host that claimed it, and its save
\* puts that host's name into the ledger.
LEMMA BeginInv ==
    ASSUME TrustedInv, NEW h \in Hosts, Begin(h)
    PROVE  TrustedInv' /\ SaveLeased
<1>1. PICK t \in TaskIds, r \in Row : t = Target[h] /\ r = host[h].row
  BY HostFacts
<1>2. /\ host[h].pc = "claimed" /\ r.attempt_count = 1
      /\ SaveLease(h, r, t, "running", "attempted")
      /\ host' = [host EXCEPT ![h].pc = "running", ![h].row = tasks'[t]]
      /\ executions' = executions \cup {[host |-> h, task |-> t,
                                         generation |-> r.lease_generation]}
      /\ inspector' = inspector
  BY <1>1 DEF Begin, Unused
<1>3. r.lease_generation = 1
  BY <1>1, <1>2 DEF TrustedInv, ClaimInv
<1>4. SaveLeased
  <2>1. "running" \in LeasedSaveStatuses /\ "attempted" \in Progress
    BY TrustedRunAssumption DEF LeasedSaveStatuses
  <2>. QED
    BY <1>2, <2>1, SaveLeaseQueue DEF TrustedInv
<1>5. QueueInv' /\ CountersBounded'
  BY <1>4, QueueNextInv, CountersBoundedStep DEF TrustedInv, QueueNext
<1>6. /\ LeaseLog \subseteq LeaseLog'
      /\ \A u \in TaskIds : tasks[u].lease_generation <= tasks'[u].lease_generation
  BY <1>4, QueueGrows DEF TrustedInv, QueueNext
<1>7. \A u \in TaskIds : tasks[u].lease_generation \in Nat /\ tasks'[u].lease_generation \in Nat
  BY <1>5 DEF TrustedInv, QueueInv, QueueTypeOK, Row
<1>8. /\ host' \in [Hosts -> HostState]
      /\ host'[h].pc = "running"
      /\ \A k \in Hosts \ {h} : host'[k] = host[k]
  <2>1. PICK new \in Row : new = tasks'[t]
    BY <1>5 DEF QueueInv, QueueTypeOK
  <2>2. host' = [host EXCEPT ![h].pc = "running", ![h].row = new]
    BY <1>2, <2>1
  <2>3. "running" \in HostPcs
    BY DEF HostPcs
  <2>. QED
    BY <2>2, <2>3, HostFacts DEF HostState
<1>9. PICK E \in Execution :
        /\ E.host = h /\ E.task = t /\ E.generation = 1
        /\ executions' = executions \cup {E}
  <2>1. [host |-> h, task |-> t, generation |-> r.lease_generation] \in Execution
    BY <1>3 DEF Execution
  <2>. QED
    BY <1>2, <1>3, <2>1
<1>10. TrustedTypeOK'
  BY <1>2, <1>8, <1>9 DEF TrustedInv, TrustedTypeOK
<1>11. \A k \in Hosts \ {h} : host[k].pc = "claimed" =>
          /\ host[k].row.lease_generation \in Nat
          /\ host[k].row.lease_generation <= tasks'[Target[k]].lease_generation
          /\ Target[k] = t => host[k].row.lease_generation # 1
  <2>. SUFFICES ASSUME NEW k \in Hosts \ {h}, host[k].pc = "claimed"
                PROVE  /\ host[k].row.lease_generation \in Nat
                       /\ host[k].row.lease_generation <= tasks'[Target[k]].lease_generation
                       /\ Target[k] = t => host[k].row.lease_generation # 1
    OBVIOUS
  <2>1. host[k].row.lease_generation \in Nat /\ Target[k] \in TaskIds
    BY HostFacts DEF Row
  <2>2. host[k].row.lease_generation <= tasks[Target[k]].lease_generation
    BY DEF TrustedInv, ClaimInv
  <2>3. Target[k] = t => host[k].row.lease_generation # 1
    BY <1>1, <1>2, <1>3 DEF TrustedInv, ClaimInv
  <2>. QED
    BY <1>6, <1>7, <2>1, <2>2, <2>3
<1>12. ClaimInv'
  BY <1>8, <1>11 DEF TrustedInv, ClaimInv
<1>13. \E l \in LeaseLog' : l.task = t /\ l.generation = 1 /\ l.worker = WorkerOf[h]
  <2>1. PICK v \in ClockReadings :
          agent_save_leased_checkpoint(t, r.revision, WorkerOf[h], r.lease_generation,
                                       "running", "attempted", LeaseLength, v)
    BY <1>2 DEF SaveLease
  <2>2. PICK row : WriteRow(t, row, {LeaseEvent(t, "lease_checkpoint_saved", WorkerOf[h],
                                                r.lease_generation, row)})
    BY <2>1 DEF agent_save_leased_checkpoint
  <2>3. PICK l : l = LeaseEvent(t, "lease_checkpoint_saved", WorkerOf[h], r.lease_generation, row)
    OBVIOUS
  <2>4. l \in events' /\ l.event_type = "lease_checkpoint_saved"
        /\ l.task = t /\ l.generation = 1 /\ l.worker = WorkerOf[h]
    BY <1>3, <2>2, <2>3 DEF WriteRow, LeaseEvent
  <2>. QED
    BY <2>4 DEF LeaseLog, LeaseEvents
<1>14. 1 <= tasks'[t].lease_generation
  <2>1. r.lease_generation <= tasks[t].lease_generation
    BY <1>1, <1>2 DEF TrustedInv, ClaimInv
  <2>. QED
    BY <1>3, <1>6, <1>7, <2>1
<1>15. ExecutionInv'
  <2>. SUFFICES ASSUME NEW e \in executions'
                PROVE  /\ e.task = Target[e.host]
                       /\ e.generation = 1
                       /\ 1 <= tasks'[e.task].lease_generation
                       /\ \E l \in LeaseLog' : /\ l.task = e.task /\ l.generation = 1
                                               /\ l.worker = WorkerOf[e.host]
                       /\ \A k \in Hosts : host'[k].pc = "claimed" /\ Target[k] = e.task =>
                             host'[k].row.lease_generation # 1
    BY DEF ExecutionInv
  <2>1. CASE e \in executions
    <3>1. e.task \in TaskIds
      BY <2>1 DEF TrustedInv, TrustedTypeOK, Execution
    <3>2. 1 <= tasks'[e.task].lease_generation
      BY <1>6, <1>7, <2>1, <3>1 DEF TrustedInv, ExecutionInv
    <3>. QED
      BY <1>6, <1>8, <2>1, <3>2 DEF TrustedInv, ExecutionInv
  <2>2. CASE e = E
    BY <1>1, <1>8, <1>9, <1>11, <1>13, <1>14, <2>2
  <2>. QED
    BY <1>9, <2>1, <2>2
<1>16. InstanceRunsOnce'
  <2>1. \A e \in executions : e.task # t
    BY <1>1, <1>2, <1>3 DEF TrustedInv, ExecutionInv
  <2>. QED
    BY <1>9, <2>1 DEF TrustedInv, InstanceRunsOnce
<1>. QED
  BY <1>4, <1>5, <1>10, <1>12, <1>15, <1>16 DEF TrustedInv

-----------------------------------------------------------------------------
(* The coordinator, the owner and the clock *)

\* A step of inspect_next is a step of the queue, or none, and touches no host.
LEMMA InspectStep ==
    ASSUME TrustedInv, NEW i \in Inspectors, inspect_next(i)
    PROVE  TrustedInv' /\ [QueueNext]_queueVars
<1>1. inspector \in [Inspectors -> InspectorState]
      /\ \A j \in Inspectors :
            inspector[j].pc \in {"claimed", "logged"} => inspector[j].task \in TaskIds
  BY DEF TrustedInv, TrustedTypeOK
<1>2. host' = host /\ executions' = executions
  BY DEF inspect_next, InspectClaim, InspectLog, InspectRelease, InspectFails
<1>3. CASE InspectClaim(i)
  <2>1. PICK t \in TaskIds, v \in ClockReadings :
          /\ agent_claim_task(t, WorkerOf[i], LeaseLength, v)
          /\ inspector' = [inspector EXCEPT ![i] =
                 [pc |-> "claimed", task |-> t, row |-> tasks'[t]]]
    BY <1>3 DEF InspectClaim
  <2>2. Claim /\ tasks'[t] \in Row
    BY <2>1, AcceptedClaim, TrustedRunAssumption DEF TrustedInv
  <2>3. PICK new \in InspectorState :
          new = [pc |-> "claimed", task |-> t, row |-> tasks'[t]] /\ new.task = t
    <3>1. PICK row \in Row : row = tasks'[t]
      BY <2>2
    <3>2. [pc |-> "claimed", task |-> t, row |-> row] \in InspectorState
      BY DEF InspectorState, InspectorPcs
    <3>. QED
      BY <3>1, <3>2
  <2>4. inspector' = [inspector EXCEPT ![i] = new]
    BY <2>1, <2>3
  <2>5. TrustedTypeOK'
    BY <1>1, <1>2, <2>3, <2>4 DEF TrustedInv, TrustedTypeOK
  <2>. QED
    BY <1>2, <2>2, <2>5, QuietStep DEF QueueNext
<1>4. ASSUME NEW pc \in {"logged", "returned", "raised"},
             inspector' = [inspector EXCEPT ![i].pc = pc],
             inspector[i].pc \in {"claimed", "logged"}
      PROVE  TrustedTypeOK'
  <2>1. /\ inspector' \in [Inspectors -> InspectorState]
        /\ inspector'[i].task = inspector[i].task
        /\ \A j \in Inspectors \ {i} : inspector'[j] = inspector[j]
    BY <1>1, <1>4 DEF InspectorState, InspectorPcs
  <2>. QED
    BY <1>1, <1>2, <1>4, <2>1 DEF TrustedInv, TrustedTypeOK
<1>5. CASE InspectLog(i) \/ InspectFails(i)
  <2>1. TrustedTypeOK' /\ UNCHANGED queueVars
    BY <1>4, <1>5 DEF InspectLog, InspectFails
  <2>. QED
    BY <1>2, <2>1, QuietStep
<1>6. CASE InspectRelease(i)
  <2>1. TrustedTypeOK'
    BY <1>4, <1>6 DEF InspectRelease
  <2>2. PICK row \in Row, t \in TaskIds : row = inspector[i].row /\ t = inspector[i].task
    BY <1>1, <1>6 DEF InspectRelease, InspectorState
  <2>3. SaveLease(i, row, t, "blocked", row.state)
    BY <1>6, <2>2 DEF InspectRelease
  <2>4. SaveLeased
    <3>1. "blocked" \in LeasedSaveStatuses /\ row.state \in Progress
      BY DEF LeasedSaveStatuses, Row
    <3>. QED
      BY <2>3, <3>1, SaveLeaseQueue DEF TrustedInv
  <2>. QED
    BY <1>2, <2>1, <2>4, QuietStep DEF QueueNext
<1>. QED
  BY <1>3, <1>5, <1>6 DEF inspect_next

\* Late creates, requeues, reconciliations and the clock touch no host either.
LEMMA OutsideStep ==
    ASSUME TrustedInv,
           \/ \E t \in TaskIds : LateCreate(t) \/ Requeue(t) \/ ReconcileLease(t)
           \/ Tick /\ UNCHANGED trustedVars
    PROVE  TrustedInv' /\ [QueueNext]_queueVars
<1>1. host' = host /\ executions' = executions /\ inspector' = inspector
  BY DEF LateCreate, Requeue, ReconcileLease, trustedVars
<1>2. TrustedTypeOK'
  BY <1>1 DEF TrustedInv, TrustedTypeOK
<1>3. [QueueNext]_queueVars
  <2>1. ASSUME NEW t \in TaskIds, LateCreate(t) PROVE Create
    BY <2>1 DEF LateCreate, Create
  <2>2. ASSUME NEW t \in TaskIds, Requeue(t) PROVE Save
    <3>1. "queued" \in Statuses /\ "unstarted" \in Progress
      BY TrustedRunAssumption DEF Statuses
    <3>. QED
      BY <2>2, <3>1, AcceptedSave DEF Requeue, TrustedInv
  <2>3. ASSUME NEW t \in TaskIds, ReconcileLease(t) PROVE Reconcile
    <3>1. tasks[t].state \in Progress
      BY DEF TrustedInv, QueueInv, QueueTypeOK, Row
    <3>. QED
      BY <2>3, <3>1, AcceptedReconcile DEF ReconcileLease, TrustedInv
  <2>. QED
    BY <2>1, <2>2, <2>3 DEF QueueNext
<1>. QED
  BY <1>1, <1>2, <1>3, QuietStep

-----------------------------------------------------------------------------
(* The theorems *)

\* Every step keeps the invariant and is a step of the queue, or leaves it alone.
LEMMA TrustedStep ==
    ASSUME TrustedInv, [TrustedNext]_allVars
    PROVE  TrustedInv' /\ [QueueNext]_queueVars
<1>1. ASSUME NEW h \in Hosts, run_once(h) PROVE TrustedInv' /\ [QueueNext]_queueVars
  <2>1. CASE ClaimTarget(h) \/ Begin(h)
    BY <2>1, ClaimTargetInv, BeginInv DEF QueueNext
  <2>2. CASE ~(ClaimTarget(h) \/ Begin(h))
    <3>1. PICK pc \in HostPcs \ {"claimed"} :
            /\ Move(h, pc) /\ executions' = executions /\ inspector' = inspector
            /\ [QueueNext]_queueVars
      BY <1>1, <2>2, HostMoves DEF run_once
    <3>2. /\ TrustedTypeOK'
          /\ \A k \in Hosts : host'[k].pc = "claimed" =>
                host[k].pc = "claimed" /\ host'[k].row = host[k].row
      BY <3>1, MoveTyped
    <3>. QED
      BY <3>1, <3>2, QuietStep
  <2>. QED
    BY <2>1, <2>2
<1>2. CASE UNCHANGED allVars
  <2>1. host' = host /\ executions' = executions /\ inspector' = inspector /\ UNCHANGED queueVars
    BY <1>2 DEF allVars, trustedVars
  <2>2. TrustedTypeOK'
    BY <2>1 DEF TrustedInv, TrustedTypeOK
  <2>. QED
    BY <2>1, <2>2, QuietStep
<1>. QED
  BY <1>1, <1>2, InspectStep, OutsideStep DEF TrustedNext

\* The invariant holds throughout.
THEOREM TrustedInvariant == TrustedSpec => []TrustedInv
<1>1. TrustedInv /\ [TrustedNext]_allVars => TrustedInv'
  BY TrustedStep
<1>. QED
  BY <1>1, TrustedInitInv, PTL DEF TrustedSpec

\* Hosts, coordinator and owner together drive the queue through its procedures
\* only, with arguments it accepts: what is proved of the queue holds of them.
THEOREM TrustedImplementsQueue == TrustedSpec => QueueSpec
<1>1. TrustedInv /\ [TrustedNext]_allVars => [QueueNext]_queueVars
  BY TrustedStep
<1>2. TrustedInit => QueueInit
  BY DEF TrustedInit
<1>. QED
  BY <1>1, <1>2, TrustedInvariant, PTL DEF TrustedSpec, QueueSpec

\* However hosts die, calls arrive late and rows are requeued, an approved
\* instance is executed at most once, by the host that claimed it first.
THEOREM ApprovalsSpentOnce == TrustedSpec => []ApprovalSpentOnce
<1>1. ASSUME TrustedInv PROVE ApprovalSpentOnce
  <2>1. OnlyUntouchedInstances
    <3>. SUFFICES ASSUME NEW e \in executions, NEW l \in LeaseLog, l.task = e.task,
                         l.generation <= e.generation
                  PROVE  l.worker = WorkerOf[e.host] /\ l.generation = e.generation
      BY DEF OnlyUntouchedInstances
    <3>1. PICK m \in LeaseLog : m.task = e.task /\ m.generation = 1 /\ m.worker = WorkerOf[e.host]
      BY <1>1 DEF TrustedInv, ExecutionInv
    <3>2. e.generation = 1 /\ l.generation \in 1..tasks[l.task].lease_generation
      BY <1>1 DEF TrustedInv, ExecutionInv, QueueInv, LedgerBehindRow
    <3>3. e.task \in TaskIds /\ tasks[l.task].lease_generation \in Nat
      BY <1>1 DEF TrustedInv, TrustedTypeOK, Execution, QueueInv, QueueTypeOK, Row
    <3>4. l.generation = 1
      BY <3>2, <3>3
    <3>. QED
      BY <1>1, <3>1, <3>2, <3>4 DEF TrustedInv, QueueInv, OneWorkerPerGeneration
  <2>. QED
    BY <1>1, <2>1 DEF TrustedInv, ApprovalSpentOnce
<1>. QED
  BY <1>1, TrustedInvariant, PTL

\* Whatever instances the hosts were authorised for, one at most is queued or running.
THEOREM TrustedRunsAreSingle == TrustedSpec => []SingleActiveTrustedRun
BY TrustedImplementsQueue, OneActiveTrustedRun, PTL
=============================================================================
