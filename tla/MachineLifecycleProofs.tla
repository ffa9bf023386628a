----------------------- MODULE MachineLifecycleProofs -----------------------
(***************************************************************************)
(* Proofs about MachineLifecycle, for every limit and bound: its types,    *)
(* and that no VM on record outlives its Machine, but one flagged when the  *)
(* teardown of the namespace bypassed the finalizer.                       *)
(*                                                                         *)
(* RecordedVMDeleted is not inductive: it says nothing of what the         *)
(* reconciler is about to do with a stale copy.  The argument is about     *)
(* order.  The provider hands out ids in order and a name has one VM, so   *)
(* the VM that is there is the last one made (VMInv); a copy of the        *)
(* resource holds no later id than the resource itself, which is what lets *)
(* a merge patch from an old copy write nothing but a newer id (OrderInv); *)
(* deletion is irrevocable and needs the finalizer (DeletionInv).  So a    *)
(* recorded VM that is there is the one the resource names, and the one    *)
(* every copy names that a deletion works from or flags (RecordedInv).     *)
(***************************************************************************)
EXTENDS MachineLifecycle, TLAPS

Busy == worker # Idle

(* At most one VM, the last made; between CreateInstance and its record the *)
(* reconciler holds that VM's id.                                           *)
VMInv ==
    /\ vm.status = "absent" <=> vm.id = NoVM
    /\ vm.id # NoVM => vm.id = made
    /\ worker.step = "record" => worker.vm = vm.id /\ vm.status # "absent"

(* No copy of the resource is ahead of it. *)
OrderInv ==
    /\ crd.instanceId <= made
    /\ recorded \subseteq 1..made
    /\ cache.instanceId <= crd.instanceId
    /\ Busy => worker.m.instanceId <= crd.instanceId

(* Deletion is not taken back, no copy knows of one that was not requested, *)
(* and what has been reconciled has the finalizer.                          *)
DeletionInv ==
    /\ cache.deleting \/ ~crd.exists => crd.deleting
    /\ worker.step \in {"delete", "unregister"} => worker.m.deleting
    /\ Busy /\ worker.m.deleting => crd.deleting
    /\ crd.exists /\ (cache.finalizer \/ Busy \/ recorded # {}) => crd.finalizer

(* classifyReplacing leaves room for the attempt that is counted next. *)
CountInv == worker.step = "count" => worker.m.replacements < MaxReplacementRetries

(* A recorded VM that is there, unless flagged, is the one a deletion finds. *)
RecordedInv ==
    vm.id \in recorded /\ vm.id \notin orphaned =>
        /\ crd.exists /\ crd.instanceId = vm.id
        /\ cache.deleting => cache.instanceId = vm.id
        /\ worker.step = "delete" => worker.m.instanceId = vm.id
        /\ worker.step # "unregister"

IInv == TypeOK /\ VMInv /\ OrderInv /\ DeletionInv /\ CountInv /\ RecordedInv

-----------------------------------------------------------------------------
(* What the operators of the model return.                                 *)

\* A merge patch changes a field of the resource only where the reconciler did.
LEMMA MergeFields ==
    ASSUME crd \in Machines, NEW base \in Machines, NEW new \in Machines
    PROVE  /\ Merge(base, new) \in Machines
           /\ Merge(base, new).instanceId =
                 IF new.instanceId # base.instanceId THEN new.instanceId ELSE crd.instanceId
           /\ new.exists = base.exists => Merge(base, new).exists = crd.exists
           /\ new.deleting = base.deleting => Merge(base, new).deleting = crd.deleting
           /\ new.finalizer = base.finalizer => Merge(base, new).finalizer = crd.finalizer
BY DEF Merge, Machines

\* A reconcile in progress is typed, and an idle worker has no step.
LEMMA BusyWorker ==
    ASSUME TypeOK
    PROVE  /\ worker # Idle => worker \in Reconciles
           /\ worker \in Reconciles => worker # Idle /\ worker.m \in Machines
           /\ worker.step # "idle" => worker # Idle
           /\ Idle.step = "idle"
BY DEF TypeOK, Reconciles, Idle

LEMMA RowFields ==
    ASSUME NEW p, NEW e, NEW a, NEW n
    PROVE  /\ Row(p, e, a, n).phase = p /\ Row(p, e, a, n).event = e
           /\ Row(p, e, a, n).action = a /\ Row(p, e, a, n).next = n
BY DEF Row

\* Every row of the state machine is typed, and an attempt at a replacement is
\* counted only from an event that classifyEvent reports below the limit.
LEMMA RowsTyped ==
    ASSUME NEW r \in NextPhase
    PROVE  /\ r.next \in Phases /\ r.action \in Actions
           /\ r.action = "CreateReplacementInstance" =>
                 \/ r.phase = "Preempted" /\ r.event = "ReplacementStarted"
                 \/ r.phase = "Replacing" /\ r.event = "ReplacementFailed"
<1>. DEFINE Good(q) ==
        /\ q.next \in Phases /\ q.action \in Actions
        /\ q.action = "CreateReplacementInstance" =>
              \/ q.phase = "Preempted" /\ q.event = "ReplacementStarted"
              \/ q.phase = "Replacing" /\ q.event = "ReplacementFailed"
<1>1. ASSUME NEW p, NEW e, NEW a \in Actions, NEW n \in Phases,
             a = "CreateReplacementInstance" =>
                \/ p = "Preempted" /\ e = "ReplacementStarted"
                \/ p = "Replacing" /\ e = "ReplacementFailed"
      PROVE  Good(Row(p, e, a, n))
  BY <1>1, RowFields
<1>2. /\ {"UpdateStatus", "WaitForNode", "MarkFailed", "ForceStopVM", "StartInstance", "StopVM",
          "CreateInstance", "CreateReplacementInstance", "CompleteReplacement",
          "BeginReplacement", "MarkReplacementFailed"} \subseteq Actions
      /\ {"Provisioning", "Ready", "Running", "Stopping", "Stopped", "Preempted",
          "Replacing", "Failed"} \subseteq Phases
  BY DEF Actions, Phases
<1>. HIDE DEF Good
<1>3. ASSUME NEW p PROVE /\ Good(Row(p, "DesiredStopped", "StopVM", "Stopping"))
                        /\ Good(Row(p, "NodeDisappearedPreempted", "BeginReplacement", "Preempted"))
                        /\ Good(Row(p, "NodeDisappearedFailed", "MarkFailed", "Failed"))
                        /\ Good(Row(p, "ReplacementRetryLimitReached",
                                    "MarkReplacementFailed", "Failed"))
  BY <1>1, <1>2
<1>. DEFINE Single == {Row("", "CRDCreated", "CreateInstance", "Provisioning"),
                      Row("Provisioning", "InstanceRunningNodeReady", "UpdateStatus", "Ready"),
                      Row("Provisioning", "InstanceRunningNodeNotReady", "WaitForNode", "Provisioning"),
                      Row("Provisioning", "ProvisioningTimeout", "MarkFailed", "Failed"),
                      Row("Ready", "AgentScheduled", "UpdateStatus", "Running"),
                      Row("Running", "AllAgentsRemoved", "UpdateStatus", "Ready"),
                      Row("Stopping", "AllAgentsStoppedVMStopped", "UpdateStatus", "Stopped"),
                      Row("Stopping", "StoppingTimeout", "ForceStopVM", "Stopped"),
                      Row("Stopped", "DesiredRunning", "StartInstance", "Provisioning"),
                      Row("Preempted", "ReplacementStarted", "CreateReplacementInstance", "Replacing"),
                      Row("Replacing", "ReplacementSucceeded", "CompleteReplacement", "Ready"),
                      Row("Replacing", "ReplacementFailed", "CreateReplacementInstance", "Replacing"),
                      Row("Failed", "DesiredRunning", "CreateInstance", "Provisioning")}
            Up ==
                UNION {{Row(p, "DesiredStopped", "StopVM", "Stopping"),
                        Row(p, "NodeDisappearedPreempted", "BeginReplacement", "Preempted"),
                        Row(p, "NodeDisappearedFailed", "MarkFailed", "Failed")}
                       : p \in {"Ready", "Running"}}
            Limit ==
                {Row(p, "ReplacementRetryLimitReached", "MarkReplacementFailed", "Failed")
                 : p \in {"Preempted", "Replacing"}}
<1>4. \A q \in Single : Good(q)
  BY <1>1, <1>2
<1>5. \A q \in Up : Good(q)
  BY <1>3
<1>6. \A q \in Limit : Good(q)
  BY <1>3
<1>7. NextPhase = Single \cup Up \cup Limit
  BY Zenon DEF NextPhase
<1>. HIDE DEF Single, Up, Limit
<1>8. Good(r)
  BY <1>4, <1>5, <1>6, <1>7
<1>. QED
  BY <1>8 DEF Good

LEMMA FirstSteps ==
    ASSUME NEW m, NEW a
    PROVE  /\ FirstStep(m, a) \in {"count", "clean", "create", "act", "phase"}
           /\ FirstStep(m, a) = "count" => a = "CreateReplacementInstance"
BY DEF FirstStep

\* Every part of the invariant survives a step that leaves its variables alone.
LEMMA Kept ==
    ASSUME IInv
    PROVE  /\ UNCHANGED <<vm, made, worker>> => VMInv'
           /\ UNCHANGED <<crd, cache, worker, made, recorded>> => OrderInv'
           /\ UNCHANGED <<crd, cache, worker, recorded>> => DeletionInv'
           /\ UNCHANGED worker => CountInv'
           /\ UNCHANGED <<crd, cache, worker, vm, recorded, orphaned>> => RecordedInv'
<1>1. UNCHANGED <<vm, made, worker>> => VMInv'
  BY DEF IInv, VMInv
<1>2. UNCHANGED <<crd, cache, worker, made, recorded>> => OrderInv'
  BY DEF IInv, OrderInv, Busy
<1>3. UNCHANGED <<crd, cache, worker, recorded>> => DeletionInv'
  BY DEF IInv, DeletionInv, Busy
<1>4. UNCHANGED worker => CountInv'
  BY DEF IInv, CountInv
<1>5. UNCHANGED <<crd, cache, worker, vm, recorded, orphaned>> => RecordedInv'
  BY DEF IInv, RecordedInv
<1>. QED
  BY <1>1, <1>2, <1>3, <1>4, <1>5

-----------------------------------------------------------------------------
(* The reconciler.                                                         *)

LEMMA ReconcileInv ==
    ASSUME IInv, NEW err \in BOOLEAN, Reconcile(err)
    PROVE  IInv'
<1>1. PICK r \in NextPhase :
        /\ r.phase = cache.phase
        /\ r.event \in ClassifyEvent(cache, err)
        /\ worker' = [step |-> FirstStep(cache, r.action), m |-> [cache EXCEPT !.finalizer = TRUE],
                      action |-> r.action, next |-> r.next, vm |-> NoVM]
  BY DEF Reconcile, teardown
<1>2. /\ crd \in Machines /\ cache \in Machines /\ ~cache.deleting
      /\ crd' = [crd EXCEPT !.finalizer = TRUE]
      /\ UNCHANGED <<cache, vm, node, password, made, recorded, commands, namespace, orphaned>>
  BY DEF IInv, TypeOK, Reconcile, teardown
<1>3. /\ crd' \in Machines /\ crd'.exists = crd.exists /\ crd'.deleting = crd.deleting
      /\ crd'.instanceId = crd.instanceId /\ crd'.finalizer
  BY <1>2 DEF Machines
<1>4. [cache EXCEPT !.finalizer = TRUE] \in Machines
  BY <1>2 DEF Machines
<1>5. /\ worker' \in Reconciles
      /\ worker'.step \in {"count", "clean", "create", "act", "phase"}
      /\ worker'.m.instanceId = cache.instanceId /\ worker'.m.deleting = cache.deleting
      /\ worker'.m.replacements = cache.replacements
  BY <1>1, <1>4, RowsTyped, FirstSteps DEF Reconciles, Machines
<1>6. faults' \in 0..MaxFaults
  BY MachineLimits DEF IInv, TypeOK, Reconcile, teardown, Fault
<1>7. TypeOK'
  BY <1>2, <1>3, <1>5, <1>6 DEF IInv, TypeOK
<1>8. VMInv' /\ OrderInv'
  BY <1>2, <1>5 DEF IInv, VMInv, OrderInv
<1>9. DeletionInv'
  BY <1>2, <1>5 DEF IInv, DeletionInv
<1>10. CountInv'
  <2>1. ASSUME r.action = "CreateReplacementInstance"
        PROVE  ~ReplacementRetryExceeded(cache)
    BY <1>1, <2>1, RowsTyped DEF ClassifyEvent, ClassifyReplacing
  <2>2. worker'.step = "count" => r.action = "CreateReplacementInstance"
    BY <1>1, FirstSteps
  <2>. QED
    BY <1>2, <1>5, <2>1, <2>2, MachineLimits
       DEF CountInv, ReplacementRetryExceeded, Machines
<1>11. RecordedInv'
  BY <1>2, <1>5 DEF IInv, RecordedInv
<1>. QED
  BY <1>7, <1>8, <1>9, <1>10, <1>11 DEF IInv

LEMMA CountReplacementInv ==
    ASSUME IInv, CountReplacement
    PROVE  IInv'
<1>1. /\ worker \in Reconciles /\ worker.m \in Machines /\ crd \in Machines
      /\ worker.step = "count" /\ worker.m.replacements < MaxReplacementRetries
      /\ UNCHANGED <<cache, vm, node, password, made, recorded, faults, commands, namespace, orphaned>>
      /\ crd' = Merge(worker.m, [worker.m EXCEPT !.replacements = @ + 1])
      /\ worker' = [worker EXCEPT !.step = "clean", !.m = crd']
  BY BusyWorker DEF IInv, TypeOK, CountInv, CountReplacement, teardown
<1>2. DEFINE new == [worker.m EXCEPT !.replacements = worker.m.replacements + 1]
<1>3. /\ new \in Machines /\ new.exists = worker.m.exists /\ new.deleting = worker.m.deleting
      /\ new.finalizer = worker.m.finalizer /\ new.instanceId = worker.m.instanceId
  BY <1>1, MachineLimits DEF Machines
<1>4. /\ crd' \in Machines /\ crd'.exists = crd.exists /\ crd'.deleting = crd.deleting
      /\ crd'.instanceId = crd.instanceId /\ crd'.finalizer = crd.finalizer
  <2>. HIDE DEF new
  <2>1. crd' = Merge(worker.m, new)
    BY <1>1 DEF new
  <2>. QED
    BY <1>1, <1>3, <2>1, MergeFields
<1>5. worker' \in Reconciles /\ worker'.step = "clean" /\ worker'.m = crd'
  BY <1>1, <1>4 DEF Reconciles
<1>6. worker # Idle /\ worker' # Idle
  BY <1>1, <1>5 DEF Reconciles, Idle
<1>7. TypeOK'
  BY <1>1, <1>4, <1>5 DEF IInv, TypeOK
<1>8. VMInv' /\ CountInv' /\ RecordedInv'
  BY <1>1, <1>4 DEF IInv, VMInv, CountInv, RecordedInv
<1>9. OrderInv'
  BY <1>1, <1>4 DEF IInv, OrderInv, Machines, VMIds, NoVM
<1>10. DeletionInv'
  BY <1>1, <1>4, <1>6 DEF IInv, DeletionInv, Busy
<1>. QED
  BY <1>7, <1>8, <1>9, <1>10 DEF IInv

LEMMA CleanupStaleNodeInv ==
    ASSUME IInv, CleanupStaleNode
    PROVE  IInv'
<1>1. UNCHANGED <<crd, cache, vm, made, recorded, commands, namespace, orphaned>>
  BY DEF CleanupStaleNode, teardown
<1>2. worker' \in Reconciles \cup {Idle}
  BY BusyWorker DEF IInv, Reconciles, CleanupStaleNode, teardown
<1>3. node' \in [vm : VMIds \cup {NoVM}, ready : BOOLEAN]
  <2>1. NoNode \in [vm : VMIds \cup {NoVM}, ready : BOOLEAN]
    BY DEF NoNode
  <2>2. node' \in {node, NoNode}
    BY DEF CleanupStaleNode, teardown
  <2>. QED
    BY <2>1, <2>2 DEF IInv, TypeOK
<1>4. password' \in VMIds \cup {NoVM}
  BY DEF IInv, TypeOK, CleanupStaleNode, teardown
<1>5. faults' \in 0..MaxFaults
  BY MachineLimits DEF IInv, TypeOK, Fault, CleanupStaleNode, teardown
<1>6. TypeOK'
  BY <1>1, <1>2, <1>3, <1>4, <1>5 DEF IInv, TypeOK
<1>7. VMInv'
  BY DEF IInv, VMInv, CleanupStaleNode, teardown
<1>8. OrderInv'
  BY BusyWorker DEF IInv, OrderInv, CleanupStaleNode, teardown, Busy
<1>9. DeletionInv'
  BY BusyWorker DEF IInv, DeletionInv, CleanupStaleNode, teardown, Busy
<1>10. CountInv'
  BY DEF CountInv, CleanupStaleNode, teardown
<1>11. RecordedInv'
  BY DEF IInv, RecordedInv, CleanupStaleNode, teardown
<1>. QED
  BY <1>6, <1>7, <1>8, <1>9, <1>10, <1>11 DEF IInv

LEMMA CreateDeletesStaleInv ==
    ASSUME IInv, CreateDeletesStale
    PROVE  IInv'
<1>1. UNCHANGED <<crd, cache, worker, node, password, made, recorded, faults, commands, namespace, orphaned>>
  BY DEF CreateDeletesStale, teardown
<1>2. vm' \in [id : VMIds \cup {NoVM}, status : {"absent", "pending", "running", "stopped"}]
  BY DEF CreateDeletesStale, teardown
<1>3. TypeOK'
  BY <1>1, <1>2 DEF IInv, TypeOK
<1>4. VMInv'
  BY DEF VMInv, CreateDeletesStale, teardown
<1>5. RecordedInv'
  BY DEF IInv, OrderInv, RecordedInv, CreateDeletesStale, teardown, NoVM
<1>6. OrderInv' /\ DeletionInv' /\ CountInv'
  BY <1>1, Kept
<1>. QED
  BY <1>3, <1>4, <1>5, <1>6 DEF IInv

LEMMA CreateInstanceInv ==
    ASSUME IInv, CreateInstance
    PROVE  IInv'
<1>1. UNCHANGED <<crd, cache, node, password, recorded, faults, commands, namespace, orphaned>>
  BY DEF CreateInstance, teardown
<1>2. vm' \in [id : VMIds \cup {NoVM}, status : {"absent", "pending", "running", "stopped"}]
  BY MachineLimits DEF IInv, TypeOK, VMIds, CreateInstance, teardown
<1>3. made' \in 0..MaxVMs
  BY MachineLimits DEF IInv, TypeOK, CreateInstance, teardown
<1>4. worker' \in Reconciles \cup {Idle}
  <2>1. /\ worker \in Reconciles /\ vm'.id \in VMIds \cup {NoVM}
        /\ worker' = [worker EXCEPT !.step = "record", !.vm = vm'.id]
    BY <1>2, BusyWorker DEF IInv, CreateInstance, teardown
  <2>. QED
    BY <2>1 DEF Reconciles
<1>5. TypeOK'
  BY <1>1, <1>2, <1>3, <1>4 DEF IInv, TypeOK
<1>6. VMInv'
  BY DEF IInv, TypeOK, VMInv, CreateInstance, teardown, NoVM
<1>7. OrderInv'
  BY BusyWorker DEF IInv, TypeOK, OrderInv, CreateInstance, teardown, Machines, Busy, NoVM, VMIds
<1>8. DeletionInv'
  BY BusyWorker DEF IInv, DeletionInv, CreateInstance, teardown, Busy
<1>9. CountInv'
  BY DEF CountInv, CreateInstance, teardown
<1>10. RecordedInv'
  BY DEF IInv, TypeOK, OrderInv, RecordedInv, CreateInstance, teardown
<1>. QED
  BY <1>5, <1>6, <1>7, <1>8, <1>9, <1>10 DEF IInv

LEMMA RecordInstanceInv ==
    ASSUME IInv, RecordInstance
    PROVE  IInv'
<1>1. /\ worker \in Reconciles /\ worker.m \in Machines /\ crd \in Machines /\ crd.exists
      /\ worker.step = "record" /\ worker.vm = vm.id /\ vm.id = made /\ vm.id \in VMIds
      /\ UNCHANGED <<cache, vm, node, password, made, faults, commands, namespace, orphaned>>
      /\ crd' = Merge(worker.m, [worker.m EXCEPT !.instanceId = worker.vm])
      /\ worker' = [worker EXCEPT !.step = "phase", !.m = crd']
      /\ recorded' = IF crd.deleting THEN recorded ELSE recorded \cup {worker.vm}
  BY BusyWorker DEF IInv, TypeOK, VMInv, RecordInstance, teardown
<1>2. DEFINE new == [worker.m EXCEPT !.instanceId = worker.vm]
<1>3. /\ new \in Machines /\ new.exists = worker.m.exists /\ new.deleting = worker.m.deleting
      /\ new.finalizer = worker.m.finalizer /\ new.instanceId = vm.id
  BY <1>1 DEF Machines
<1>4. /\ crd' \in Machines /\ crd'.exists = crd.exists /\ crd'.deleting = crd.deleting
      /\ crd'.finalizer = crd.finalizer
      /\ crd'.instanceId = IF vm.id # worker.m.instanceId THEN vm.id ELSE crd.instanceId
  <2>1. crd' = Merge(worker.m, new)
    BY <1>1
  <2>0. crd \in Machines /\ worker.m \in Machines
    BY <1>1
  <2>. HIDE DEF new
  <2>2. crd' \in Machines /\ crd'.exists = crd.exists /\ crd'.deleting = crd.deleting
    BY <1>3, <2>0, <2>1, MergeFields
  <2>3. crd'.finalizer = crd.finalizer
    BY <1>3, <2>0, <2>1, MergeFields
  <2>4. crd'.instanceId = IF new.instanceId # worker.m.instanceId
                           THEN new.instanceId ELSE crd.instanceId
    BY <1>3, <2>0, <2>1, MergeFields
  <2>. QED
    BY <1>3, <2>2, <2>3, <2>4
<1>5. worker' \in Reconciles /\ worker'.step = "phase" /\ worker'.m = crd'
  BY <1>1, <1>4 DEF Reconciles
<1>6. worker # Idle /\ worker' # Idle
  BY <1>1, <1>5 DEF Reconciles, Idle
<1>7. made \in Nat /\ crd.instanceId \in Nat /\ worker.m.instanceId \in Nat
  BY <1>1 DEF Machines, VMIds, NoVM
<1>8. crd'.instanceId = vm.id
  BY <1>1, <1>4, <1>6, <1>7 DEF IInv, OrderInv, Busy
<1>9. TypeOK'
  BY <1>1, <1>4, <1>5 DEF IInv, TypeOK
<1>10. OrderInv'
  BY <1>1, <1>8 DEF IInv, OrderInv, TypeOK, Machines, VMIds, NoVM
<1>11. DeletionInv'
  BY <1>1, <1>4, <1>5, <1>6 DEF IInv, DeletionInv, Busy
<1>12. VMInv' /\ CountInv'
  BY <1>1 DEF IInv, VMInv, CountInv
<1>13. RecordedInv'
  BY <1>1, <1>4, <1>5, <1>8 DEF IInv, RecordedInv, DeletionInv
<1>. QED
  BY <1>9, <1>10, <1>11, <1>12, <1>13 DEF IInv

LEMMA CallProviderInv ==
    ASSUME IInv, CallProvider
    PROVE  IInv'
<1>1. UNCHANGED <<crd, cache, node, password, made, recorded, commands, namespace, orphaned>>
  BY DEF CallProvider, teardown
<1>2. vm' \in [id : VMIds \cup {NoVM}, status : {"absent", "pending", "running", "stopped"}]
  BY DEF IInv, TypeOK, CallProvider, teardown
<1>3. worker' \in Reconciles \cup {Idle}
  BY BusyWorker DEF IInv, Reconciles, CallProvider, teardown
<1>4. faults' \in 0..MaxFaults
  BY MachineLimits DEF IInv, TypeOK, Fault, CallProvider, teardown
<1>5. TypeOK'
  BY <1>1, <1>2, <1>3, <1>4 DEF IInv, TypeOK
<1>6. VMInv'
  BY BusyWorker DEF IInv, TypeOK, VMInv, CallProvider, teardown, Reconciles
<1>7. OrderInv'
  BY BusyWorker DEF IInv, OrderInv, CallProvider, teardown, Reconciles, Busy
<1>8. DeletionInv'
  BY BusyWorker DEF IInv, DeletionInv, CallProvider, teardown, Reconciles, Busy
<1>9. CountInv'
  BY BusyWorker DEF IInv, CountInv, CallProvider, teardown, Reconciles
<1>10. RecordedInv'
  BY BusyWorker DEF IInv, TypeOK, RecordedInv, CallProvider, teardown, Reconciles
<1>. QED
  BY <1>5, <1>6, <1>7, <1>8, <1>9, <1>10 DEF IInv

LEMMA UpdatePhaseInv ==
    ASSUME IInv, UpdatePhase
    PROVE  IInv'
<1>1. /\ worker \in Reconciles /\ worker.m \in Machines /\ crd \in Machines /\ worker.next \in Phases
      /\ UNCHANGED <<cache, vm, node, password, made, recorded, faults, commands, namespace, orphaned>>
      /\ worker' = Idle
      /\ crd' = IF worker.m.phase = worker.next THEN crd
                ELSE [Merge(worker.m, [worker.m EXCEPT !.phase = worker.next]) EXCEPT !.overdue = FALSE]
  BY BusyWorker DEF IInv, TypeOK, UpdatePhase, teardown, Reconciles
<1>2. DEFINE new == [worker.m EXCEPT !.phase = worker.next]
<1>3. /\ new \in Machines /\ new.exists = worker.m.exists /\ new.deleting = worker.m.deleting
      /\ new.finalizer = worker.m.finalizer /\ new.instanceId = worker.m.instanceId
  BY <1>1 DEF Machines
<1>4. /\ crd' \in Machines /\ crd'.exists = crd.exists /\ crd'.deleting = crd.deleting
      /\ crd'.instanceId = crd.instanceId /\ crd'.finalizer = crd.finalizer
  <2>. HIDE DEF new
  <2>1. DEFINE merged == Merge(worker.m, new)
  <2>2. /\ merged \in Machines /\ merged.exists = crd.exists /\ merged.deleting = crd.deleting
        /\ merged.instanceId = crd.instanceId /\ merged.finalizer = crd.finalizer
    BY <1>1, <1>3, MergeFields
  <2>. HIDE DEF merged
  <2>3. crd' \in {crd, [merged EXCEPT !.overdue = FALSE]}
    BY <1>1 DEF new, merged
  <2>. QED
    BY <1>1, <2>2, <2>3 DEF Machines
<1>5. Idle.step = "idle"
  BY DEF Idle
<1>6. TypeOK'
  BY <1>1, <1>4 DEF IInv, TypeOK
<1>7. VMInv' /\ OrderInv' /\ CountInv' /\ RecordedInv'
  BY <1>1, <1>4, <1>5 DEF IInv, VMInv, OrderInv, CountInv, RecordedInv, Busy
<1>8. DeletionInv'
  BY <1>1, <1>4, <1>5 DEF IInv, DeletionInv, Busy
<1>. QED
  BY <1>6, <1>7, <1>8 DEF IInv

LEMMA BeginDeletionInv ==
    ASSUME IInv, BeginDeletion
    PROVE  IInv'
<1>1. UNCHANGED <<crd, cache, vm, node, password, made, recorded, faults, commands, namespace, orphaned>>
  BY DEF BeginDeletion, teardown
<1>2. worker' \in Reconciles \cup {Idle}
  BY DEF IInv, TypeOK, Reconciles, Machines, BeginDeletion, teardown
<1>3. TypeOK'
  BY <1>1, <1>2 DEF IInv, TypeOK
<1>4. VMInv'
  BY DEF IInv, VMInv, BeginDeletion, teardown
<1>5. OrderInv'
  BY DEF IInv, OrderInv, BeginDeletion, teardown
<1>6. DeletionInv'
  BY DEF IInv, DeletionInv, BeginDeletion, teardown
<1>7. CountInv'
  BY DEF CountInv, BeginDeletion, teardown
<1>8. RecordedInv'
  BY DEF IInv, RecordedInv, BeginDeletion, teardown
<1>. QED
  BY <1>3, <1>4, <1>5, <1>6, <1>7, <1>8 DEF IInv

LEMMA BypassFinalizerInv ==
    ASSUME IInv, BypassFinalizer
    PROVE  IInv'
<1>1. /\ crd \in Machines /\ cache.deleting /\ crd.deleting
      /\ cache.instanceId \in VMIds \cup {NoVM}
      /\ UNCHANGED <<cache, worker, vm, node, password, made, recorded, namespace, commands>>
      /\ orphaned' = orphaned \cup ({cache.instanceId} \ {NoVM})
  BY DEF IInv, TypeOK, DeletionInv, Machines, BypassFinalizer
<1>2. crd' \in {crd, [crd EXCEPT !.exists = FALSE, !.finalizer = FALSE]}
  BY DEF BypassFinalizer
<1>3. /\ crd' \in Machines /\ crd'.deleting /\ crd'.instanceId = crd.instanceId
      /\ crd'.exists => crd' = crd
  BY <1>1, <1>2 DEF Machines
<1>4. faults' \in 0..MaxFaults
  BY MachineLimits DEF IInv, TypeOK, Fault, BypassFinalizer
<1>5. TypeOK'
  BY <1>1, <1>3, <1>4 DEF IInv, TypeOK
<1>6. OrderInv'
  BY <1>1, <1>3 DEF IInv, OrderInv, Busy
<1>7. DeletionInv'
  BY <1>1, <1>3 DEF IInv, DeletionInv, Busy
<1>8. RecordedInv'
  <2>1. vm.id \in recorded /\ vm.id \notin orphaned => vm.id = cache.instanceId /\ vm.id # NoVM
    BY <1>1 DEF IInv, OrderInv, RecordedInv, NoVM
  <2>2. ~(vm'.id \in recorded' /\ vm'.id \notin orphaned')
    BY <1>1, <2>1
  <2>. QED
    BY <2>2 DEF RecordedInv
<1>9. VMInv' /\ CountInv'
  BY <1>1, Kept
<1>. QED
  BY <1>5, <1>6, <1>7, <1>8, <1>9 DEF IInv

LEMMA DeleteInstanceInv ==
    ASSUME IInv, DeleteInstance
    PROVE  IInv'
<1>1. UNCHANGED <<crd, cache, node, password, made, recorded, faults, commands, namespace, orphaned>>
  BY DEF DeleteInstance, teardown
<1>2. vm' \in [id : VMIds \cup {NoVM}, status : {"absent", "pending", "running", "stopped"}]
  BY DEF IInv, TypeOK, DeleteInstance, teardown
<1>3. worker' \in Reconciles \cup {Idle}
  BY BusyWorker DEF IInv, Reconciles, DeleteInstance, teardown
<1>4. TypeOK'
  BY <1>1, <1>2, <1>3 DEF IInv, TypeOK
<1>5. VMInv'
  BY DEF IInv, VMInv, DeleteInstance, teardown
<1>6. OrderInv'
  BY BusyWorker DEF IInv, OrderInv, DeleteInstance, teardown, Busy
<1>7. DeletionInv'
  BY BusyWorker DEF IInv, DeletionInv, DeleteInstance, teardown, Busy
<1>8. CountInv'
  BY DEF CountInv, DeleteInstance, teardown
<1>9. RecordedInv'
  BY DEF IInv, OrderInv, RecordedInv, DeleteInstance, teardown, NoVM
<1>. QED
  BY <1>4, <1>5, <1>6, <1>7, <1>8, <1>9 DEF IInv

LEMMA RemoveFinalizerInv ==
    ASSUME IInv, RemoveFinalizer
    PROVE  IInv'
<1>1. UNCHANGED <<cache, vm, password, made, recorded, commands, namespace, orphaned>>
  BY DEF RemoveFinalizer, teardown
<1>2. node' \in [vm : VMIds \cup {NoVM}, ready : BOOLEAN]
  <2>1. NoNode \in [vm : VMIds \cup {NoVM}, ready : BOOLEAN]
    BY DEF NoNode
  <2>2. node' \in {node, NoNode}
    BY DEF RemoveFinalizer, teardown
  <2>. QED
    BY <2>1, <2>2 DEF IInv, TypeOK
<1>3. faults' \in 0..MaxFaults
  BY MachineLimits DEF IInv, TypeOK, Fault, RemoveFinalizer, teardown
<1>4. crd' \in Machines
  BY DEF IInv, TypeOK, Machines, RemoveFinalizer, teardown
<1>5. worker' \in Reconciles \cup {Idle}
  BY DEF RemoveFinalizer, teardown
<1>6. TypeOK'
  BY <1>1, <1>2, <1>3, <1>4, <1>5 DEF IInv, TypeOK
<1>7. VMInv'
  BY BusyWorker DEF IInv, VMInv, RemoveFinalizer, teardown
<1>8. OrderInv'
  BY DEF IInv, OrderInv, RemoveFinalizer, teardown, Busy
<1>9. DeletionInv'
  BY BusyWorker DEF IInv, DeletionInv, RemoveFinalizer, teardown, Busy
<1>10. CountInv'
  BY BusyWorker DEF IInv, CountInv, RemoveFinalizer, teardown
<1>11. RecordedInv'
  BY DEF IInv, RecordedInv, RemoveFinalizer, teardown
<1>. QED
  BY <1>6, <1>7, <1>8, <1>9, <1>10, <1>11 DEF IInv

LEMMA AbandonInv ==
    ASSUME IInv, Abandon
    PROVE  IInv'
<1>1. UNCHANGED <<crd, cache, vm, node, password, made, recorded, commands, namespace, orphaned>>
  BY DEF Abandon, teardown
<1>2. worker' \in Reconciles \cup {Idle}
  BY DEF Abandon, teardown
<1>3. faults' \in 0..MaxFaults
  BY MachineLimits DEF IInv, TypeOK, Fault, Abandon, teardown
<1>4. TypeOK'
  BY <1>1, <1>2, <1>3 DEF IInv, TypeOK
<1>5. VMInv'
  BY BusyWorker DEF IInv, VMInv, Abandon, teardown
<1>6. OrderInv'
  BY DEF IInv, OrderInv, Abandon, teardown, Busy
<1>7. DeletionInv'
  BY BusyWorker DEF IInv, DeletionInv, Abandon, teardown, Busy
<1>8. CountInv'
  BY BusyWorker DEF IInv, CountInv, Abandon, teardown
<1>9. RecordedInv'
  BY BusyWorker DEF IInv, RecordedInv, Abandon, teardown
<1>. QED
  BY <1>4, <1>5, <1>6, <1>7, <1>8, <1>9 DEF IInv

-----------------------------------------------------------------------------
(* Everything else.                                                        *)

LEMMA CacheSyncInv ==
    ASSUME IInv, CacheSync
    PROVE  IInv'
<1>1. UNCHANGED <<crd, worker, vm, node, password, made, recorded, faults, commands, namespace, orphaned>>
  BY DEF CacheSync, teardown
<1>2. cache' \in Machines
  BY DEF IInv, TypeOK, CacheSync, teardown
<1>3. TypeOK'
  BY <1>1, <1>2 DEF IInv, TypeOK
<1>4. OrderInv'
  BY DEF IInv, TypeOK, OrderInv, CacheSync, teardown, Machines, Busy, NoVM, VMIds
<1>5. DeletionInv'
  BY DEF IInv, DeletionInv, CacheSync, teardown, Busy
<1>6. RecordedInv'
  BY DEF IInv, RecordedInv, CacheSync, teardown
<1>7. VMInv' /\ CountInv'
  BY <1>1, Kept
<1>. QED
  BY <1>3, <1>4, <1>5, <1>6, <1>7 DEF IInv

LEMMA SetMachineDesiredPhaseInv ==
    ASSUME IInv, NEW d \in {"Running", "Stopped"}, SetMachineDesiredPhase(d)
    PROVE  IInv'
<1>1. UNCHANGED <<cache, worker, vm, node, password, made, recorded, faults, namespace, orphaned>>
  BY DEF SetMachineDesiredPhase, teardown
<1>2. crd' \in Machines
  BY DEF IInv, TypeOK, Machines, SetMachineDesiredPhase, teardown
<1>3. commands' \in 0..MaxCommands
  BY MachineLimits DEF IInv, TypeOK, Command, SetMachineDesiredPhase, teardown
<1>4. TypeOK'
  BY <1>1, <1>2, <1>3 DEF IInv, TypeOK
<1>5. OrderInv'
  BY DEF IInv, OrderInv, SetMachineDesiredPhase, teardown, Busy
<1>6. DeletionInv'
  BY DEF IInv, DeletionInv, SetMachineDesiredPhase, teardown, Busy
<1>7. RecordedInv'
  BY DEF IInv, RecordedInv, SetMachineDesiredPhase, teardown
<1>8. VMInv' /\ CountInv'
  BY <1>1, Kept
<1>. QED
  BY <1>4, <1>5, <1>6, <1>7, <1>8 DEF IInv

LEMMA DeleteNamespaceInv ==
    ASSUME IInv, DeleteNamespace
    PROVE  IInv'
<1>1. /\ UNCHANGED <<crd, cache, worker, vm, node, password, made, recorded, orphaned, faults>>
      /\ namespace' = "terminating"
  BY DEF DeleteNamespace
<1>2. commands' \in 0..MaxCommands
  BY MachineLimits DEF IInv, TypeOK, Command, DeleteNamespace
<1>3. TypeOK'
  BY <1>1, <1>2 DEF IInv, TypeOK
<1>4. VMInv' /\ OrderInv' /\ DeletionInv' /\ CountInv' /\ RecordedInv'
  BY <1>1, Kept
<1>. QED
  BY <1>3, <1>4 DEF IInv

LEMMA DeleteMachineInv ==
    ASSUME IInv, DeleteMachine
    PROVE  IInv'
<1>1. UNCHANGED <<cache, worker, vm, node, password, made, recorded, faults, namespace, orphaned>>
  BY DEF DeleteMachine, teardown
<1>2. crd' \in Machines
  BY DEF IInv, TypeOK, Machines, DeleteMachine, teardown
<1>3. commands' \in 0..MaxCommands
  BY MachineLimits DEF IInv, TypeOK, Command, DeleteMachine, teardown
<1>4. TypeOK'
  BY <1>1, <1>2, <1>3 DEF IInv, TypeOK
<1>5. OrderInv'
  BY DEF IInv, OrderInv, DeleteMachine, teardown, Busy
<1>6. DeletionInv'
  BY DEF IInv, DeletionInv, DeleteMachine, teardown
<1>7. RecordedInv'
  BY DEF IInv, DeletionInv, RecordedInv, DeleteMachine, teardown
<1>8. VMInv' /\ CountInv'
  BY <1>1, Kept
<1>. QED
  BY <1>4, <1>5, <1>6, <1>7, <1>8 DEF IInv

LEMMA TimeoutPassesInv ==
    ASSUME IInv, TimeoutPasses
    PROVE  IInv'
<1>1. UNCHANGED <<worker, vm, node, password, made, recorded, commands, namespace, orphaned>>
  BY DEF TimeoutPasses, teardown
<1>2. crd' \in Machines
  BY DEF IInv, TypeOK, Machines, TimeoutPasses, teardown
<1>3. cache' \in Machines
  BY DEF IInv, TypeOK, Machines, TimeoutPasses, teardown
<1>4. faults' \in 0..MaxFaults
  BY MachineLimits DEF IInv, TypeOK, Fault, TimeoutPasses, teardown
<1>5. TypeOK'
  BY <1>1, <1>2, <1>3, <1>4 DEF IInv, TypeOK
<1>6. OrderInv'
  BY DEF IInv, OrderInv, TimeoutPasses, teardown, Busy
<1>7. DeletionInv'
  BY DEF IInv, DeletionInv, TimeoutPasses, teardown, Busy
<1>8. RecordedInv'
  BY DEF IInv, RecordedInv, TimeoutPasses, teardown
<1>9. VMInv' /\ CountInv'
  BY <1>1, Kept
<1>. QED
  BY <1>5, <1>6, <1>7, <1>8, <1>9 DEF IInv

LEMMA BootsInv ==
    ASSUME IInv, Boots
    PROVE  IInv'
<1>1. UNCHANGED <<crd, cache, worker, node, password, made, recorded, faults, commands, namespace, orphaned>>
  BY DEF Boots, teardown
<1>2. vm' \in [id : VMIds \cup {NoVM}, status : {"absent", "pending", "running", "stopped"}]
  BY DEF IInv, TypeOK, Boots, teardown
<1>3. TypeOK'
  BY <1>1, <1>2 DEF IInv, TypeOK
<1>4. VMInv'
  BY DEF IInv, VMInv, Boots, teardown
<1>5. RecordedInv'
  BY DEF IInv, RecordedInv, Boots, teardown
<1>6. OrderInv' /\ DeletionInv' /\ CountInv'
  BY <1>1, Kept
<1>. QED
  BY <1>3, <1>4, <1>5, <1>6 DEF IInv

LEMMA InterruptedInv ==
    ASSUME IInv, Interrupted
    PROVE  IInv'
<1>1. UNCHANGED <<crd, cache, worker, node, password, made, recorded, commands, namespace, orphaned>>
  BY DEF Interrupted, teardown
<1>2. vm' \in [id : VMIds \cup {NoVM}, status : {"absent", "pending", "running", "stopped"}]
  BY DEF IInv, TypeOK, Interrupted, teardown
<1>3. faults' \in 0..MaxFaults
  BY MachineLimits DEF IInv, TypeOK, Fault, Interrupted, teardown
<1>4. TypeOK'
  BY <1>1, <1>2, <1>3 DEF IInv, TypeOK
<1>5. VMInv'
  BY DEF IInv, VMInv, Interrupted, teardown
<1>6. RecordedInv'
  BY DEF IInv, RecordedInv, Interrupted, teardown
<1>7. OrderInv' /\ DeletionInv' /\ CountInv'
  BY <1>1, Kept
<1>. QED
  BY <1>4, <1>5, <1>6, <1>7 DEF IInv

LEMMA NodeRegistersInv ==
    ASSUME IInv, NodeRegisters
    PROVE  IInv'
<1>1. UNCHANGED <<crd, cache, worker, vm, made, recorded, faults, commands, namespace, orphaned>>
  BY DEF NodeRegisters, teardown
<1>2. node' \in [vm : VMIds \cup {NoVM}, ready : BOOLEAN]
  BY DEF IInv, TypeOK, NodeRegisters, teardown
<1>3. password' \in VMIds \cup {NoVM}
  BY DEF IInv, TypeOK, NodeRegisters, teardown
<1>4. TypeOK'
  BY <1>1, <1>2, <1>3 DEF IInv, TypeOK
<1>5. VMInv' /\ OrderInv' /\ DeletionInv' /\ CountInv' /\ RecordedInv'
  BY <1>1, Kept
<1>. QED
  BY <1>4, <1>5 DEF IInv

LEMMA NodeLostInv ==
    ASSUME IInv, NodeLost
    PROVE  IInv'
<1>1. UNCHANGED <<crd, cache, worker, vm, password, made, recorded, commands, namespace, orphaned>>
  BY DEF NodeLost, teardown
<1>2. node' \in [vm : VMIds \cup {NoVM}, ready : BOOLEAN]
  BY DEF IInv, TypeOK, NodeLost, teardown
<1>3. faults' \in 0..MaxFaults
  BY MachineLimits DEF IInv, TypeOK, Fault, NodeLost, teardown
<1>4. TypeOK'
  BY <1>1, <1>2, <1>3 DEF IInv, TypeOK
<1>5. VMInv' /\ OrderInv' /\ DeletionInv' /\ CountInv' /\ RecordedInv'
  BY <1>1, Kept
<1>. QED
  BY <1>4, <1>5 DEF IInv

-----------------------------------------------------------------------------
(* The theorems.                                                           *)

LEMMA InitInv == Init => IInv
<1>. SUFFICES ASSUME Init PROVE IInv
  OBVIOUS
<1>1. crd \in Machines /\ crd.instanceId = NoVM /\ crd.exists /\ ~crd.deleting /\ ~crd.finalizer
  <2>1. PICK spot \in BOOLEAN : crd = NewMachine(spot)
    BY DEF Init
  <2>2. 0 \in 0..MaxReplacementRetries
    BY MachineLimits
  <2>. QED
    BY <2>1, <2>2 DEF NewMachine, Machines, Phases
<1>2. TypeOK
  <2>1. /\ 0 \in 0..MaxVMs /\ 0 \in 0..MaxFaults /\ 0 \in 0..MaxCommands
        /\ vm = [id |-> NoVM, status |-> "absent"] /\ node = NoNode
    BY MachineLimits DEF Init
  <2>2. /\ vm \in [id : VMIds \cup {NoVM}, status : {"absent", "pending", "running", "stopped"}]
        /\ node \in [vm : VMIds \cup {NoVM}, ready : BOOLEAN]
    BY <2>1 DEF NoNode
  <2>. QED
    BY <1>1, <2>1, <2>2 DEF Init, TypeOK
<1>3. VMInv /\ OrderInv /\ DeletionInv /\ CountInv /\ RecordedInv
  BY <1>1 DEF Init, VMInv, OrderInv, DeletionInv, CountInv, RecordedInv, Busy, Idle, NoVM
<1>. QED
  BY <1>2, <1>3 DEF IInv

LEMMA NextInv ==
    ASSUME IInv, [Next]_vars
    PROVE  IInv'
<1>1. ASSUME NEW err \in BOOLEAN, Reconcile(err)
      PROVE  IInv'
  BY <1>1, ReconcileInv
<1>2. CASE WorkerStep \/ Abandon
  BY <1>2, CountReplacementInv, CleanupStaleNodeInv, CreateDeletesStaleInv,
     CreateInstanceInv, RecordInstanceInv, CallProviderInv, UpdatePhaseInv,
     BypassFinalizerInv, BeginDeletionInv, DeleteInstanceInv, RemoveFinalizerInv, AbandonInv
     DEF WorkerStep
<1>3. ASSUME NEW d \in {"Running", "Stopped"}, SetMachineDesiredPhase(d)
      PROVE  IInv'
  BY <1>3, SetMachineDesiredPhaseInv
<1>4. CASE \/ CacheSync \/ TimeoutPasses \/ DeleteNamespace \/ DeleteMachine
           \/ Boots \/ Interrupted \/ NodeRegisters \/ NodeLost
  BY <1>4, CacheSyncInv, TimeoutPassesInv, DeleteNamespaceInv, DeleteMachineInv, BootsInv, InterruptedInv,
     NodeRegistersInv, NodeLostInv
<1>5. CASE UNCHANGED vars
  <2>1. TypeOK'
    BY <1>5 DEF vars, IInv, TypeOK
  <2>. QED
    BY <1>5, <2>1, Kept DEF vars, IInv
<1>. QED
  BY <1>1, <1>2, <1>3, <1>4, <1>5 DEF Next

\* The strengthening is inductive, so it holds of every reachable state.
LEMMA Inductive == Spec => []IInv
  BY InitInv, NextInv, PTL DEF Spec

\* The resource, its copies, the VM, the Node and the counters keep their types;
\* with replacements among them, the state machine never counts an attempt beyond
\* MaxReplacementRetries, although merge patches come from stale copies.
THEOREM MachineTypeCorrect == Spec => []TypeOK
<1>1. IInv => TypeOK
  BY DEF IInv
<1>. QED
  BY Inductive, <1>1, PTL

\* handleDeletion removes the VM the status recorded before the request, however
\* stale its copy, whatever failed and wherever the controller restarted; the one
\* VM it leaves is one that the teardown of the namespace flagged as orphaned.
THEOREM NoRecordedVMLeft == Spec => []RecordedVMDeleted
<1>1. ASSUME IInv, ~crd.exists, vm.id \in recorded
      PROVE  vm.id \in orphaned
  BY <1>1 DEF IInv, RecordedInv
<1>2. IInv => RecordedVMDeleted
  BY <1>1 DEF RecordedVMDeleted
<1>. QED
  BY Inductive, <1>2, PTL
=============================================================================
