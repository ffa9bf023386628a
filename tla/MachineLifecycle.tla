-------------------------- MODULE MachineLifecycle --------------------------
(***************************************************************************)
(* The Machine controller (pkg/controllers/machine) on the GCE path: one   *)
(* Machine resource, the reconciler that drives it, its VM, and the        *)
(* Kubernetes Node the VM registers.                                       *)
(*                                                                         *)
(* The reconciler reads the Machine from an informer cache that may lag    *)
(* behind the API server, calls the provider, and patches the status with  *)
(* merge patches that carry only the fields it changed.  It may stop       *)
(* between any two of those steps.  The provider knows the VM by a name    *)
(* derived from the Machine's, so at most one exists at a time; an         *)
(* instance id names one incarnation of it.                                *)
(***************************************************************************)
EXTENDS Naturals

CONSTANTS
    MaxReplacementRetries,  \* the code's limit, 3
    MaxVMs,                 \* bound: instance ids the provider hands out
    MaxFaults,              \* bound: interruptions, failed calls, crashes
    MaxCommands             \* bound: stop, delete and namespace deletion requests

ASSUME MachineLimits ==
    /\ MaxReplacementRetries \in Nat \ {0}
    /\ MaxVMs \in Nat /\ MaxFaults \in Nat /\ MaxCommands \in Nat

VARIABLES
    crd,        \* the Machine resource at the API server
    cache,      \* the informer's copy of it
    worker,     \* the reconcile in progress
    vm,         \* the provider's VM of this Machine's name
    node,       \* the Node labelled with this Machine, by the VM behind it
    password,   \* the VM whose k3s node password is on record
    made,       \* instance ids handed out so far
    recorded,   \* history: ids the status held before deletion was requested
    namespace,  \* "active", or "terminating" once its deletion was requested
    orphaned,   \* history: ids flagged as left to the operator
    faults, commands

vars == <<crd, cache, worker, vm, node, password, made, recorded,
          namespace, orphaned, faults, commands>>
teardown == <<namespace, orphaned>>

NoVM == 0
VMIds == 1..MaxVMs
Phases == {"", "Provisioning", "Ready", "Running", "Stopping", "Stopped",
           "Preempted", "Replacing", "Failed"}

(* `overdue': lastTransition lies further back than the phase's timeout. *)
Machines ==
    [exists : BOOLEAN, finalizer : BOOLEAN, deleting : BOOLEAN,
     desired : {"Running", "Stopped"}, spot : BOOLEAN, phase : Phases,
     instanceId : VMIds \cup {NoVM},
     replacements : 0..MaxReplacementRetries, overdue : BOOLEAN]

Actions == {"CreateInstance", "WaitForNode", "MarkFailed", "UpdateStatus",
            "StopVM", "ForceStopVM", "StartInstance", "BeginReplacement",
            "CreateReplacementInstance", "CompleteReplacement",
            "MarkReplacementFailed"}

Idle == [step |-> "idle"]
Reconciles ==
    [step : {"count", "clean", "create", "record", "act", "phase",
             "delete", "unregister"},
     m : Machines, action : Actions \cup {"Delete"}, next : Phases,
     vm : VMIds \cup {NoVM}]

TypeOK ==
    /\ crd \in Machines /\ cache \in Machines
    /\ worker \in Reconciles \cup {Idle}
    /\ vm \in [id : VMIds \cup {NoVM},
               status : {"absent", "pending", "running", "stopped"}]
    /\ node \in [vm : VMIds \cup {NoVM}, ready : BOOLEAN]
    /\ password \in VMIds \cup {NoVM}
    /\ made \in 0..MaxVMs
    /\ recorded \in SUBSET VMIds
    /\ namespace \in {"active", "terminating"}
    /\ orphaned \in SUBSET VMIds
    /\ faults \in 0..MaxFaults /\ commands \in 0..MaxCommands

NewMachine(spot) ==
    [exists |-> TRUE, finalizer |-> FALSE, deleting |-> FALSE,
     desired |-> "Running", spot |-> spot, phase |-> "",
     instanceId |-> NoVM, replacements |-> 0, overdue |-> FALSE]

NoNode == [vm |-> NoVM, ready |-> FALSE]

Init ==
    /\ \E spot \in BOOLEAN : crd = NewMachine(spot)
    /\ cache = crd
    /\ worker = Idle
    /\ vm = [id |-> NoVM, status |-> "absent"]
    /\ node = NoNode
    /\ password = NoVM
    /\ made = 0
    /\ recorded = {}
    /\ namespace = "active" /\ orphaned = {}
    /\ faults = 0 /\ commands = 0

Fault == faults < MaxFaults /\ faults' = faults + 1

-----------------------------------------------------------------------------
(* The state machine and what the reconciler observes. *)

Row(phase, event, action, next) ==
    [phase |-> phase, event |-> event, action |-> action, next |-> next]

(* state_machine.go: NextPhase. *)
NextPhase ==
    {Row("", "CRDCreated", "CreateInstance", "Provisioning"),
     Row("Provisioning", "InstanceRunningNodeReady", "UpdateStatus", "Ready"),
     Row("Provisioning", "InstanceRunningNodeNotReady", "WaitForNode", "Provisioning"),
     Row("Provisioning", "ProvisioningTimeout", "MarkFailed", "Failed"),
     Row("Ready", "AgentScheduled", "UpdateStatus", "Running"),
     Row("Running", "AllAgentsRemoved", "UpdateStatus", "Ready"),
     Row("Stopping", "AllAgentsStoppedVMStopped", "UpdateStatus", "Stopped"),
     Row("Stopping", "StoppingTimeout", "ForceStopVM", "Stopped"),
     Row("Stopped", "DesiredRunning", "StartInstance", "Provisioning"),
     Row("Preempted", "ReplacementStarted", "CreateReplacementInstance", "Replacing"),
     Row("Replacing", "ReplacementSucceeded", "CompleteReplacement", "Ready"),
     Row("Replacing", "ReplacementFailed", "CreateReplacementInstance", "Replacing"),
     Row("Failed", "DesiredRunning", "CreateInstance", "Provisioning")}
    \cup
    (UNION {{Row(p, "DesiredStopped", "StopVM", "Stopping"),
             Row(p, "NodeDisappearedPreempted", "BeginReplacement", "Preempted"),
             Row(p, "NodeDisappearedFailed", "MarkFailed", "Failed")}
            : p \in {"Ready", "Running"}})
    \cup
    {Row(p, "ReplacementRetryLimitReached", "MarkReplacementFailed", "Failed")
     : p \in {"Preempted", "Replacing"}}

(* Observe, as CapacityObservationFromInstance reads it: a terminated spot  *)
(* VM counts as interrupted, whoever stopped it.  `err': the call failed.   *)
Observed(m, err) ==
    IF err \/ vm.id # m.instanceId \/ vm.status = "absent" THEN "error"
    ELSE IF vm.status = "stopped" /\ m.spot THEN "interrupted"
    ELSE vm.status

NodeReady == node.vm # NoVM /\ node.ready

ReplacementRetryExceeded(m) == m.replacements >= MaxReplacementRetries

(* classifyNodeDisappeared *)
NodeDisappeared(m, err) ==
    IF Observed(m, err) = "interrupted"
    THEN "NodeDisappearedPreempted" ELSE "NodeDisappearedFailed"

(* faulty variant: waits for the node without a timeout *)
ClassifyProvisioningUntimed(m, err) ==
    IF m.instanceId = NoVM \/ Observed(m, err) = "error" THEN {}
    ELSE IF Observed(m, err) = "running" /\ NodeReady
         THEN {"InstanceRunningNodeReady"}
         ELSE {"InstanceRunningNodeNotReady"}

ClassifyProvisioning(m, err) ==
    IF m.overdue THEN {"ProvisioningTimeout"}
    ELSE IF m.instanceId = NoVM \/ Observed(m, err) = "error" THEN {}
    ELSE IF Observed(m, err) = "running" /\ NodeReady
         THEN {"InstanceRunningNodeReady"}
         ELSE {"InstanceRunningNodeNotReady"}

(* classifyReady and classifyRunning.  countAgentPods may give any answer;  *)
(* one that fits the phase is no event of NextPhase.                        *)
ClassifyUp(m, err) ==
    IF m.desired = "Stopped" THEN {"DesiredStopped"}
    ELSE IF ~NodeReady THEN {NodeDisappeared(m, err)}
    ELSE {"AgentScheduled", "AllAgentsRemoved"}

(* faulty variant: waits for the VM to be stopped without a timeout *)
ClassifyStoppingUntimed(m, err) ==
    IF m.instanceId # NoVM /\ Observed(m, err) = "stopped"
    THEN {"AllAgentsStoppedVMStopped"} ELSE {}

(* The pods may drain at any time or not at all. *)
ClassifyStopping(m, err) ==
    IF m.overdue THEN {"StoppingTimeout"}
    ELSE IF m.instanceId # NoVM /\ Observed(m, err) = "stopped"
         THEN {"AllAgentsStoppedVMStopped"} ELSE {}

ClassifyReplacing(m, err) ==
    IF ReplacementRetryExceeded(m) THEN {"ReplacementRetryLimitReached"}
    ELSE IF m.instanceId = NoVM THEN {}
    ELSE IF Observed(m, err) = "interrupted" THEN {"ReplacementFailed"}
    ELSE IF Observed(m, err) = "running" /\ NodeReady
         THEN {"ReplacementSucceeded"} ELSE {}

(* classifyEvent: the event, if any, that a reconcile of the copy m finds.  *)
ClassifyEvent(m, err) ==
    CASE m.phase = ""                     -> {"CRDCreated"}
      [] m.phase \in {"Stopped", "Failed"} ->
            IF m.desired = "Running" THEN {"DesiredRunning"} ELSE {}
      [] m.phase = "Provisioning"         -> ClassifyProvisioning(m, err)
      [] m.phase \in {"Ready", "Running"} -> ClassifyUp(m, err)
      [] m.phase = "Stopping"             -> ClassifyStopping(m, err)
      [] m.phase = "Preempted"            ->
            IF ReplacementRetryExceeded(m)
            THEN {"ReplacementRetryLimitReached"} ELSE {"ReplacementStarted"}
      [] m.phase = "Replacing"            -> ClassifyReplacing(m, err)

-----------------------------------------------------------------------------
(* The reconciler. *)

(* A merge patch: the fields in which `new' differs from the copy `base'.   *)
(* The answer refreshes the reconciler's copy.                              *)
Merge(base, new) ==
    [f \in DOMAIN crd |-> IF new[f] # base[f] THEN new[f] ELSE crd[f]]

FirstStep(m, action) ==
    CASE action = "CreateReplacementInstance" -> "count"
      [] action = "CreateInstance" ->
            IF m.instanceId # NoVM THEN "clean" ELSE "create"
      [] action \in {"StopVM", "ForceStopVM", "StartInstance"} -> "act"
      [] OTHER -> "phase"

(* Reconcile up to executeAction, ensureFinalizer included. *)
Reconcile(err) ==
    /\ worker = Idle
    /\ cache.exists /\ ~cache.deleting
    /\ crd.exists \/ cache.finalizer
    /\ \E r \in NextPhase :
          /\ r.phase = cache.phase
          /\ r.event \in ClassifyEvent(cache, err)
          /\ worker' = [step |-> FirstStep(cache, r.action),
                        m |-> [cache EXCEPT !.finalizer = TRUE],
                        action |-> r.action, next |-> r.next, vm |-> NoVM]
    /\ crd' = [crd EXCEPT !.finalizer = TRUE]
    /\ IF err THEN Fault ELSE UNCHANGED faults
    /\ UNCHANGED <<cache, vm, node, password, made, recorded, commands, teardown>>

(* ActionCreateReplacementInstance counts the attempt before it is made. *)
CountReplacement ==
    /\ worker.step = "count" /\ crd.exists
    /\ crd' = Merge(worker.m, [worker.m EXCEPT !.replacements = @ + 1])
    /\ worker' = [worker EXCEPT !.step = "clean", !.m = crd']
    /\ UNCHANGED <<cache, vm, node, password, made, recorded, faults, commands, teardown>>

(* cleanupStaleNodeArtifacts: of each listed node, first the password, then *)
(* the Node.  Every call of it may fail and none stops the create.          *)
CleanupStaleNode ==
    /\ worker.step = "clean"
    /\ worker' = [worker EXCEPT !.step = "create"]
    /\ \/ /\ password' = IF node.vm # NoVM THEN NoVM ELSE password
          /\ node' = NoNode
          /\ UNCHANGED faults
       \/ /\ node.vm # NoVM
          /\ Fault
          /\ \/ node' = NoNode /\ UNCHANGED password
             \/ password' = NoVM /\ UNCHANGED node
             \/ UNCHANGED <<node, password>>
    /\ UNCHANGED <<crd, cache, vm, made, recorded, commands, teardown>>

(* CreateInstance meets a stopped VM of the same name and deletes it. *)
CreateDeletesStale ==
    /\ worker.step = "create" /\ vm.status = "stopped"
    /\ vm' = [id |-> NoVM, status |-> "absent"]
    /\ UNCHANGED <<crd, cache, worker, node, password, made, recorded, faults, commands, teardown>>

(* CreateInstance inserts the VM, or adopts the one that is there. *)
CreateInstance ==
    /\ worker.step = "create" /\ vm.status # "stopped"
    /\ IF vm.status = "absent"
       THEN /\ made < MaxVMs
            /\ made' = made + 1
            /\ vm' = [id |-> made + 1, status |-> "pending"]
       ELSE UNCHANGED <<made, vm>>
    /\ worker' = [worker EXCEPT !.step = "record", !.vm = vm'.id]
    /\ UNCHANGED <<crd, cache, node, password, recorded, faults, commands, teardown>>

(* The patch of status.instanceId that follows a create. *)
RecordInstance ==
    /\ worker.step = "record" /\ crd.exists
    /\ crd' = Merge(worker.m, [worker.m EXCEPT !.instanceId = worker.vm])
    /\ worker' = [worker EXCEPT !.step = "phase", !.m = crd']
    /\ recorded' = IF crd.deleting THEN recorded ELSE recorded \cup {worker.vm}
    /\ UNCHANGED <<cache, vm, node, password, made, faults, commands, teardown>>

(* ActionStopVM, ActionForceStopVM and ActionStartInstance.  A forced stop  *)
(* proceeds when the provider refuses it; the others end the reconcile.     *)
CallProvider ==
    /\ worker.step = "act"
    /\ LET found == worker.m.instanceId = vm.id /\ vm.status # "absent"
           done  == worker' = [worker EXCEPT !.step = "phase"]
       IN \/ /\ worker.action \in {"StopVM", "ForceStopVM"} /\ found
             /\ vm' = [vm EXCEPT !.status = "stopped"]
             /\ done /\ UNCHANGED faults
          \/ /\ worker.action = "StopVM" /\ worker.m.instanceId = NoVM
             /\ done /\ UNCHANGED <<vm, faults>>
          \/ /\ worker.action = "ForceStopVM"
             /\ IF found THEN Fault ELSE UNCHANGED faults
             /\ done /\ UNCHANGED vm
          \/ /\ worker.action = "StartInstance" /\ found
             /\ vm' = [vm EXCEPT !.status = IF @ = "stopped" THEN "pending" ELSE @]
             /\ done /\ UNCHANGED faults
          \/ /\ worker.action = "StartInstance" \/ worker.m.instanceId # NoVM
             /\ worker.action # "ForceStopVM" /\ ~found
             /\ worker' = Idle /\ UNCHANGED <<vm, faults>>
    /\ UNCHANGED <<crd, cache, node, password, made, recorded, commands, teardown>>

(* updatePhase: a self-transition writes nothing, lastTransition included.  *)
UpdatePhase ==
    /\ worker.step = "phase" /\ crd.exists
    /\ crd' = IF worker.m.phase = worker.next THEN crd
              ELSE [Merge(worker.m, [worker.m EXCEPT !.phase = worker.next])
                       EXCEPT !.overdue = FALSE]
    /\ worker' = Idle
    /\ UNCHANGED <<cache, vm, node, password, made, recorded, faults, commands, teardown>>

(* handleDeletion where the namespace is terminating: the finalizer goes at *)
(* once, and a VM on record is left running and flagged.                    *)
BypassFinalizer ==
    /\ worker = Idle
    /\ cache.exists /\ cache.deleting /\ cache.finalizer
    /\ namespace = "terminating"
    /\ orphaned' = orphaned \cup ({cache.instanceId} \ {NoVM})
    /\ \/ /\ crd' = [crd EXCEPT !.exists = FALSE, !.finalizer = FALSE]
          /\ UNCHANGED faults
       \/ Fault /\ UNCHANGED crd
    /\ UNCHANGED <<cache, worker, vm, node, password, made, recorded, namespace, commands>>

(* handleDeletion otherwise.  A namespace whose copy lags or cannot be read *)
(* counts as not terminating, so this is possible in every one.             *)
BeginDeletion ==
    /\ worker = Idle
    /\ cache.exists /\ cache.deleting /\ cache.finalizer
    /\ worker' = [step |-> "delete", m |-> cache, action |-> "Delete",
                  next |-> cache.phase, vm |-> NoVM]
    /\ UNCHANGED <<crd, cache, vm, node, password, made, recorded, faults, commands, teardown>>

(* faulty variant: goes on although the provider refused the call *)
DeleteInstanceUnchecked ==
    /\ worker.step = "delete"
    /\ \/ /\ vm' = IF worker.m.instanceId # NoVM /\ worker.m.instanceId = vm.id
                   THEN [id |-> NoVM, status |-> "absent"] ELSE vm
          /\ UNCHANGED faults
       \/ Fault /\ UNCHANGED vm
    /\ worker' = [worker EXCEPT !.step = "unregister"]
    /\ UNCHANGED <<crd, cache, node, password, made, recorded, commands, teardown>>

(* faulty variant: an instance that is not found is an error, retried *)
DeleteInstanceStrict ==
    /\ worker.step = "delete"
    /\ IF worker.m.instanceId \in {NoVM, vm.id}
       THEN /\ vm' = IF worker.m.instanceId = NoVM THEN vm
                     ELSE [id |-> NoVM, status |-> "absent"]
            /\ worker' = [worker EXCEPT !.step = "unregister"]
       ELSE UNCHANGED vm /\ worker' = Idle
    /\ UNCHANGED <<crd, cache, node, password, made, recorded, faults, commands, teardown>>

(* DeleteInstance by the recorded id; an id that is not found is no error.  *)
DeleteInstance ==
    /\ worker.step = "delete"
    /\ vm' = IF worker.m.instanceId # NoVM /\ worker.m.instanceId = vm.id
             THEN [id |-> NoVM, status |-> "absent"] ELSE vm
    /\ worker' = [worker EXCEPT !.step = "unregister"]
    /\ UNCHANGED <<crd, cache, node, password, made, recorded, faults, commands, teardown>>

(* The Node goes, if its deletion succeeds, and then the finalizer. *)
RemoveFinalizer ==
    /\ worker.step = "unregister"
    /\ \/ node' = NoNode /\ UNCHANGED faults
       \/ node.vm # NoVM /\ Fault /\ UNCHANGED node
    /\ crd' = [crd EXCEPT !.exists = FALSE, !.finalizer = FALSE]
    /\ worker' = Idle
    /\ UNCHANGED <<cache, vm, password, made, recorded, commands, teardown>>

(* A call fails, or the controller restarts: what was done stays done. *)
Abandon ==
    /\ worker # Idle
    /\ \/ Fault
       \/ ~crd.exists /\ UNCHANGED faults
    /\ worker' = Idle
    /\ UNCHANGED <<crd, cache, vm, node, password, made, recorded, commands, teardown>>

-----------------------------------------------------------------------------
(* Everything else. *)

(* The informer catches up. *)
CacheSync ==
    /\ cache # crd
    /\ cache' = crd
    /\ UNCHANGED <<crd, worker, vm, node, password, made, recorded, faults, commands, teardown>>

Command == commands < MaxCommands /\ commands' = commands + 1

SetMachineDesiredPhase(d) ==
    /\ crd.exists /\ crd.desired # d
    /\ IF d = "Stopped" THEN Command ELSE UNCHANGED commands
    /\ crd' = [crd EXCEPT !.desired = d]
    /\ UNCHANGED <<cache, worker, vm, node, password, made, recorded, faults, teardown>>

(* The deletion of a namespace requests that of everything in it. *)
DeleteNamespace ==
    /\ namespace = "active"
    /\ Command
    /\ namespace' = "terminating"
    /\ UNCHANGED <<crd, cache, worker, vm, node, password, made, recorded, orphaned, faults>>

DeleteMachine ==
    /\ crd.exists /\ ~crd.deleting
    /\ IF namespace = "active" THEN Command ELSE UNCHANGED commands
    /\ crd' = [crd EXCEPT !.deleting = TRUE, !.exists = crd.finalizer]
    /\ UNCHANGED <<cache, worker, vm, node, password, made, recorded, faults, teardown>>

(* Ten minutes are enough for a VM that can come up, unless it is slow,     *)
(* which is a fault; five minutes of Stopping may always pass.              *)
TimeoutPasses ==
    /\ crd.phase \in {"Provisioning", "Stopping"} /\ ~crd.overdue
    /\ IF /\ crd.phase = "Provisioning" /\ crd.instanceId = vm.id
          /\ vm.status \in {"pending", "running"}
          /\ password \in {NoVM, vm.id}
       THEN Fault ELSE UNCHANGED faults
    /\ crd' = [crd EXCEPT !.overdue = TRUE]
    /\ cache' = [cache EXCEPT !.overdue = TRUE]
    /\ UNCHANGED <<worker, vm, node, password, made, recorded, commands, teardown>>

Boots ==
    /\ vm.status = "pending"
    /\ vm' = [vm EXCEPT !.status = "running"]
    /\ UNCHANGED <<crd, cache, worker, node, password, made, recorded, faults, commands, teardown>>

(* Preemption of a spot VM, or any VM going down by itself. *)
Interrupted ==
    /\ vm.status \in {"pending", "running"}
    /\ Fault
    /\ vm' = [vm EXCEPT !.status = "stopped"]
    /\ UNCHANGED <<crd, cache, worker, node, password, made, recorded, commands, teardown>>

(* k3s admits a VM under this host name only with the password on record.   *)
NodeRegisters ==
    /\ vm.status = "running"
    /\ password \in {NoVM, vm.id}
    /\ node # [vm |-> vm.id, ready |-> TRUE]
    /\ node' = [vm |-> vm.id, ready |-> TRUE]
    /\ password' = vm.id
    /\ UNCHANGED <<crd, cache, worker, vm, made, recorded, faults, commands, teardown>>

NodeLost ==
    /\ NodeReady
    /\ IF node.vm = vm.id /\ vm.status = "running" THEN Fault ELSE UNCHANGED faults
    /\ node' = [node EXCEPT !.ready = FALSE]
    /\ UNCHANGED <<crd, cache, worker, vm, password, made, recorded, commands, teardown>>

WorkerStep ==
    \/ CountReplacement \/ CleanupStaleNode \/ CreateDeletesStale
    \/ CreateInstance \/ RecordInstance \/ CallProvider \/ UpdatePhase
    \/ BypassFinalizer \/ BeginDeletion \/ DeleteInstance \/ RemoveFinalizer

Next ==
    \/ \E err \in BOOLEAN : Reconcile(err)
    \/ WorkerStep \/ Abandon
    \/ CacheSync \/ TimeoutPasses
    \/ \E d \in {"Running", "Stopped"} : SetMachineDesiredPhase(d)
    \/ DeleteNamespace \/ DeleteMachine
    \/ Boots \/ Interrupted \/ NodeRegisters \/ NodeLost

Spec == Init /\ [][Next]_vars

(* The controller keeps running, its cache catches up, time passes, a VM    *)
(* that can boot and register does, and a dead VM's node goes NotReady.     *)
Fairness ==
    /\ WF_vars(Reconcile(FALSE) \/ WorkerStep) /\ WF_vars(CacheSync)
    /\ WF_vars(TimeoutPasses) /\ WF_vars(Boots \/ NodeRegisters)
    /\ WF_vars(NodeLost)

FairSpec == Spec /\ Fairness

-----------------------------------------------------------------------------
(* Properties. *)

Wanted == crd.exists /\ ~crd.deleting /\ crd.desired = "Running"

(* handleDeletion: a VM whose id the status held when deletion was          *)
(* requested outlives the Machine only if the teardown of the namespace     *)
(* flagged it as orphaned, whatever a stale copy, a failed call or a crash  *)
(* between CreateInstance and the patch of instanceId did.                  *)
RecordedVMDeleted ==
    ~crd.exists /\ vm.status # "absent" /\ vm.id \in recorded
        => vm.id \in orphaned

(* The VM on record is gone, or k3s holds an earlier VM's node password and *)
(* refuses this one.                                                        *)
Unreachable == crd.instanceId # vm.id \/ password \notin {NoVM, vm.id}

(* classifyProvisioning, classifyReplacing and the Failed row: a Machine     *)
(* that stays wanted comes up, and up again however often it is interrupted, *)
(* unless its VM is out of reach for ever.                                  *)
ComesUp ==
    <>[]Wanted => []<>(crd.phase \in {"Ready", "Running"}) \/ <>[]Unreachable

(* classifyStopping: a Machine that stays unwanted comes to rest, with the  *)
(* same exception.                                                          *)
ComesToRest ==
    <>[](crd.exists /\ crd.desired = "Stopped")
        => []<>(crd.phase \in {"Stopped", "Failed"}) \/ <>[]Unreachable

(* handleDeletion: a Machine whose deletion was requested disappears. *)
GoesAway == crd.deleting ~> ~crd.exists

(* "a Machine with desired availability Online keeps reconciling until      *)
(* capacity returns": ComesUp without its exception, which                  *)
(* cleanupStaleNodeArtifacts makes when it fails half way.                  *)
KeepsReconciling ==
    <>[]Wanted => []<>(crd.phase \in {"Ready", "Running"})
=============================================================================
