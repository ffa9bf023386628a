--------------------------- MODULE AgentLifecycle ---------------------------
(***************************************************************************)
(* The Agent controller (pkg/controllers/agent): one Agent resource, the   *)
(* reconciler that drives it, its pod, the machine the pod runs on, and    *)
(* the operator.                                                           *)
(*                                                                         *)
(* A reconcile reads the Agent, derives one event, and carries out that     *)
(* event's action as a sequence of API calls: merge patches of the Agent,  *)
(* pod deletions and creations, and last the patch of status.phase.  It    *)
(* may fail or the controller may restart between any two of them.  The    *)
(* Agent comes from an informer cache: at the cost of a fault a reconcile  *)
(* starts from the copy that the one before it started from.  A pod runs   *)
(* with restartPolicy Never.                                               *)
(***************************************************************************)
EXTENDS Naturals, Sequences

CONSTANTS
    MaxRestartRetries,  \* the code's limit, 3
    MaxOrphanAttempts,  \* the code's limit, 5
    MaxFaults,          \* bound: outages, failed calls, crashes, evictions
    MaxCommands,        \* bound: operator requests
    Verbs,              \* the operator requests that this instance makes
    Bridge              \* the pod has a chat bridge, which outlives the agent

ASSUME AgentLimits ==
    /\ MaxRestartRetries \in Nat \ {0} /\ MaxOrphanAttempts \in Nat \ {0}
    /\ MaxFaults \in Nat /\ MaxCommands \in Nat
    /\ Bridge \in BOOLEAN

VARIABLES
    crd,        \* the Agent resource at the API server
    cache,      \* the copy the latest reconcile started from
    worker,     \* the reconcile in progress
    pod,        \* the agent's pod: its name admits one at a time
    machine,    \* [ready: the Machine's phase, node: the Node's condition]
    secret,     \* version of the runtime credential
    faults, commands

vars == <<crd, cache, worker, pod, machine, secret, faults, commands>>

Phases == {"", "Creating", "Starting", "Running", "Stopping", "Stopped",
           "Restarting", "Failed", "NeedsAuth", "BrokenRuntime",
           "MemoryExhausted", "Draining", "WaitingForMachine"}
Desired == {"", "Running", "Stopped", "Restarting", "NeedsAuth"}

(* What status.recoveryInput may name; "" is no claim. *)
Inputs == {<<"">>} \cup ({"auth", "mem"} \X (0..MaxCommands))

(* life: new has no finalizer yet.  overdue: lastTransition lies further    *)
(* back than the timeout or back-off of the phase.  held, awaiting: the     *)
(* hold of an archive restore or of the identity repository, and the        *)
(* condition that records it.                                               *)
Agents ==
    [life : {"new", "live", "deleting", "gone"}, desired : Desired,
     mem : 0..MaxCommands, gen : Nat, observed : Nat, phase : Phases,
     restarts : Nat,
     claim : Inputs, overdue : BOOLEAN,
     held : BOOLEAN, awaiting : BOOLEAN, notice : BOOLEAN,
     orphans : 0..(MaxOrphanAttempts - 1)]

(* recorded: the patch of the phase to Creating followed the creation.       *)
Pods ==
    [state : {"none", "pending", "unschedulable", "starting", "ready", "exited"},
     cause : {"", "crash", "auth", "probe", "oom"},
     term : {"no", "recent", "late"}, recorded : BOOLEAN]

Steps == {"claim", "reset", "sweep", "create", "stamp", "delete", "kill",
          "evict", "clear", "count", "phase", "reap", "finish"}

Idle == [plan |-> <<>>]
NoCopy == [life |-> "none"]
Busy == [m : Agents, plan : Seq(Steps), next : Phases, seen : BOOLEAN]

TypeOK ==
    /\ crd \in Agents /\ cache \in Agents \cup {NoCopy}
    /\ worker \in Busy \cup {Idle}
    /\ pod \in Pods
    /\ machine \in [ready : BOOLEAN, node : BOOLEAN]
    /\ secret \in 0..MaxCommands
    /\ faults \in 0..MaxFaults /\ commands \in 0..MaxCommands

NewAgent(desired, held) ==
    [life |-> "new", desired |-> desired, mem |-> 0, gen |-> 1, observed |-> 0,
     phase |-> "", restarts |-> 0, claim |-> <<"">>, overdue |-> FALSE,
     held |-> held, awaiting |-> FALSE, notice |-> FALSE,
     orphans |-> 0]

NoPod == [state |-> "none", cause |-> "", term |-> "no", recorded |-> TRUE]

Init ==
    /\ crd \in {NewAgent("Running", FALSE), NewAgent("Running", TRUE),
               NewAgent("Stopped", FALSE)}
    /\ cache = crd
    /\ worker = Idle
    /\ pod = NoPod
    /\ machine = [ready |-> TRUE, node |-> TRUE]
    /\ secret = 0
    /\ faults = 0 /\ commands = 0

Fault == faults < MaxFaults /\ faults' = faults + 1

-----------------------------------------------------------------------------
(* The state machine. *)

Row(phase, event, action, next) ==
    [phase |-> phase, event |-> event, action |-> action, next |-> next]
Rows(phases, event, action, next) ==
    {Row(p, event, action, next) : p \in phases}

(* state_machine.go: NextPhase, without the disk and endpoint-credential    *)
(* rows, by the part of the table.                                          *)
StartRows ==
    Rows({""}, "CRDCreated", "CreatePod", "Creating")
    \cup Rows({""}, "CRDCreatedStopped", "UpdateStatus", "Stopped")
    \cup Rows({"Creating"}, "HoldReleased", "CreatePod", "Creating")
    \cup Rows({"Creating"}, "PodScheduled", "UpdateStatus", "Starting")
    \cup Rows({"Creating", "Starting"}, "PodScheduleFailed", "UpdateStatus", "Failed")
    \cup Rows({"Starting"}, "PodReady", "UpdateStatus", "Running")
    \cup Rows({"Starting"}, "StartupTimeout", "DeletePod", "Failed")

(* The same outcomes await a pod that ends while Starting and Running. *)
RunRows ==
    Rows({"Starting", "Running"}, "PodDied", "CountRestart", "Failed")
    \cup Rows({"Starting", "Running"}, "OAuthRefreshFailed", "UpdateStatus", "NeedsAuth")
    \cup Rows({"Starting", "Running"}, "RuntimeProbeFailed", "UpdateStatus", "BrokenRuntime")
    \cup Rows({"Starting", "Running"}, "OOMKilled", "UpdateStatus", "MemoryExhausted")
    \cup Rows({"Running", "BrokenRuntime"}, "DesiredRestarting", "Restart", "Restarting")

RecreateRows ==
    Rows({"Stopping"}, "PodTerminated", "UpdateStatus", "Stopped")
    \cup Rows({"Stopping"}, "GracePeriodExceeded", "KillPod", "Stopped")
    \cup Rows({"Stopped"}, "DesiredRunning", "CreatePod", "Creating")
    \cup Rows({"Restarting"}, "PodDeleted", "CreatePod", "Creating")
    \cup Rows({"Failed"}, "AutoRestartTriggered", "CreatePod", "Creating")
    \cup Rows({"Failed"}, "RetryLimitReached", "UpdateStatus", "Failed")

IntentRows ==
    Rows({"Failed", "NeedsAuth", "MemoryExhausted"}, "DesiredRunning",
         "ResetAndCreatePod", "Creating")
    \cup Rows({"Running", "Starting"}, "DesiredNeedsAuth", "DeletePod", "NeedsAuth")
    \cup Rows({"Failed", "MemoryExhausted", "Stopped"}, "DesiredNeedsAuth",
              "UpdateStatus", "NeedsAuth")
    \cup Rows({"Running", "Starting", "Failed", "MemoryExhausted", "BrokenRuntime"},
              "DesiredStopped", "DeletePod", "Stopping")
    \cup Rows({"WaitingForMachine"}, "DesiredStopped", "KillPod", "Stopped")

MachineRows ==
    Rows({"Running"}, "PreemptionNotice", "DeletePod", "Draining")
    \cup Rows({"Draining"}, "PodDeleted", "EvictPod", "WaitingForMachine")
    \cup Rows({"Running", "Starting", "Draining"}, "MachinePreempted",
              "EvictPod", "WaitingForMachine")
    \cup Rows({"Creating", "Starting", "Running", "Restarting"},
              "MachineUnavailable", "EvictPod", "WaitingForMachine")
    \cup Rows({"WaitingForMachine"}, "MachineReady", "CreatePod", "Creating")

NextPhase == StartRows \cup RunRows \cup RecreateRows \cup IntentRows \cup MachineRows

(* The API calls of executeAction for each action, and updatePhase after    *)
(* them.  A recovery input or a generation is claimed before all of them.   *)
Plan(action) ==
    CASE action = "UpdateStatus"      -> <<"phase">>
      [] action = "CreatePod"         -> <<"create", "stamp", "phase">>
      [] action = "ResetAndCreatePod" ->
            <<"claim", "reset", "sweep", "create", "stamp", "phase">>
      [] action = "DeletePod"         -> <<"delete", "phase">>
      [] action = "Restart"           -> <<"delete", "clear", "phase">>
      [] action = "KillPod"           -> <<"kill", "phase">>
      [] action = "EvictPod"          -> <<"evict", "phase">>
      [] action = "CountRestart"      -> <<"count", "phase">>

-----------------------------------------------------------------------------
(* classifyEvent. *)

HasPod == pod.state # "none"
Terminating == HasPod /\ pod.term # "no"
(* The pod's own phase is Failed or Succeeded. *)
Terminal == pod.state = "exited" /\ ~Bridge
Live == HasPod /\ ~Terminating /\ pod.state # "exited"

(* isMachinePreempted, for a spot machine. *)
MachinePreempted == ~machine.ready \/ ~machine.node

(* currentRecoveryInput *)
RecoveryInput(m) ==
    IF m.phase = "NeedsAuth" THEN <<"auth", secret>> ELSE <<"mem", m.mem>>

RecoveryInputChanged(m) == RecoveryInput(m) # m.claim

(* restartRequestChanged and SpecChangedSinceLastPod *)
RestartRequestChanged(m) == m.observed > 0 /\ m.gen > m.observed

(* faulty variant: Stop is honoured only while the agent runs *)
OperatorEventRunning(m) ==
    IF m.desired = "NeedsAuth"
       /\ m.phase \in {"Running", "Starting", "Failed", "MemoryExhausted", "Stopped"}
    THEN {"DesiredNeedsAuth"}
    ELSE IF m.desired = "Stopped" /\ m.phase \in {"Running", "Starting"}
    THEN {"DesiredStopped"}
    ELSE IF m.desired = "Restarting" /\ m.phase = "BrokenRuntime"
    THEN {"DesiredRestarting"}
    ELSE {}

(* The operator's intent, ahead of everything else. *)
OperatorEvent(m) ==
    IF m.desired = "NeedsAuth"
       /\ m.phase \in {"Running", "Starting", "Failed", "MemoryExhausted", "Stopped"}
    THEN {"DesiredNeedsAuth"}
    ELSE IF m.desired = "Stopped"
       /\ m.phase \in {"Running", "Starting", "Failed", "MemoryExhausted",
                       "BrokenRuntime", "WaitingForMachine"}
    THEN {"DesiredStopped"}
    ELSE IF m.desired = "Restarting" /\ m.phase = "BrokenRuntime"
    THEN {"DesiredRestarting"}
    ELSE {}

(* classifyRuntimeFailure and its neighbours: why the agent container ended. *)
ExitEvent ==
    CASE pod.cause = "probe" -> "RuntimeProbeFailed"
      [] pod.cause = "auth"  -> "OAuthRefreshFailed"
      [] pod.cause = "oom"   -> "OOMKilled"
      [] OTHER               -> "PodDied"

ClassifyFailed(m) ==
    IF m.desired = "Running" /\ RestartRequestChanged(m) THEN {"DesiredRunning"}
    ELSE IF m.restarts >= MaxRestartRetries THEN {"RetryLimitReached"}
    ELSE IF m.overdue THEN {"AutoRestartTriggered"}      \* shouldThrottleRestart
    ELSE {}

(* A crash may leave exit code zero, and the pod Succeeded, not Failed. *)
ClassifyCreating(m) ==
    CASE ~HasPod -> IF m.awaiting /\ ~m.held THEN {"HoldReleased"} ELSE {}
      [] pod.state = "pending" -> {}
      [] pod.state = "unschedulable" -> {"PodScheduleFailed"}
      [] Terminal /\ pod.cause # "crash" -> {"PodScheduleFailed"}
      [] Terminal /\ pod.cause = "crash" -> {"PodScheduleFailed", "PodScheduled"}
      [] OTHER -> {"PodScheduled"}

ClassifyStarting(m) ==
    CASE ~HasPod \/ Terminating ->
            {IF MachinePreempted THEN "MachinePreempted" ELSE "PodScheduleFailed"}
      [] ~Terminating /\ pod.state = "exited" -> {ExitEvent}
      [] ~Terminating /\ pod.state = "ready"  -> {"PodReady"}
      [] OTHER -> IF m.overdue THEN {"StartupTimeout"} ELSE {}

ClassifyRunning(m) ==
    IF m.notice THEN {"PreemptionNotice"}
    ELSE IF m.desired = "Restarting" THEN {"DesiredRestarting"}
    ELSE IF Live THEN {}
    ELSE IF MachinePreempted THEN {"MachinePreempted"}
    ELSE IF pod.state = "exited" /\ ExitEvent # "PodDied" THEN {ExitEvent}
    ELSE IF pod.term = "recent" THEN {}
    ELSE {"PodDied"}

PhaseEvent(m) ==
    CASE m.phase = "Stopped"    -> IF m.desired = "Running" THEN {"DesiredRunning"} ELSE {}
      [] m.phase = "Failed"     -> ClassifyFailed(m)
      [] m.phase = "Creating"   -> ClassifyCreating(m)
      [] m.phase = "Starting"   -> ClassifyStarting(m)
      [] m.phase = "Running"    -> ClassifyRunning(m)
      [] m.phase = "Stopping"   -> IF ~HasPod \/ Terminal THEN {"PodTerminated"}
                                   ELSE IF m.overdue THEN {"GracePeriodExceeded"} ELSE {}
      [] m.phase = "Restarting" -> IF HasPod THEN {} ELSE {"PodDeleted"}
      [] m.phase = "WaitingForMachine" -> IF machine.ready THEN {"MachineReady"} ELSE {}
      [] m.phase \in {"NeedsAuth", "MemoryExhausted"} ->
            IF m.desired = "Running" /\ ~Terminating /\ RecoveryInputChanged(m)
            THEN {"DesiredRunning"} ELSE {}
      [] m.phase = "Draining"   -> IF ~HasPod \/ Terminal THEN {"PodDeleted"}
                                   ELSE IF MachinePreempted THEN {"MachinePreempted"} ELSE {}
      [] OTHER -> {}

ClassifyEvent(m) ==
    IF m.phase = ""
    THEN {IF m.desired = "Stopped" THEN "CRDCreatedStopped" ELSE "CRDCreated"}
    ELSE IF OperatorEvent(m) # {} THEN OperatorEvent(m)
    ELSE IF m.phase \in {"Creating", "Starting", "Running", "Restarting"} /\ ~machine.ready
    THEN {"MachineUnavailable"}
    ELSE PhaseEvent(m)

-----------------------------------------------------------------------------
(* The reconciler. *)

(* A merge patch writes the fields in which `new' differs from the copy     *)
(* `base'; the API server counts changes of the spec.                       *)
Patched(base, new) ==
    LET c == [f \in DOMAIN crd |-> IF new[f] # base[f] THEN new[f] ELSE crd[f]]
    IN  [c EXCEPT !.gen = IF c.desired # crd.desired \/ c.mem # crd.mem
                          THEN @ + 1 ELSE @]

(* Reconcile before classifyEvent: the hold of a new agent, and the retry    *)
(* counter cleared when status.startTime lies five minutes back (`stable'). *)
(* That may be the start of an earlier pod, mirrored only after this check. *)
Held(m) == m.held /\ m.phase \in {"", "Creating"}
Prepared(m, stable) ==
    IF Held(m) THEN [m EXCEPT !.phase = "Creating", !.awaiting = TRUE]
    ELSE IF m.phase = "Running" /\ stable THEN [m EXCEPT !.restarts = 0]
    ELSE m

(* The finalizer, the patches above, and the event found in the copy that   *)
(* they leave.  The preemption notice is taken down with an Update, which a *)
(* stale copy cannot make.                                                  *)
ReconcileFrom(copy, stable) ==
    /\ worker = Idle
    /\ copy.life \in {"new", "live"} /\ crd.life # "gone"
    /\ LET changed == copy.life = "new" \/ Prepared(copy, stable) # copy
           now == [Patched(copy, Prepared(copy, stable))
                      EXCEPT !.life = IF @ = "new" THEN "live" ELSE @]
           m == IF changed THEN now ELSE copy
           events == IF Held(copy) THEN {} ELSE ClassifyEvent(m)
           noticed == "PreemptionNotice" \in events
           rows == {r \in NextPhase : r.phase = m.phase /\ r.event \in events}
       IN  /\ noticed => m = now
           /\ crd' = [now EXCEPT !.notice = @ /\ ~noticed]
           /\ \/ rows = {} /\ crd' # crd /\ UNCHANGED worker
              \/ \E r \in rows :
                    /\ r.event # "RetryLimitReached"
                    /\ worker' = [m |-> IF noticed THEN crd' ELSE m, seen |-> HasPod,
                                  plan |-> Plan(r.action), next |-> r.next]
    /\ cache' = IF faults < MaxFaults THEN copy ELSE NoCopy
    /\ UNCHANGED <<pod, machine, secret, commands>>

Reconcile ==
    /\ \E stable \in BOOLEAN : ReconcileFrom(crd, stable)
    /\ UNCHANGED faults
ReconcileStale ==
    /\ cache \notin {NoCopy, crd}
    /\ \E stable \in BOOLEAN : ReconcileFrom(cache, stable)
    /\ Fault

At(step) == worker # Idle /\ Head(worker.plan) = step
GiveUp == worker' = Idle
Done(m) == IF Len(worker.plan) = 1 THEN GiveUp
           ELSE worker' = [worker EXCEPT !.plan = Tail(@), !.m = m]

(* A patch of the Agent; the answer refreshes the reconciler's copy.        *)
PatchAgent(new) ==
    /\ crd.life # "gone"
    /\ crd' = Patched(worker.m, new)
    /\ Done(crd')
    /\ UNCHANGED <<cache, pod, machine, secret, faults, commands>>

(* faulty variant: the input is used without being claimed *)
ClaimNothing ==
    At("claim") /\ PatchAgent(worker.m)

(* restartRequestChanged, recoveryInputChanged: what justifies the attempt  *)
(* is spent before the attempt is made.                                     *)
Claim ==
    /\ At("claim")
    /\ PatchAgent(IF worker.m.phase = "Failed"
                  THEN [worker.m EXCEPT !.observed = worker.m.gen]
                  ELSE [worker.m EXCEPT !.claim = RecoveryInput(worker.m)])

ResetRetry == At("reset") /\ PatchAgent([worker.m EXCEPT !.restarts = 0])

CountRestart == At("count") /\ PatchAgent([worker.m EXCEPT !.restarts = @ + 1])

ClearDesired == At("clear") /\ PatchAgent([worker.m EXCEPT !.desired = ""])

Removed == pod' = NoPod
Condemned == pod' = [pod EXCEPT !.term = IF @ = "no" THEN "recent" ELSE @]

(* deletePod: by name, so whatever pod bears it now goes.  One that no       *)
(* kubelet holds goes at once, and so may any other at grace zero.          *)
Deleted(force) ==
    \/ /\ pod.state = "unschedulable" \/ force
       /\ Removed
    \/ /\ pod.state # "unschedulable"
       /\ force => machine.node /\ ~Terminal
       /\ Condemned

Delete(force) ==
    /\ IF HasPod /\ worker.seen THEN Deleted(force) ELSE UNCHANGED pod
    /\ Done(worker.m)
    /\ UNCHANGED <<crd, cache, machine, secret, faults, commands>>

DeletePod == At("delete") /\ Delete(FALSE)
KillPod == At("kill") /\ Delete(TRUE)
(* ActionTransitionToWaiting *)
EvictPod == At("evict") /\ Delete(~machine.node)

(* ActionResetRetryAndCreatePod sweeps the pod; one that lingers gives the   *)
(* recovery input back and ends the attempt.                                *)
Sweep ==
    /\ At("sweep")
    /\ IF HasPod /\ worker.seen THEN Deleted(TRUE) ELSE UNCHANGED pod
    /\ IF pod'.state = "none" \/ ~worker.seen
       THEN Done(worker.m) /\ UNCHANGED crd
       ELSE /\ GiveUp
            /\ crd' = Patched(worker.m, [worker.m EXCEPT !.claim = <<"">>])
    /\ UNCHANGED <<cache, machine, secret, faults, commands>>

NewPod == pod' = [state |-> "pending", cause |-> "", term |-> "no", recorded |-> FALSE]

(* faulty variant: a terminal pod in the way is an error like any other *)
CreatePodNoSweep ==
    /\ At("create")
    /\ IF worker.m.held \/ HasPod THEN GiveUp /\ UNCHANGED pod
       ELSE NewPod /\ Done(worker.m)
    /\ UNCHANGED <<crd, cache, machine, secret, faults, commands>>

(* createPod.  A terminal pod is replaced; one that terminates is waited    *)
(* for, and removed by force when its node is dead; a live one is an error. *)
CreatePod ==
    /\ At("create")
    /\ IF worker.m.held THEN GiveUp /\ UNCHANGED pod
       ELSE IF ~HasPod \/ Terminal THEN NewPod /\ Done(worker.m)
       ELSE /\ GiveUp
            /\ IF pod.term = "late" /\ ~machine.node THEN Removed ELSE UNCHANGED pod
    /\ UNCHANGED <<crd, cache, machine, secret, faults, commands>>

(* The best-effort patches that end createPod. *)
Stamp ==
    /\ At("stamp")
    /\ \/ PatchAgent([worker.m EXCEPT !.observed = worker.m.gen, !.awaiting = FALSE])
       \/ /\ Fault /\ Done(worker.m)
          /\ UNCHANGED <<crd, cache, pod, machine, secret, commands>>

(* updatePhase *)
UpdatePhase ==
    /\ At("phase") /\ crd.life # "gone"
    /\ crd' = IF worker.m.phase = worker.next THEN crd
              ELSE [Patched(worker.m,
                            [worker.m EXCEPT !.phase = worker.next])
                      EXCEPT !.overdue = FALSE]
    /\ pod' = [pod EXCEPT !.recorded = @ \/ worker.next = "Creating"]
    /\ GiveUp
    /\ UNCHANGED <<cache, machine, secret, faults, commands>>

(* handleDeletion: the finalizer at once where the namespace is terminating *)
(* (`torn'); else the pod first, and in a later reconcile the stores.       *)
BeginDeletion ==
    /\ worker = Idle
    /\ crd.life = "deleting"
    /\ \E torn \in BOOLEAN :
          worker' = [m |-> crd, next |-> crd.phase, seen |-> HasPod,
                     plan |-> CASE torn            -> <<"finish">>
                                [] ~torn /\ HasPod  -> <<"kill">>
                                [] ~torn /\ ~HasPod -> <<"reap", "finish">>]
    /\ UNCHANGED <<crd, cache, pod, machine, secret, faults, commands>>

(* faulty variant: the number of failed attempts is not recorded *)
ReapForever ==
    /\ At("reap")
    /\ \/ Done(worker.m) /\ UNCHANGED crd
       \/ GiveUp /\ UNCHANGED crd
    /\ UNCHANGED <<cache, pod, machine, secret, faults, commands>>

(* cleanupAgentStores succeeds, or fails and is given up after the limit.   *)
Reap ==
    /\ At("reap")
    /\ \/ Done(worker.m) /\ UNCHANGED crd
       \/ /\ worker.m.orphans + 1 < MaxOrphanAttempts
          /\ crd' = Patched(worker.m, [worker.m EXCEPT !.orphans = @ + 1])
          /\ GiveUp
    /\ UNCHANGED <<cache, pod, machine, secret, faults, commands>>

RemoveFinalizer ==
    /\ At("finish")
    /\ crd' = [crd EXCEPT !.life = "gone"]
    /\ GiveUp
    /\ UNCHANGED <<cache, pod, machine, secret, faults, commands>>

(* A call fails, or the controller restarts: what was done stays done. *)
Abandon ==
    /\ worker # Idle
    /\ \/ Fault
       \/ crd.life = "gone" /\ UNCHANGED faults
    /\ GiveUp
    /\ UNCHANGED <<crd, cache, pod, machine, secret, commands>>

-----------------------------------------------------------------------------
(* The pod and its machine. *)

EnvOnly == UNCHANGED <<crd, cache, worker, secret, commands>>

PodStarts ==
    /\ pod.state = "pending" /\ machine.node
    /\ pod' = [pod EXCEPT !.state = "starting"]
    /\ EnvOnly /\ UNCHANGED <<machine, faults>>

PodReady ==
    /\ pod.state = "starting" /\ machine.node
    /\ pod' = [pod EXCEPT !.state = "ready"]
    /\ EnvOnly /\ UNCHANGED <<machine, faults>>

(* The agent's process ends. *)
PodExits(cause) ==
    /\ pod.state \in {"starting", "ready"} /\ machine.node
    /\ pod' = [pod EXCEPT !.state = "exited", !.cause = cause]
    /\ EnvOnly /\ UNCHANGED <<machine, faults>>

(* No room on the node, or an init container that fails. *)
PodNeverStarts ==
    /\ pod.state = "pending" /\ machine.node
    /\ \/ pod' = [pod EXCEPT !.state = "unschedulable"]
       \/ pod' = [pod EXCEPT !.state = "exited", !.cause = "crash"]
    /\ EnvOnly /\ UNCHANGED <<machine, faults>>

(* Room on the node after all, once for each pod. *)
PodFits ==
    /\ pod.state = "unschedulable" /\ machine.node
    /\ pod' = [pod EXCEPT !.state = "starting"]
    /\ EnvOnly /\ UNCHANGED <<machine, faults>>

(* An eviction, or a deletion by hand. *)
PodEvicted ==
    /\ Live /\ Fault
    /\ Condemned
    /\ EnvOnly /\ UNCHANGED machine

(* The kubelet finishes a deletion. *)
PodGone ==
    /\ Terminating /\ machine.node
    /\ Removed
    /\ EnvOnly /\ UNCHANGED <<machine, faults>>

NodeLost ==
    /\ machine.node /\ Fault
    /\ machine' = [machine EXCEPT !.node = FALSE]
    /\ EnvOnly /\ UNCHANGED pod

(* The Machine leaves Ready, because its node is gone or on purpose. *)
MachineDown ==
    /\ machine.ready
    /\ IF machine.node THEN Fault ELSE UNCHANGED faults
    /\ machine' = [machine EXCEPT !.ready = FALSE]
    /\ EnvOnly /\ UNCHANGED pod

MachineUp ==
    /\ ~machine.ready \/ ~machine.node
    /\ machine' = [ready |-> TRUE, node |-> TRUE]
    /\ EnvOnly /\ UNCHANGED <<pod, faults>>

(* HandlePreemptionNotice of the machine controller. *)
PreemptionNotice ==
    /\ crd.life = "live" /\ ~crd.notice /\ Fault
    /\ crd' = [crd EXCEPT !.notice = TRUE]
    /\ UNCHANGED <<cache, worker, pod, machine, secret, commands>>

(* The timeout or back-off of the phase passes. *)
Overdue ==
    /\ crd.phase \in {"Starting", "Stopping", "Failed"} /\ ~crd.overdue
    /\ crd.phase = "Starting" => pod.state = "starting"
    /\ crd' = [crd EXCEPT !.overdue = TRUE]
    /\ cache' = IF cache = NoCopy THEN cache ELSE [cache EXCEPT !.overdue = TRUE]
    /\ UNCHANGED <<worker, pod, machine, secret, faults, commands>>

(* terminatingPodGraceWindow *)
TerminationDrags ==
    /\ pod.term = "recent"
    /\ pod' = [pod EXCEPT !.term = "late"]
    /\ EnvOnly /\ UNCHANGED <<machine, faults>>

-----------------------------------------------------------------------------
(* The operator, through the API. *)

Command(verb) ==
    /\ verb \in Verbs /\ commands < MaxCommands
    /\ commands' = commands + 1
    /\ UNCHANGED <<cache, worker, pod, machine, faults>>

(* setAgentDesiredPhase, rearmRecoveryGate included. *)
SetAgentDesiredPhase(d) ==
    /\ Command(d) /\ UNCHANGED secret
    /\ crd.life # "gone"
    /\ d # "Stopped" => ~crd.held
    /\ LET start == d = "Running"
           rearm == start /\ crd.phase \in {"NeedsAuth", "MemoryExhausted"}
       IN crd' = Patched(crd,
                   [crd EXCEPT !.desired = d,
                      !.claim = IF rearm THEN <<"">> ELSE @,
                      !.restarts = IF start /\ crd.phase = "Failed" THEN 0 ELSE @])

(* A resource edit: applyResourceEditIntent. *)
SetResources ==
    /\ Command("memory") /\ UNCHANGED secret
    /\ crd.life = "live"
    /\ ~(crd.desired = "Stopped" /\ crd.phase # "Stopped")
    /\ \/ crd.phase = "Running" /\ crd.desired \in {"", "Running"}
       \/ crd.phase = "Stopped" /\ crd.desired \in {"", "Stopped"}
       \/ crd.phase \in {"Failed", "MemoryExhausted", "NeedsAuth", "WaitingForMachine"}
    /\ crd' = Patched(crd,
                [crd EXCEPT !.mem = @ + 1,
                   !.desired = CASE crd.phase = "Running" -> "Restarting"
                                 [] crd.phase \in {"Failed", "MemoryExhausted"} -> "Running"
                                 [] OTHER -> @])

(* A new credential in the runtime's Secret. *)
PutCredential ==
    /\ Command("credential")
    /\ secret' = secret + 1
    /\ UNCHANGED crd

(* The end of repair-runtime, under an optimistic lock. *)
RepairRuntime ==
    /\ Command("repair") /\ UNCHANGED secret
    /\ crd.phase = "BrokenRuntime"
    /\ crd' = Patched(crd, [crd EXCEPT !.desired = "Restarting"])

DeleteAgent ==
    /\ Command("delete") /\ UNCHANGED secret
    /\ crd.life \in {"new", "live"}
    /\ crd' = [crd EXCEPT !.life = IF @ = "new" THEN "gone" ELSE "deleting"]

(* The restore job ends, or the identity repository exists. *)
ReleaseHold ==
    /\ crd.held /\ crd.life # "gone"
    /\ crd' = [crd EXCEPT !.held = FALSE]
    /\ UNCHANGED <<cache, worker, pod, machine, secret, faults, commands>>

-----------------------------------------------------------------------------
WorkerStep ==
    \/ Claim \/ ResetRetry \/ CountRestart \/ ClearDesired
    \/ DeletePod \/ KillPod \/ EvictPod \/ Sweep \/ CreatePod \/ Stamp
    \/ UpdatePhase \/ BeginDeletion \/ Reap \/ RemoveFinalizer

Kubelet == PodStarts \/ PodReady \/ PodGone

Next ==
    \/ Reconcile \/ ReconcileStale \/ WorkerStep \/ Abandon
    \/ Kubelet \/ PodNeverStarts \/ PodFits \/ PodEvicted
    \/ \E c \in {"crash", "auth", "probe", "oom"} : PodExits(c)
    \/ NodeLost \/ MachineDown \/ MachineUp \/ PreemptionNotice
    \/ Overdue \/ TerminationDrags
    \/ \E d \in {"Running", "Stopped", "Restarting", "NeedsAuth"} : SetAgentDesiredPhase(d)
    \/ SetResources \/ PutCredential \/ RepairRuntime \/ DeleteAgent
    \/ ReleaseHold

Spec == Init /\ [][Next]_vars

(* The controller keeps running, kubelets work on healthy nodes, machines    *)
(* come back, holds end and time passes.                                    *)
Fairness ==
    /\ WF_vars(Reconcile \/ WorkerStep)
    /\ WF_vars(Kubelet \/ MachineUp \/ ReleaseHold \/ Overdue \/ TerminationDrags)

FairSpec == Spec /\ Fairness

-----------------------------------------------------------------------------
(* Properties. *)

Parked == \/ crd.phase \in {"NeedsAuth", "MemoryExhausted", "BrokenRuntime", "Stopped"}
          \/ crd.phase = "Failed" /\ crd.restarts >= MaxRestartRetries

(* The pod of a reconcile that ended between createPod and updatePhase. *)
Unrecorded == HasPod /\ ~pod.recorded

(* States the controller does not leave by itself: the above; a pod deleted *)
(* from outside while Creating; and a pod in the way of createPod, because  *)
(* an unschedulable pod moved the agent to Failed and was left there.       *)
Stranded ==
    \/ Unrecorded
    \/ crd.phase = "Creating" /\ ~HasPod /\ ~crd.held
    \/ crd.phase = "Failed" /\ HasPod /\ ~Terminal /\ ~Terminating

(* Stop is a kill switch (classifyEvent): an agent that stays desired       *)
(* Stopped ends without a live pod, whatever phase it was in, unless the    *)
(* pod was never recorded.                                                  *)
StopHalts ==
    <>[](crd.life = "live" /\ crd.desired = "Stopped")
        => <>[](~Live) \/ <>[]Unrecorded

(* PodScheduleFailed and StartupTimeout: a pod that did not start, for which *)
(* no restart is counted.                                                   *)
StartFails ==
    /\ crd'.phase = "Failed"
    /\ crd.phase = "Creating" \/ (crd.phase = "Starting" /\ crd.overdue)

(* An agent that stays wanted runs again and again, or waits for a human in *)
(* a phase that says so, through crashes, lost machines and failed calls,   *)
(* unless its pods fail to start for ever or it is stranded.                *)
RunsOrParks ==
    <>[](crd.life = "live" /\ crd.desired \in {"", "Running"})
        => \/ []<>(crd.phase = "Running") \/ []<>Parked
           \/ []<><<StartFails>>_vars \/ <>[]Stranded

Rebuild == pod.state \in {"none", "exited"} /\ pod'.state = "pending"
StableReset == crd.phase = "Running" /\ crd'.restarts < crd.restarts

(* The claim on a memory input takes the place of one on a credential. *)
ClaimDisplaced == crd.claim[1] = "auth" /\ crd'.claim[1] = "mem"

(* Without new input an agent's pod is not rebuilt for ever, whatever ends  *)
(* it once it has started: the retry limit and the claims on recovery       *)
(* inputs and generations (kyber#684) end every loop but three.  Those are  *)
(* pods that fail to start, which are never counted; the five-minute reset  *)
(* of the counter; and failures that alternate between credential and       *)
(* memory, whose claims share one field.                                    *)
RebuildsEnd ==
    \/ <>[][~Rebuild]_vars
    \/ []<><<StartFails>>_vars
    \/ []<><<StableReset>>_vars
    \/ []<><<ClaimDisplaced>>_vars

(* handleDeletion gives up on unreachable stores after a bounded number of  *)
(* attempts, so no agent is left in deletion for ever.                      *)
DeletionCompletes == []<>(crd.life # "deleting")

(* "desiredPhase=Stopped must halt an agent from every phase": only the     *)
(* operator replaces a Stop, and no reconcile writes over it                *)
(* (CaptureStateAndDeletePod's patch of spec.desiredPhase).                 *)
StopKept ==
    [][commands' = commands /\ crd.desired = "Stopped" => crd'.desired = "Stopped"]_vars
=============================================================================
