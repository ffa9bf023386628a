---------------------------- MODULE SelfUpgrade ----------------------------
(* Upgrades of Kyber by itself and the maintenance lock they hold             *)
(* (pkg/updates/apply.go, pkg/selfupgrade, pkg/operatorcredentials/           *)
(* maintenance*.go, pkg/api/routes_operator_credential_maintenance_recovery   *)
(* .go, pkg/securityaudit).  A Job of the control plane's image reserves      *)
(* maintenance (one immutable Secret without expiry), changes CRDs and the    *)
(* Helm release, verifies or rolls back, and lets go of the reservation only  *)
(* when it knows the release to be in order.  Whatever it leaves behind an    *)
(* administrator recovers: the writer must be seen to have stopped and the    *)
(* release to be in order, the recovery fences the reservation's version with *)
(* a marker, writes down what it is about to delete, and deletes it.          *)
EXTENDS Naturals, FiniteSets

CONSTANTS
    Targets,     \* chart versions to upgrade to; a Job is named after its own
    Installed,   \* the chart version at the start
    Ops,         \* operation ids of recoveries
    Handlers,    \* 1..n, if n recovery requests can be under way at once
    None,
    MaxFaults    \* bound: processes killed, nodes lost, calls without an answer

ASSUME NamesAssumption ==
    /\ Installed \notin Targets
    /\ None \notin Targets \cup Ops
    /\ Targets \cap Ops = {}
ASSUME NumbersAssumption == MaxFaults \in Nat /\ Handlers \subseteq Nat

VARIABLES
    starting,      \* targets whose Start found no other upgrade in flight
    writer,        \* the Jobs, each with its one process
    reservation,   \* the maintenance Secret
    wire,          \* writes to it without an answer, which may still arrive
    release,       \* the Helm release, as its record has it
    live,          \* the version the control plane runs
    journal,       \* operator_credential_operations, of kind credential-maintenance
    handler,       \* handlers of POST .../maintenance/recovery and .../resolve
    freed,         \* history: who deleted a Job's reservation
    faults

vars == <<starting, writer, reservation, wire, release, live, journal, handler,
          freed, faults>>

Charts == Targets \cup {Installed}

(* A reservation is its writer's for good, so its writer serves as its UID; a *)
(* recovery's nonce is as good as the version its marker was written in.      *)
NoReservation == [uid |-> None, version |-> 0, effects |-> FALSE, marker |-> None]
NoProcess == [stage |-> "none", version |-> 0, from |-> Installed, safe |-> TRUE, lost |-> FALSE]
NoOperation == [state |-> "none", uid |-> None, expected |-> 0, effect |-> 0]
Idle == [stage |-> "idle", op |-> None, uid |-> None, version |-> 0, effect |-> 0,
         replacing |-> None, outcome |-> "none"]

Init ==
    /\ starting = {}
    /\ writer = [j \in Targets |-> NoProcess]
    /\ reservation = NoReservation
    /\ wire = {}
    /\ release = [status |-> "deployed", chart |-> Installed]
    /\ live = Installed
    /\ journal = [o \in Ops |-> NoOperation]
    /\ handler = [h \in Handlers |-> Idle]
    /\ freed = [j \in Targets |-> None]
    /\ faults = 0

Fault == faults < MaxFaults /\ faults' = faults + 1

Alive(j) == writer[j].stage \notin {"none", "over"}

----------------------------------------------------------------------------
(* Applier.Start: one upgrade at a time, and one Job per target version.     *)

(* runFromJob: the pod of a lost node counts as failed, its process may run. *)
InFlight(j) == Alive(j) /\ ~writer[j].lost

StartChecks(j) ==
    /\ writer[j].stage = "none"
    /\ \A k \in Targets : ~InFlight(k)
    /\ starting' = starting \cup {j}
    /\ UNCHANGED <<writer, reservation, wire, release, live, journal, handler, freed, faults>>

StartCreates(j) ==
    /\ j \in starting
    /\ starting' = starting \ {j}
    /\ writer' = [writer EXCEPT ![j].stage = IF @ = "none" THEN "queued" ELSE @]
    /\ UNCHANGED <<reservation, wire, release, live, journal, handler, freed, faults>>

----------------------------------------------------------------------------
(* The reservation.  Kubernetes takes a write only at the version it names.   *)

Goto(j, s) == writer' = [writer EXCEPT ![j].stage = s]
Exit(j) == writer' = [writer EXCEPT ![j] = [NoProcess EXCEPT !.stage = "over", !.lost = writer[j].lost]]

Held(uid, version) == reservation.uid = uid /\ reservation.version = version
Own(j) == Held(j, writer[j].version)

Created(j) == [uid |-> j, version |-> 1, effects |-> FALSE, marker |-> None]
WithEffects == [reservation EXCEPT !.version = @ + 1, !.effects = TRUE]
WithMarker(o) == [reservation EXCEPT !.version = @ + 1, !.marker = o]

(* A write that was sent and not answered: to whom, at which version, and    *)
(* for the marks of a recovery, whose.  Once its version has passed it can    *)
(* only be refused, and is forgotten.                                         *)
Late(kind, uid, version, by) ==
    wire' = wire \cup {[kind |-> kind, uid |-> uid, version |-> version, by |-> by]}
Store(r) ==
    /\ reservation' = r
    /\ wire' = {w \in wire : w.kind = "create" \/ (r.uid = w.uid /\ r.version = w.version)}

(* AcquireForPod: the Job's annotation lets it acquire once; then the Secret  *)
(* is created, or another's is found.                                         *)
Reserve(j) ==
    /\ writer[j].stage = "queued"
    /\ IF reservation.uid = None
         THEN /\ Store(Created(j))
              /\ writer' = [writer EXCEPT ![j].stage = "reserved", ![j].version = 1]
         ELSE Exit(j) /\ UNCHANGED <<reservation, wire>>
    /\ UNCHANGED <<starting, release, live, journal, handler, freed, faults>>
ReserveUnanswered(j) ==
    /\ writer[j].stage = "queued" /\ Fault
    /\ Late("create", j, 0, j)
    /\ Exit(j)
    /\ UNCHANGED <<starting, reservation, release, live, journal, handler, freed>>

(* RecordUpgradeEffects, the admission of effects.  Without a confirmed       *)
(* answer no effect is begun, and the old capability is all the writer has.   *)
RecordUpgradeEffects(j) ==
    /\ writer[j].stage = "ready"
    /\ IF Own(j)
         THEN /\ Store(WithEffects)
              /\ writer' = [writer EXCEPT ![j].stage = "admitted", ![j].version = @ + 1]
         ELSE Goto(j, "ending") /\ UNCHANGED <<reservation, wire>>
    /\ UNCHANGED <<starting, release, live, journal, handler, freed, faults>>
RecordUnanswered(j) ==
    /\ writer[j].stage = "ready" /\ Own(j) /\ Fault
    /\ \/ Store(WithEffects)
       \/ Late("effects", j, reservation.version, j) /\ UNCHANGED reservation
    /\ Goto(j, "ending")
    /\ UNCHANGED <<starting, release, live, journal, handler, freed>>

(* The tail of Runner.Run: Release if safe, keep the reservation if not.      *)
Release(j) ==
    /\ writer[j].stage = "ending" /\ writer[j].safe
    /\ IF Own(j)
         THEN Store(NoReservation) /\ freed' = [freed EXCEPT ![j] = j]
         ELSE UNCHANGED <<reservation, wire, freed>>
    /\ Exit(j)
    /\ UNCHANGED <<starting, release, live, journal, handler, faults>>
ReleaseUnanswered(j) ==
    /\ writer[j].stage = "ending" /\ writer[j].safe /\ Own(j) /\ Fault
    /\ Late("delete", j, reservation.version, j)
    /\ Exit(j)
    /\ UNCHANGED <<starting, reservation, release, live, journal, handler, freed>>
Retain(j) ==
    /\ writer[j].stage = "ending" /\ ~writer[j].safe
    /\ Exit(j)
    /\ UNCHANGED <<starting, reservation, wire, release, live, journal, handler, freed, faults>>

----------------------------------------------------------------------------
(* runReserved.                                                              *)

(* The release is read, its values captured, the target pulled and found      *)
(* compatible; or the upgrade is refused while nothing has changed.           *)
Preflight(j) ==
    /\ writer[j].stage = "reserved"
    /\ \/ writer' = [writer EXCEPT ![j].stage = "ready", ![j].from = release.chart]
       \/ Goto(j, "ending")
    /\ UNCHANGED <<starting, reservation, wire, release, live, journal, handler, freed, faults>>

(* Faulty variant: CRDs are applied without a note that effects began.        *)
ApplyCRDsUnmarked(j) ==
    /\ writer[j].stage = "admitted"
    /\ \/ Own(j) /\ Goto(j, "applied")
       \/ Goto(j, "ending")
    /\ UNCHANGED <<starting, reservation, wire, release, live, journal, handler, freed, faults>>

(* applyCRDs: the chart has none, or maintenance is no longer owned, or it    *)
(* applies them and may fail half-way.                                        *)
ApplyCRDs(j) ==
    /\ writer[j].stage = "admitted"
    /\ \/ /\ Own(j)
          /\ \E s \in {"applied", "ending"} :
                writer' = [writer EXCEPT ![j].stage = s, ![j].safe = FALSE]
       \/ Goto(j, "ending")
    /\ UNCHANGED <<starting, reservation, wire, release, live, journal, handler, freed, faults>>

(* helm upgrade --wait: a new revision, pending until the rollout is ready.   *)
HelmUpgrade(j) ==
    /\ writer[j].stage = "applied"
    /\ IF Own(j)
         THEN \/ release' = [status |-> "pending", chart |-> j] /\ Goto(j, "upgrading")
              \/ Goto(j, "failing") /\ UNCHANGED release
         ELSE Goto(j, "ending") /\ UNCHANGED release
    /\ UNCHANGED <<starting, reservation, wire, live, journal, handler, freed, faults>>
HelmEnds(j) ==
    /\ writer[j].stage = "upgrading"
    /\ \/ release' = [release EXCEPT !.status = "deployed"] /\ live' = j /\ Goto(j, "verifying")
       \/ /\ release' = [release EXCEPT !.status = "failed"] /\ live' \in {live, j}
          /\ Goto(j, "failing")
    /\ UNCHANGED <<starting, reservation, wire, journal, handler, freed, faults>>

(* DeploymentVerifier.Verify and the last check of ownership; a control plane *)
(* that does not come up, or runs another version, is rolled back.            *)
Verify(j) ==
    /\ writer[j].stage = "verifying"
    /\ \/ /\ live = j
          /\ writer' = [writer EXCEPT ![j].stage = "ending", ![j].safe = @ \/ Own(j)]
       \/ Goto(j, "failing")
    /\ UNCHANGED <<starting, reservation, wire, release, live, journal, handler, freed, faults>>

(* rollback: to the revision found at the start, if still owned and           *)
(* compatible.  Whatever its outcome, the reservation stays.                  *)
RollBack(j) ==
    /\ writer[j].stage = "failing"
    /\ \/ /\ Own(j)
          /\ release' = [status |-> "pending", chart |-> writer[j].from]
          /\ Goto(j, "rolling")
       \/ Goto(j, "ending") /\ UNCHANGED release
    /\ UNCHANGED <<starting, reservation, wire, live, journal, handler, freed, faults>>
RollBackEnds(j) ==
    /\ writer[j].stage = "rolling"
    /\ \/ release' = [release EXCEPT !.status = "deployed"] /\ live' = writer[j].from
       \/ release' = [release EXCEPT !.status = "failed"] /\ live' \in {live, writer[j].from}
    /\ Goto(j, "ending")
    /\ UNCHANGED <<starting, reservation, wire, journal, handler, freed, faults>>

----------------------------------------------------------------------------
(* The world: the process is killed with whatever it runs, its node is lost   *)
(* while it runs on, and somebody repairs a release with Helm once nobody     *)
(* else changes it.                                                           *)

Killed(j) ==
    /\ Alive(j) /\ Fault
    /\ Exit(j)
    /\ UNCHANGED <<starting, reservation, wire, release, live, journal, handler, freed>>
NodeLost(j) ==
    /\ Alive(j) /\ ~writer[j].lost /\ Fault
    /\ writer' = [writer EXCEPT ![j].lost = TRUE]
    /\ UNCHANGED <<starting, reservation, wire, release, live, journal, handler, freed>>

Changing(j) == writer[j].stage \in {"applied", "upgrading", "verifying", "failing", "rolling"}
Settled == release.status = "deployed" /\ live = release.chart

HelmByHand ==
    /\ ~Settled /\ \A j \in Targets : ~Changing(j)
    /\ \E c \in {release.chart, live} :
          release' = [status |-> "deployed", chart |-> c] /\ live' = c
    /\ UNCHANGED <<starting, writer, reservation, wire, journal, handler, freed, faults>>

(* A write without an answer arrives; a second Secret is not created.         *)
ArrivesCreate(w) ==
    /\ w \in wire /\ w.kind = "create"
    /\ reservation' = IF reservation.uid = None THEN Created(w.uid) ELSE reservation
    /\ wire' = wire \ {w}
    /\ UNCHANGED <<starting, writer, release, live, journal, handler, freed, faults>>
ArrivesUpdate(w) ==
    /\ w \in wire
    /\ \/ w.kind = "effects" /\ Store(WithEffects)
       \/ w.kind = "marker" /\ Store(WithMarker(w.by))
    /\ UNCHANGED <<starting, writer, release, live, journal, handler, freed, faults>>
ArrivesDelete(w) ==
    /\ w \in wire /\ w.kind = "delete"
    /\ Store(NoReservation)
    /\ freed' = [freed EXCEPT ![w.uid] = w.by]
    /\ UNCHANGED <<starting, writer, release, live, journal, handler, faults>>

----------------------------------------------------------------------------
(* Recovery.                                                                 *)

(* Faulty variant: a process on a lost node counts as stopped.                *)
StoppedWhenLost(j) == ~Alive(j) \/ writer[j].lost

(* WriterState: the pod is known to have terminated, the Job is over.         *)
Stopped(j) == ~Alive(j) /\ ~writer[j].lost

(* MaintenanceReleaseVerifier.Verify: nothing to verify before effects were   *)
(* admitted.                                                                  *)
Verified == reservation.effects => Settled

(* maintenanceRecoveryEligibility for operation o; another operation's marker *)
(* gives way only if that operation has failed and can no longer delete.      *)
Displaceable(m) ==
    /\ journal[m].state = "failure" /\ journal[m].uid = reservation.uid
    /\ journal[m].effect # reservation.version
Eligible(o) ==
    /\ reservation.uid # None
    /\ reservation.marker \in Ops \ {o} => Displaceable(reservation.marker)
    /\ Stopped(reservation.uid)
    /\ Verified
Replacing(o) == IF reservation.marker \in Ops \ {o} THEN reservation.marker ELSE None

Step(h, s) == handler' = [handler EXCEPT ![h].stage = s]
Responds(h) == handler' = [handler EXCEPT ![h] = Idle]

(* A request takes the first place that is free; which one makes no matter.   *)
Free(h) == handler[h].stage = "idle" /\ \A k \in Handlers : k < h => handler[k].stage # "idle"

(* POST recovery with a new operation id, up to the journal.                  *)
RecoverChecks(h, o) ==
    /\ Free(h)
    /\ journal[o].state = "none" /\ Eligible(o)
    /\ handler' = [handler EXCEPT ![h].stage = "admitting", ![h].op = o,
                      ![h].uid = reservation.uid, ![h].version = reservation.version]
    /\ UNCHANGED <<starting, writer, reservation, wire, release, live, journal, freed, faults>>
Admit(h) ==
    LET o == handler[h].op IN
    /\ handler[h].stage = "admitting"
    /\ IF journal[o].state = "none"
         THEN /\ journal' = [journal EXCEPT ![o] =
                    [state |-> "pending", uid |-> handler[h].uid,
                     expected |-> handler[h].version, effect |-> 0]]
              /\ handler' = [handler EXCEPT ![h].stage = "inspecting", ![h].version = 0]
         ELSE Responds(h) /\ UNCHANGED journal
    /\ UNCHANGED <<starting, writer, reservation, wire, release, live, freed, faults>>

(* POST resolve of a pending operation, as the journal has it now.            *)
Resolve(h, o) ==
    /\ Free(h)
    /\ journal[o].state = "pending"
    /\ handler' = [handler EXCEPT ![h].stage = "inspecting", ![h].op = o,
                      ![h].uid = journal[o].uid, ![h].effect = journal[o].effect]
    /\ UNCHANGED <<starting, writer, reservation, wire, release, live, journal, freed, faults>>

Concludes(h, outcome) ==
    handler' = [handler EXCEPT ![h] = [Idle EXCEPT
        !.stage = "finishing", !.op = handler[h].op, !.effect = handler[h].effect, !.outcome = outcome]]

(* executeMaintenanceRecovery, from its Inspect.                              *)
Inspect(h) ==
    LET o == handler[h].op
        effect == handler[h].effect IN
    /\ handler[h].stage = "inspecting"
    /\ CASE reservation.uid # handler[h].uid ->
                Concludes(h, IF effect # 0 THEN "success" ELSE "failure")
         [] reservation.uid = handler[h].uid /\ effect \notin {0, reservation.version} ->
                Concludes(h, "failure")
         [] /\ reservation.uid = handler[h].uid /\ effect = 0
            /\ reservation.version # journal[o].expected /\ reservation.marker # o ->
                Concludes(h, "failure")
         [] OTHER ->
                handler' = [handler EXCEPT ![h].stage = "checking",
                                           ![h].version = reservation.version]
    /\ UNCHANGED <<starting, writer, reservation, wire, release, live, journal, freed, faults>>

(* Eligibility at the inspected version; then, for an operation with an       *)
(* intent to delete, ResumeRecovery, which only reads.                        *)
Checks(h) ==
    LET o == handler[h].op IN
    /\ handler[h].stage = "checking"
    /\ IF ~(Held(handler[h].uid, handler[h].version) /\ Eligible(o))
         THEN Responds(h)
         ELSE IF handler[h].effect = 0
           THEN handler' = [handler EXCEPT ![h].stage = "preparing", ![h].replacing = Replacing(o)]
           ELSE IF reservation.marker = o THEN Step(h, "deleting") ELSE Responds(h)
    /\ UNCHANGED <<starting, writer, reservation, wire, release, live, journal, freed, faults>>

(* Faulty variant of MarkerFree: an operation's own marker is in its way.     *)
MarkerFreeOnce(h) == reservation.marker \in {None, handler[h].replacing}
MarkerFree(h) == reservation.marker \in {None, handler[h].op, handler[h].replacing}

(* PrepareRecovery: its reads again and the marker, under the version read.   *)
Prepare(h) ==
    /\ handler[h].stage = "preparing"
    /\ IF /\ Held(handler[h].uid, handler[h].version)
          /\ Stopped(handler[h].uid) /\ MarkerFree(h)
         THEN /\ Store(WithMarker(handler[h].op))
              /\ handler' = [handler EXCEPT ![h].stage = "recording",
                                            ![h].version = reservation.version + 1]
         ELSE Responds(h) /\ UNCHANGED <<reservation, wire>>
    /\ UNCHANGED <<starting, writer, release, live, journal, freed, faults>>
PrepareUnanswered(h) ==
    /\ handler[h].stage = "preparing" /\ Fault
    /\ Held(handler[h].uid, handler[h].version)
    /\ Stopped(handler[h].uid) /\ MarkerFree(h)
    /\ Late("marker", handler[h].uid, handler[h].version, handler[h].op)
    /\ Responds(h)
    /\ UNCHANGED <<starting, writer, reservation, release, live, journal, freed>>

(* RecordCredentialMaintenanceEffect: one intent to delete per operation,     *)
(* none after its outcome.                                                    *)
RecordEffect(h) ==
    LET o == handler[h].op
        proof == handler[h].version IN
    /\ handler[h].stage = "recording"
    /\ IF journal[o].state = "pending" /\ journal[o].effect \in {0, proof}
         THEN /\ journal' = [journal EXCEPT ![o].effect = proof]
              /\ handler' = [handler EXCEPT ![h].stage = "deleting", ![h].effect = proof]
         ELSE Responds(h) /\ UNCHANGED journal
    /\ UNCHANGED <<starting, writer, reservation, wire, release, live, freed, faults>>

(* MaintenanceRecoveryReservation.Release, and the look that confirms it.     *)
Fenced(h) == Held(handler[h].uid, handler[h].effect) /\ reservation.marker = handler[h].op
Delete(h) ==
    /\ handler[h].stage = "deleting"
    /\ IF Fenced(h)
         THEN /\ Store(NoReservation)
              /\ freed' = [freed EXCEPT ![handler[h].uid] = handler[h].op]
              /\ Concludes(h, "success")
         ELSE Responds(h) /\ UNCHANGED <<reservation, wire, freed>>
    /\ UNCHANGED <<starting, writer, release, live, journal, faults>>
DeleteUnanswered(h) ==
    /\ handler[h].stage = "deleting" /\ Fenced(h) /\ Fault
    /\ Late("delete", handler[h].uid, handler[h].effect, handler[h].op)
    /\ Responds(h)
    /\ UNCHANGED <<starting, writer, reservation, release, live, journal, freed>>

(* Faulty variant of FinishOK: the intent known to the caller is not compared *)
(* with the journal's.                                                        *)
FinishAnyIntent(h) == journal[handler[h].op].state = "pending"
FinishOK(h) ==
    /\ journal[handler[h].op].state = "pending"
    /\ journal[handler[h].op].effect = handler[h].effect

(* FinishCredentialMaintenanceOperation: the first outcome is final.          *)
Finish(h) ==
    /\ handler[h].stage = "finishing"
    /\ journal' = IF FinishOK(h)
                  THEN [journal EXCEPT ![handler[h].op].state = handler[h].outcome]
                  ELSE journal
    /\ Responds(h)
    /\ UNCHANGED <<starting, writer, reservation, wire, release, live, freed, faults>>

(* The handler's replica dies, its deadline passes, a read fails, or its      *)
(* actor is no longer an administrator.                                       *)
Abandoned(h) ==
    /\ handler[h].stage # "idle" /\ Fault
    /\ Responds(h)
    /\ UNCHANGED <<starting, writer, reservation, wire, release, live, journal, freed>>

----------------------------------------------------------------------------
(* The specification.                                                        *)

Start(j) == StartChecks(j) \/ StartCreates(j)

Runs(j) ==
    \/ Reserve(j) \/ Preflight(j) \/ RecordUpgradeEffects(j) \/ ApplyCRDs(j)
    \/ HelmUpgrade(j) \/ HelmEnds(j) \/ Verify(j) \/ RollBack(j) \/ RollBackEnds(j)
    \/ Release(j) \/ Retain(j)

Handles(h) ==
    \/ Admit(h) \/ Inspect(h) \/ Checks(h) \/ Prepare(h) \/ RecordEffect(h)
    \/ Delete(h) \/ Finish(h)

Fails(j) ==
    \/ ReserveUnanswered(j) \/ RecordUnanswered(j) \/ ReleaseUnanswered(j)
    \/ Killed(j) \/ NodeLost(j)

Breaks(h) == PrepareUnanswered(h) \/ DeleteUnanswered(h) \/ Abandoned(h)

Next ==
    \/ \E j \in Targets : Start(j) \/ Runs(j) \/ Fails(j)
    \/ \E h \in Handlers :
          \/ Handles(h) \/ Breaks(h)
          \/ \E o \in Ops : RecoverChecks(h, o) \/ Resolve(h, o)
    \/ \E w \in wire : ArrivesCreate(w) \/ ArrivesUpdate(w) \/ ArrivesDelete(w)
    \/ HelmByHand

Spec == Init /\ [][Next]_vars

(* Processes and handlers run on, a broken release is repaired, and an        *)
(* administrator asks again about an operation without an outcome.  Nobody    *)
(* need upgrade or begin a recovery, and a late write need not arrive.        *)
FairSpec ==
    /\ Spec
    /\ WF_vars(\E j \in Targets : Runs(j))
    /\ WF_vars(\E h \in Handlers : Handles(h))
    /\ \A o \in Ops : SF_vars(\E h \in Handlers : Resolve(h, o))
    /\ WF_vars(HelmByHand)

----------------------------------------------------------------------------
(* Properties.                                                               *)

TypeOK ==
    /\ starting \subseteq Targets
    /\ writer \in [Targets -> [stage: {"none", "queued", "reserved", "ready", "admitted",
                                       "applied", "upgrading", "verifying", "failing",
                                       "rolling", "ending", "over"},
                               version: Nat, from: Charts, safe: BOOLEAN, lost: BOOLEAN]]
    /\ reservation \in [uid: Targets \cup {None}, version: Nat, effects: BOOLEAN,
                        marker: Ops \cup {None}]
    /\ wire \subseteq [kind: {"create", "effects", "marker", "delete"}, uid: Targets,
                       version: Nat, by: Targets \cup Ops]
    /\ release \in [status: {"pending", "deployed", "failed"}, chart: Charts]
    /\ live \in Charts
    /\ journal \in [Ops -> [state: {"none", "pending", "success", "failure"},
                            uid: Targets \cup {None}, expected: Nat, effect: Nat]]
    /\ handler \in [Handlers -> [stage: {"idle", "admitting", "inspecting", "checking",
                                         "preparing", "recording", "deleting", "finishing"},
                                 op: Ops \cup {None}, uid: Targets \cup {None},
                                 version: Nat, effect: Nat, replacing: Ops \cup {None},
                                 outcome: {"none", "success", "failure"}]]
    /\ freed \in [Targets -> Targets \cup Ops \cup {None}]
    /\ faults \in 0..MaxFaults

(* Who changes CRDs or the release holds maintenance, at the version it       *)
(* knows: no second upgrade runs beside it, and no recovery has fenced or     *)
(* released what a process that may be alive still works under.               *)
OneWriter == \A j \in Targets : Changing(j) => Own(j)

(* Maintenance is free only over a release in order: no path of the Job, and  *)
(* no recovery, unlocks a half-made upgrade or roll-back.                     *)
UnlockedIsSettled == reservation.uid = None => Settled

(* What a recovery's record says is so and stays so: a success is the         *)
(* operation that deleted the reservation, and a failure will never be one,   *)
(* whatever answer was lost, whichever delete arrives late and however many   *)
(* handlers resolve the operation.                                            *)
RecoveryTruthful ==
    \A o \in Ops :
        /\ journal[o].state = "success" => freed[journal[o].uid] = o
        /\ journal[o].state = "failure" => freed[journal[o].uid] # o

(* Every admitted recovery gets an outcome if it is asked about again,        *)
(* wherever it was interrupted and whichever handlers race to resolve it: at  *)
(* any time the journal will again have nothing pending.  Unless a writer is  *)
(* on a lost node: then a recovery stays pending, for nobody can tell that    *)
(* the writer has stopped.                                                    *)
RecoveryAnswered ==
    []<>(\A o \in Ops : journal[o].state = "pending" =>
                             \E j \in Targets : writer[j].lost)
============================================================================
