# Kyber: TLA+ models, checks and proofs

Kyber runs long-lived coding agents as pods on machines it provisions. Its
control plane (Go, several replicas) owns the agents' and machines' lifecycles,
hands agents work and collects what they produce. This directory holds TLA+
models of its core protocols, the TLC runs that check small instances of them,
and TLAPS proofs for every instance size. All paths below are under `src/`.

## 1. Inventory

| Component | State | Operations | Hard behaviour | Correct when |
|---|---|---|---|---|
| Durable task store, `pkg/taskstore` | PostgreSQL: task, dispatch, interaction, cancel-delivery, result, object and event rows | Create, ClaimPending, BeginAttempt, AcceptReceipt, Complete, Reject, Request/RespondInteraction, Cancel, AcknowledgeCancel, Reconcile, uploads | concurrent transactions of all replicas, leases, expiry, retries | rows agree, one delivery per agent, no turn delivered twice, every task ends |
| Dispatch worker, `pkg/taskdispatch` | claims in memory | claim, renew, deliver, release | crashes, lost answers, jobs older than their lease | see above |
| Internal task API, `pkg/api/internal_tasks.go` | none | what the agent's reporter posts | checks and effects in separate store calls, late and repeated calls | only the current attempt changes a task |
| Public tasks API, `pkg/api/routes_agent_tasks.go` | none | create, get, list, cancel, respond, download | races with delivery | the states it reports follow `TaskLifecycle` |
| Object storage and its cleanup, `pkg/taskobject`, `cmd/control-plane/main.go` | objects by key | Put, Delete, the cleanup pass | lost commits, expired leases | no referenced object deleted, no orphan bytes |
| Agent controller, `pkg/controllers/agent` | Agent resource, pod, secrets, disks | reconcile by phase | stale cache, a controller that dies between two calls, restarts, lost machines, operator commands at any time | Stop halts, otherwise the agent runs or parks visibly, rebuilds end, deletion completes |
| Machine controller, `pkg/controllers/machine`, `pkg/adapters` | Machine resource, node, VM | provision, stop, replace on preemption, delete | crash between VM call and status patch, stale cache, provider failures | the recorded VM goes with its machine unless a namespace's teardown orphans it, the machine comes up, rests or goes away as wanted |
| Inbound queue, webhooks and bounded requests, `pkg/inbound`, `pkg/requeststore`, `pkg/api/routes_inbound*.go`, `routes_agent_requests.go` | one bounded channel and goroutine per agent; Redis records, sorted sets, dedup keys | Enqueue, handler, Stop, replay; Create, MarkDispatched, Fail, Complete | full queue, shutdown, crash, timeouts that race Redis expiry, repeated posts | limits hold, a refusal means unsent, one delivery for each life of a dedupe key, accepted requests settle, Stop returns |
| Archive jobs, `pkg/archivejob`, `pkg/api/archives*.go` | versioned job documents, objects, the agent's hold, export and import pods | create, advance, upload, cancel, delete, expire | optimistic concurrency, worker crashes between calls, late uploads and handlers | the agent gets its volume and intent back, archives keep their bytes, no half-restored agent boots, every job ends |
| Operator key changes, `pkg/operatorcredentials`, `pkg/api/routes_operator_credential_mutations.go`, `operator_credential_delivery.go`, `pkg/securityaudit` | versioned registry Secret, PostgreSQL journal, references kept in the registry until delivered | POST a change, recover an operation, deliver references | updates that land after their handler gave up, lost answers, two administrators at once | the journal tells the truth, an administrator remains, only authorized changes, recoveries settle |
| Self-upgrade, `pkg/selfupgrade`, `pkg/updates` | upgrade Jobs, the maintenance reservation (one Secret), the Helm release, the journal of recoveries | start, reserve, record effects, apply, verify, roll back, release; recover, resolve | processes killed between any two steps, lost nodes, writes that arrive late, handlers that race | one writer, maintenance is free only over a release in order, recorded outcomes are true and final, every recovery gets one |
| Capacity admission, `pkg/api/agent_capacity_lease.go` | Kubernetes Lease per machine | acquire, release | lease outlived by its holder | no over-allocation |
| A2A edge, node agent, sidecars, stores for usage, metrics and briefs, telemetry, PWA, charts | - | translation, reporting, I/O, UI | - | - |

How they interact. A caller creates a task over the
public API; a worker of any replica claims its dispatch row, commits the
*ambiguity boundary* (`BeginAttempt`: from then on the prompt may have reached
the agent) and hands the prompt to the agent's runtime through the replica's
in-memory queue; the agent's reporter posts receipt, progress, questions, files
and completion to the internal API under the attempt's token; every 30 seconds
every replica's reconciler repairs what leases, deadlines and expiries left
behind and cleans up objects. The only shared state is PostgreSQL and the
object store; everything in worker memory is lost in a crash.

The same queue carries webhooks and bounded requests, whose records live in
Redis. The agent and machine controllers share no code path: the agent
controller reads the Machine's phase and the node, the machine controller reads
what runs on its node. An archive job holds an agent through an annotation that
the agent controller respects. Key changes write one registry Secret under its
resource version, and a PostgreSQL journal that is never in the same transaction.
An upgrade holds a second Secret, the maintenance reservation, as a lock without
expiry; what a dead upgrade leaves locked an administrator recovers through the
same journal.

## 2. Modules

| Module | Models | State and actions |
|---|---|---|
| `TaskRows` | the rows of one task (`postgres*.go`) | no variables: each store operation is a guard `...OK` and a function from row to row, each reconciler statement a function; also what it means for rows to agree |
| `TaskDispatch` | callers, replicas' workers and reconcilers, agents, time, over those rows | `db` rows, `claiming` open ClaimPending transactions, `jobs` worker memory, `issued`/`begun`/`sent` attempts, `calls` completion handlers in flight; one action per transaction or callback |
| `TaskLifecycle` | what callers are promised (abstract) | `phase` and `exposed` per task |
| `TaskObjects` | one task's file results: upload handler, object rows, storage, cleanup passes | `obj`, `result`, `bytes`, `up` handlers, `txn` the commit in doubt, `pass` cleanup passes |
| `MachineLifecycle` | one spot machine: the controller, GCE, the node | `crd`, `cache` the controller's copy, `worker` the reconcile between two calls, `vm`, `node`, `password` boot token, `namespace`, history `made`, `recorded`, `orphaned` |
| `AgentLifecycle` | one agent: the controller, its pod, its machine, its operator | `crd`, `cache`, `worker`, `pod`, `machine`, `secret` |
| `AgentInbound` | one agent's webhooks and bounded requests | `redis`, `clock`, `call` requests' handlers, `queue`, `worker`, history `deliveries`, budget `spent` |
| `ArchiveJobs` | one export or import | `row` the job, `thread` worker, upload, create, cancel and delete handlers with their copies, `up`, `agent`, `pod`, `object`, `volume`, `late` create calls, budgets `lapsed`, `asked`, `spent` |
| `CredentialChanges` | key changes, recoveries and delivery passes | `registry`, `journal`, `wire` updates whose handler gave up, `post`, `recovery`, `pass`, history `applied`, budget `faults` |
| `SelfUpgrade` | upgrade Jobs and recoveries of the maintenance they hold | `starting` requests, `writer` the Jobs' processes, `reservation`, `wire` unanswered writes, `release` and `live` version, `journal`, `handler` recovery requests, history `freed`, budget `faults` |
| `MC...` | instances for TLC | - |
| `TaskRowProofs`, and `...Proofs` of `TaskDispatch`, `TaskObject(s)`, `CredentialChanges`, `SelfUpgrade`, `MachineLifecycle`, `AgentInbound`, `ArchiveJobs` | lemmas and theorems | - |

Choices worth knowing when reading them against the code:

* A PostgreSQL transaction that locks what it reads is one action. Two are not:
  `ClaimPending` reads the lane in its first statement's snapshot and rechecks it
  in a later one (`ClaimSelect`, then `ClaimCommit` or `ClaimRollback`, holding
  the row lock between), and `handleTaskComplete` makes three store calls
  (`CompleteCheck`, `CompleteRead`, `Complete`).
* Timestamps become the side of the clock they are on; the `Clock` actions move
  them. An interaction's or cancellation's deadline never outlives the task's,
  because the code caps both. Clock skew between a replica and the database only
  shifts when a side is reached.
* The reconciler is one transaction over all rows not locked by a claim.
  Each statement has a LIMIT and SKIP LOCKED of its own, so each may pass by any
  row: `ReconcileRows(r)` is the set of everything a run may make of `r`.
* The lease owner is the host name, so it survives a container restart: `Crash`
  empties a worker's memory and keeps its name.
* Idempotent replays leave the rows as they are and are not actions. Progress
  stands for text and JSON results too: both only consume a version of the row.
* In `TaskObjects` every file has size 1, so `MaxFiles` is the byte limit; the
  task is reduced to running, ended, retired or gone and its current attempt.
  `TaskRows.DeleteRetained` leaves out the condition that no object rows remain,
  which `TaskObjects` models and `RetiredTaskDeleted` is about.
* Definitions marked *faulty variant* are plausible slips of the definition that
  follows. No specification uses them; each is there to show that a property
  notices it.
* The controllers, `ArchiveJobs`, `CredentialChanges` and `SelfUpgrade` cut a handler wherever it
  makes a call that others can see: the controller may die, lose the answer or be
  overtaken between any two of them. A fault costs one of a small budget
  (`MaxFaults`), and so does a reconcile from a copy older than the current one.
* `MachineLifecycle` is the action-oriented path (`reconciler.go`), which is the
  one GCE machines take. One VM per name, whose incarnations have numbers. A
  namespace is deleted at any time: `handleDeletion` then removes the finalizer and
  leaves a recorded VM running, flagged in an event (`BypassFinalizer`, `orphaned`),
  unless its copy of the namespace lags or cannot be read.
* `AgentLifecycle` reads pods live, lets an API handler's status and spec patches
  be one step, and has a spot machine. A reconcile of a deleted agent may find its
  namespace terminating (`torn`). A pod finds room on its node once at most. Left
  out: disk expansion, codex inference credentials, the stale-node arm, the wait
  after exit code 137, image and sidecar convergence, `PassiveConfigGeneration`,
  what `Reconcile` refreshes before it classifies (public capabilities, user
  secrets, channel migrations, pod token, identity repository, jobs ConfigMap), and
  volumes and Secrets: the finalizer deletes them between the pod and the stores
  (`reconciler.go:1848-1884`) and retries a failure without a limit, so
  `DeletionCompletes` is about the stores only.
* `AgentInbound` has one agent and one replica that may restart; clocks of the
  replica and of Redis agree; signature checks and `Decide` are pure and come
  before; the rate limiter is a choice; equal scores in the terminal set count as
  ordered. The dedupe key of a body lives for 24 hours, which are not measured: it
  may lapse at any time (`BodyExpires`), also while its first post is under way. The
  seven days of a cached envelope are left out: their end only refuses replays.
* `ArchiveJobs`: a behaviour is the export of a live agent with up to two upload
  requests, or the import of an archive whose source agent is gone. A handler's
  copy of the job carries a `fresh` flag instead of a version number. Timeouts
  (pause, pod, grace, boot) may fire at any time; only the job's own deadline is
  a clock. The finalizer of a deleted agent runs at once. `BeginRestore` joins the
  read of the agent, the creation of its volume and the save
  (`archives_import.go:523-593`), so a volume created after another goroutine
  discarded the agent, which Kubernetes collects with its owner, is not seen.
  Recreation of an agent
  under the same name, pod tokens, uploads by the operator, download links, the
  installation-wide limit and archive contents are left out.
* `CredentialChanges`: loading the registry and looking up the journal are one
  step (admission asks the journal again); an update that is not answered in time
  stays on `wire` and may be processed at any later point; the actor check of a
  recovery is the possibility that it gives up; expiry is a flag. Permission
  revisions, names, scopes, external keys, adoption, sessions and the management
  audit are left out.
* `SelfUpgrade`: a Job is named after its target version and never deleted, and
  has one pod that runs once. A reservation's UID stands for its writer, and a
  marker's nonce for the version it was written in. A write that is not answered
  stays on `wire` and may arrive as long as the version it names is current; one
  that arrives before the answer is given up is the answered case, because every
  writer reads back. The checks of one read (`Eligible`) are one step, and so are
  `PrepareRecovery`'s reads and its write, as the write is refused unless the
  version read is still current. `Preflight` joins everything before the first
  effect, `Settled` is what the release verifier compares: the record is deployed
  and the running version is the record's. Left out: dry runs, compatibility
  of charts, a change of authority in the middle of an upgrade, adoption under the
  same reservation, clean-up of old Jobs.

## 3. Runs

| Run | Bounds | Shows |
|---|---|---|
| `lane` | 2 tasks of one agent, 2 workers, 2 attempt ids | `LaneExclusion`, `RowsAgree` |
| `turns` | 1 task, 2 workers, 1 interaction, 1 progress update, 3 attempt ids, 1 completion in flight | `AtMostOneAttemptPerTurn`, `CanceledMeansUndelivered`, `TerminalAnnounced`, refinement of `TaskLifecycle` |
| `ends` | 1 task, 1 worker, 1 interaction, 2 attempt ids, fairness | `EveryTaskEnds`, `LaneFreed` |
| `objects` | 2 uploads of one result, 1 cleanup replica, 1 attempt, room for both files, fairness | `ReferencedObjectKept`, `NoOrphanBytes`, `ReadyIsReferenced`, `UploadReclaimed`, `RetiredTaskDeleted` |
| `machine` | 2 replacements (the code allows 3), 4 VMs, 2 faults, 1 command (Stop, delete, or the namespace's deletion and then the machine's) | `RecordedVMDeleted`, `ComesUp`, `ComesToRest`, `GoesAway` |
| `agent` | 2 restarts (code: 3), 2 clean-up attempts (code: 5), 1 fault, 1 command of eight kinds; pods that fail or fail to start cost nothing | `StopHalts`, `RunsOrParks`, `RebuildsEnd`, `DeletionCompletes` |
| `inbound` | 2 requests, 2 posts of one body, limits of 1; one fault, stop, replay or lapse of the body's key | `LimitsKept`, `RefusedMeansUnsent`, `DeliveredOnce`, `AcceptedSettles`, `StopEnds` |
| `archive` | 2 uploads, 1 fault, 1 command | `AgentGivenBack`, `ArchiveKept`, `BootsOnlyRestored`, `DiscardComplete`, `EveryJobEnds` |
| `credentials` | 2 keys, 2 operations, 2 posts (the second may repeat the first's operation), 1 recovery, one reference per pass, 1 fault | `JournalTruthful`, `AdministratorRemains`, `ChangesAuthorized`, `RecoverySettles`, `OutboxDrains` |
| `upgrade` | 2 target versions, 2 operations, 2 handlers, 1 fault | `OneWriter`, `UnlockedIsSettled`, `RecoveryTruthful`, `RecoveryAnswered` |
| `stale_complete`, `agent_stop` | as `turns`; no fault, two commands | the two divergences with a run in section 6 |

Why the bounds suffice: lane conflicts are between two tasks of one agent and two
claimants; two attempt ids give each of them a delivery. Everything about turns
needs one interaction (two turns) and a third attempt id for a job that is stale
in the second. Two uploads of one result are the retry and the original; a third
would meet the same states. One cleanup replica is enough for the liveness
properties; that any number of them cannot harm each other is proved. The proofs
below remove the bounds for the safety part of every module but `AgentLifecycle`;
`ArchiveKept` is proved for one fault, the most
it stands. In `upgrade` two targets are the upgrade that fails and the
one that must not run beside it, two operations the one that fails and the one
that displaces its marker, two handlers any pair that races. `MaxAttemptIds` and `MaxCalls` bound the state space
only; all other constants are limits the code has. Deadlock is not checked: a system whose tasks are all deleted, whose
requests are settled or whose job is done has nothing left to do.

The retry limits of the controllers are lowered by one or more: the states are
"first attempt", "retry" and "exhausted", and two retries reach all three. One
fault at every point is what each handler is written to survive; `machine` takes
two, so that a fault can also hit the repair of the first. In `inbound` limits of
one make every second request meet a full queue, a full outstanding set and a
full terminal set; a lapsed key together with a fault or a replay is beyond the
run and covered by `DeliveriesOnce`. In `archive` with two faults and one upload every invariant
but `ArchiveKept` holds; see section 6.

`TypeOK` of `AgentLifecycle` documents the types. Those of the other modules are
proved.

Fairness. In `ends` only time (`LeaseExpires`, `DeadlinePasses`), the end of an
open claim transaction, and the reconciler are fair; workers, agents and callers
may stop for ever. The ticker in `main.go:1658` runs in every replica for as long
as the process lives. `WF(Sweeps(t))` says the sweep reaches each task it can do
something for: with LIMIT 100 per statement that holds as long as fewer than 100
rows stay eligible per sweep, as every row a statement takes stops being
eligible. In `objects` a claimed deletion is also assumed to finish within its
two-minute lease again and again and storage not to be down for ever, hence the
strong fairness on steps of a pass that still holds its lease; a replica could
otherwise time out for ever, which no code can prevent.

`MachineLifecycle`: the controller keeps reconciling, its cache catches up,
timeouts pass, a VM that can boot and register does, and the node of a dead VM
goes NotReady. Preemptions, faults and commands are bounded and not fair.
`AgentLifecycle`: the controller keeps reconciling, kubelets of healthy nodes
start and remove pods, machines come back, holds end and time passes.
`AgentInbound`: goroutines are scheduled, waits and execs have timeouts, and the
agent answers as often as `AcceptedSettles` needs it or the record expires.
`ArchiveJobs`: the worker's steps (a leader is re-elected and its three-second
ticker resumes the job) and deadlines, nothing else. `CredentialChanges`: the
steps of a recovery that has started and the leader's five-second delivery
ticker; posts and late updates are not fair and faults are bounded.
`SelfUpgrade`: a Job's process and a request's handler run on, somebody repairs a
release that nobody is changing, and an administrator asks again about an
operation that stays pending (strong fairness of `Resolve`, as the places for
requests are few in the model and may be taken each time). Starts, new recoveries
and late writes are not fair.

## 4. Proofs

Each theorem holds for any values of the constants that satisfy the module's named
assumptions. These say that sets of names do not overlap and that limits are
natural numbers, and nothing that the code does not justify: any number of tasks,
agents, workers, uploads, replicas, keys, targets, operations, handlers, requests
and posts, any limits, and any number of faults where the runs allow one or two.

| Theorem | Statement | Module it is about |
|---|---|---|
| `Invariance`, `TypeCorrect`, `LaneExclusive`, `RowsAlwaysAgree`, `DeliveredAtMostOnce`, `CanceledUndelivered`, `TerminalsAnnounced` | `Spec => []` the inductive invariant, `TypeOK` and the invariants of `lane` and `turns` | `TaskDispatch` |
| `RefinesLifecycle` | `Spec => Lifecycle!Spec` | `TaskDispatch` |
| `ObjectTypeCorrect`, `ReferencedKept`, `NoOrphans`, `ReadyReferenced` | `TypeOK` and the three invariants of `objects` | `TaskObjects` |
| `KeyChangesInv`, `KeyChangesTypeCorrect`, `KeyJournalTruthful`, `KeyAdministratorRemains`, `KeyChangesAuthorized` | the inductive invariant, `TypeOK` and the three safety properties of `credentials`, the last an action property | `CredentialChanges` |
| `UpgradeTypeCorrect`, `OnlyOneWriter`, `LockGuardsRelease`, `RecoveriesTruthful` | `TypeOK` and `OneWriter`, `UnlockedIsSettled`, `RecoveryTruthful` | `SelfUpgrade` |
| `MachineTypeCorrect`, `NoRecordedVMLeft` | `TypeOK` and `RecordedVMDeleted` | `MachineLifecycle` |
| `InboundTypeCorrect`, `StoreLimits`, `RefusalsHonest`, `DeliveriesOnce` | `TypeOK`, `LimitsKept`, `RefusedMeansUnsent`, `DeliveredOnce` | `AgentInbound` |
| `ArchiveTypeCorrect`, `ExportGivesBack`, `ImportBootsRestored`, `DiscardsComplete`, `OneFaultKeepsArchive` | `TypeOK` and `AgentGivenBack`, `BootsOnlyRestored`, `DiscardComplete`, and `ArchiveKept` as long as `spent.faults <= 1` | `ArchiveJobs` |

Task dispatch. None of the invariants is inductive alone, so `Inv` joins
them and adds four facts. `ClaimsPending`: an open claim holds a pending row of
its own, which the row lock gives and which makes `LaneExclusion` survive
`ClaimCommit`. `AttemptsFresh`: attempt ids are unique, and a job that has not
reached `BeginAttempt` has none begun. `BegunInTurn`: a begun attempt of the
current turn *is* the row's token, and an earlier turn's attempt was sent; since
`BeginOK` needs a leased row and a leased row has an empty token (`TokenAgrees`),
no second attempt of the turn can begin. `SentWasBegun`: what is sent has begun,
and a job about to send is one whose attempt began. `RowsAgree` carries most of
the weight: a withdrawn task was pending, leased or waiting, so no attempt of its
current turn had begun.

`TaskRowProofs` proves about each row function, once, that it keeps a row's type,
agreement and announcement, and what it does to turn, token and lane. Steps that
touch no row, or only fields no invariant mentions ("calm" steps), are dealt with
by shared lemmas, so `TaskDispatchProofs` has one case per action. Refinement
follows from the same row lemmas: each row function is a lifecycle move or a
stutter.

Uploads and clean-up. `IInv` is about one object at a time. A row only moves
none -> pending -> ready -> deleting -> none and never starts again, so what a
pass has claimed is no upload's any more (`PassInv`); an upload's bytes are there
from its Put until a pass erases them (`UploadInv`); the transaction in doubt
keeps its lock, and so all that its commit depends on (`TxnInv`); and a row is
ready exactly when its result shows it (`ResultInv`). The three properties follow
from `ResultInv` and `UploadInv`. `NoOrphanBytes` alone is not inductive: Put must
know that its row is still there, which is what the lease in `UploadInv` says.

Key changes. `Inv` joins `TypeOK` with what holds of each place an update can be:
the registry (`RegistryInv`), the journal (`JournalInv`), updates on the wire
(`WireOK`), handlers (`PostOK`, `RecoveryOK`, `PassOK`), and `SoleOwner`: an
admitted operation has one owner, the handler that runs it or the update it left
behind. The argument rests on two facts. An operation's update always carries
the registry version that the journal recorded at its admission (`Aimed`), so it
commits only if nothing else did since; and once the recovery's fence has moved
the version, it can never commit, which makes the recorded failure true. Every
commit is `Lawful` (`PostLawful`, `FenceLawful`, `PassLawful`, `ArrivesLawful`):
it is an operation's own, authorized change or keeps every key as it was.
`CommitKeeps`, `FinishKeeps` and `AdmitKeeps` show once what a commit, a journal
entry and an admission leave true for everybody else.

Self-upgrade. `OneWriter` follows the reservation. While a Job's process works
(`Working`), the reservation is its own and at the version it knows
(`WriterOK`); a recovery's marker says that the writer is over and the release in
order (`ReservationOK`), so no marker can be set under a process that works. A
write without an answer arrives only at the version it names, so what allowed it
is still so (`WireOK`); a create names no version, and is harmless because a
target's reservation is created at most once (`BirthOK`). For `RecoveryTruthful`,
an operation that recorded its intent to delete holds the marker from that
version on or has deleted, and one that failed can no longer delete: the
reservation has moved past the version of its intent (`JournalOK`, `Marked`,
`Dead`). A handler knows what it read only as far as it stays true until it acts
(`HandlerOK`); only a marker whose operation has failed is displaced (`Yields`).

Machines. `RecordedVMDeleted` says nothing of what a reconcile with a stale copy
is about to do. The argument is about order: the VM that is there is the last one
made (`VMInv`), no copy holds a later id than the resource, so that a merge patch
writes nothing but a newer id (`OrderInv`), deletion is not taken back and needs
the finalizer (`DeletionInv`), and so a recorded VM that is there is the one that
every copy names from which a deletion works (`RecordedInv`). The exception is a
VM that the namespace's teardown left behind: then its id was in the copy it worked
from, and is flagged.

Inbound traffic. Every live record is in the sorted set of its kind, and an id is
created and settled once (`RequestInv`, `StoreInv`), which keeps both limits.
An accepted request is in one channel, or with one worker, or nowhere once its
process stopped, and what its worker sent is what was delivered (`PlaceOK`,
`WorkerOK`). `agent_unavailable` is written by the worker that did not send, and
then the request is nowhere (`AnswerOK`), which is what makes a refusal honest.
`DeliveredOnce` counts: the prompts of a webhook's body that wait in a handler,
stand in line, are with a worker that has not sent, or reached the agent are
never more than what was paid for them, one for the body's key in Redis and one
for each key that lapsed, each replay and each post past a failing deduper
(`OnceInv`). That a key lapses moves its price from one count to the other
(`BodyExpiresOnce`). Every step moves
a prompt one place on, loses it, or pays for a new one; that each is taken by one
worker only is an injection from the line after a step into the line before.

Archive jobs, for any number of uploads, faults and commands. A job and its
agent are written by a goroutine that works on a copy of the row, and by handlers
with copies of their own, so the invariant (`IInv`) says what each copy is still
good for. Nobody but its goroutine moves an export from step to step: that copy is
right about the step, and about the hold until the agent was released
(`ExportCopies`). The row is saved before the agent is held and after it is
released, so the row that says "not held" proves the agent is given back, and one
that says "held" knows how to do it (`HoldInv`). An import's row is written by
its create handler as well, and a stale copy may be wrong about all but two
things, which stay true once they are: that the volume is restored, and that the
agent exists (`VolumeInv`). A row that is closing is opened by no copy
(`DiscardInv`), so a handler that comes late to record its agent fails and
discards it. `BootsOnlyRestored` needs that nothing of an import exists before
its handler creates the agent (`Unstarted`, `Uncreated`).

`OneFaultKeepsArchive` needs an invariant of its own on top (`BytesInv`), because
the bytes are not written by the goroutine but by an upload that may outlive its
pod. The claim lets one upload store, and only that one records (`ClaimInv`);
what is recorded and answered is stored unless the job is closing or the archive
was given up (`StoredInv`). What one fault may not break is the step from "the row
says uploaded" to "the upload was answered": a commit whose answer was lost is
that fault, and then the pod is still running and ends with an error
(`UploadSettled`), so the job fails; without a fault the pod waits for its upload
(`PodWaits`). With a second fault the pod is lost as well, the goroutine takes the
row's word, and the upload removes what it takes for unrecorded: section 6.

Only model-checked: all liveness, `AgentLifecycle`, and the divergences. The
provers at hand do no induction over data, no liveness under fairness and no
ENABLED.

## 5. Assumptions and what is not modelled

* A Put that returned an error has no effect later (`TaskObjects`); object
  storage does not promise this, and a late write would leave bytes whose row is
  gone.
* An upload's 30-minute lease outlives its Put: the internal server's two-minute
  read timeout (`pkg/api/internal.go`) cuts the body off.
* Object keys, attempt ids and key generations are random and taken to be unique.
* Webhook and request jobs share the queue with task jobs; in `TaskDispatch` they
  only make it full, in `AgentInbound` task jobs are left out.
* Not modelled in the task system: listing and cursors, event reading, scopes and
  authorization, payload validation, the idempotency tables, `MemoryStore`.
  `CompleteAuthorizationFlow` has no production caller in this commit and is an
  action all the same, as authorization turns need it.
* The optimistic lock on an agent in `ArchiveJobs` compares the agent read, so an
  agent changed and changed back is not told apart from one left alone.
* Once the pod of an upgrade is known to have terminated, no request of its
  process to the API server changes the release any more, and a rollout settles
  by the time Helm returns (`SelfUpgrade`). `docs/upgrading.md` tells
  administrators to stop the writer before they recover.
* The pod of a lost node never shows afterwards that its process has ended, so
  `RecoveryAnswered` promises nothing for it; if it does, the next resolve
  finishes.
* The 128-operation limit of the registry's references is a constant that the run
  does not reach with its two operations.
* The other components of section 1, with the reasons in `PROJECT.json`.

## 6. Divergences found

Two have a run:

* `stale_complete`. `Complete` checks the version read a moment earlier, not the
  attempt: a completion checked in one turn may land in the next
  (`internal_tasks.go:122-135`), which the multi-turn design excludes.
* `agent_stop`. The restart path clears `spec.desiredPhase` with a patch computed
  from the copy it read before (`controllers/agent/reconciler.go:1643`): a Stop
  that arrives in between is lost and the agent starts again (`StopKept`).

The others are stated as definitions of the modules, or seen while reading:

* Tasks. A receipt accepted after a cancellation appends a `queued -> dispatched`
  event (`EventsFollowState`, `postgres_dispatch.go:197-201`). An answer after the
  expiry of an interaction whose task ended otherwise appends a second
  `task.terminal` (`OneTerminalEvent`, `postgres_interactions.go:235-256`). The
  lease owner is the host name, so a job from before an interaction may begin the
  resumed turn without its answer (`ContinuationCarriesAnswer`,
  `postgres_dispatch.go:73`); the turn is still delivered only once. The design
  says completion closes the dispatch state, the code leaves it `delivered`.
  `SKIP LOCKED` lets a younger task of an agent start before an older one.
* Machines. StopVM is called before the pods drained, although the comment at
  `reconciler.go:508-510` says otherwise; a spot VM that the operator stopped
  reads as interrupted, so Stopping waits for its timeout; a machine that is Ready
  or Running, wanted Stopped, with its VM gone returns an error at every
  reconcile; `ReplacementCount` is never reset; a Failed machine wanted Running is
  recreated although its message asks for manual intervention; a VM that was
  created and not recorded outlives a machine deleted at once
  (`reconciler.go:1116`); failures of `cleanupStaleNodeArtifacts` use up
  replacement attempts (`KeepsReconciling`); the reboot route only sets
  `desiredPhase` (`routes_machines.go:292-296`).
* Agents. `StartupTimeout` and `PodScheduleFailed` go through Failed without
  counting a restart, so an agent that never becomes ready is rebuilt for ever
  (`StartFails`, an exception that `RunsOrParks` and `RebuildsEnd` name; without it
  the run refutes both). A pod created before a crash is
  neither adopted nor removed while its node is healthy. Chat-bridge sidecars
  keep a pod Running whose agent has exited. A pod deleted by others while the
  agent is Creating strands it. Authentication and memory failures share one
  recovery input, so alternating causes look like changed input. Stop and Start
  give an exhausted agent no fresh budget.
* Inbound. Stop cancels handlers before it waits for them (`DrainsDeliveries`).
  `Enqueue` may send on a channel that Stop has closed and panic. A reply that
  comes before `MarkDispatched` is refused. Ids of expired requests stay in the
  terminal set and may cause a live terminal record to be trimmed early. A sender's
  retry of a webhook that was refused is deduplicated, a documented trade-off, and
  one that is repeated after the key's 24 hours is delivered again.
* Archives. A reconcile that read the agent before its hold may create the
  agent's pod beside the export pod (`VolumeQuiescent`). A conflict with an
  operator's Stop is answered by setting the paused mark again
  (`OperatorChoiceKept`). A create handler's `abandon` turns a canceled import
  into a failed one (`TerminalStays`). A create handler that dies after a cancel
  leaves an agent held by a job that has ended. A lost commit answer together
  with a lost pod makes the handler delete bytes the job refers to
  (`ArchiveKept` with two faults).
* Key changes. None. The re-check before `Replace` evaluates an actor's expiry at
  the operation's own time, so a key expiring in those seconds is not noticed.
* Self-upgrade. None. Two upgrades may both be started (`updates/apply.go:153`),
  also beside a process on a lost node; the reservation, not the Job list, keeps
  them from changing the release together, and the second one ends at once.

## 7. Plan

1. Done: the task system with its proofs and refinement, uploads and clean-up with
   their proofs, machines, agents, inbound traffic, archive jobs, operator key
   changes with their proofs, self-upgrade with the recovery of its maintenance.
2. Next: adoption of the registry under the same reservation, capacity admission,
   and the order of starts within a lane.
3. Proofs: `TypeOK` of `AgentLifecycle`, whose other properties are liveness.
