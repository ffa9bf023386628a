---------------------------- MODULE TaskDispatch ----------------------------
(***************************************************************************)
(* Durable tasks end to end: callers creating, answering and cancelling    *)
(* tasks (pkg/api/routes_agent_tasks.go), the dispatch workers of the      *)
(* control-plane replicas (pkg/taskdispatch/worker.go over the in-memory   *)
(* per-agent queue of pkg/inbound), the reconciler every replica runs      *)
(* (cmd/control-plane/main.go), and the agents' attempts reporting back    *)
(* through pkg/api/internal_tasks.go, all over the PostgreSQL store whose  *)
(* rows TaskRows describes.                                                *)
(*                                                                         *)
(* Every store transaction is one action, with two exceptions the code     *)
(* makes: ClaimPending selects a row and rechecks the lane in two          *)
(* statements with two snapshots, and a completion is three calls          *)
(* (GetReceipt, Get, Complete) of one HTTP handler.                        *)
(***************************************************************************)
EXTENDS TaskRows, FiniteSets

CONSTANTS
    Tasks, Agents, AgentOf,   \* AgentOf[t]: the agent a task is addressed to
    NoTask,
    MaxOutstanding,           \* Limits.MaxOutstanding, per agent
    MaxRetained,              \* Limits.MaxRetained
    MaxAttemptIds,            \* bound: attempt ids handed out
    MaxCalls                  \* bound: completion handlers in flight

ASSUME TasksAssumption ==
    /\ AgentOf \in [Tasks -> Agents]
    /\ NoTask \notin Tasks
    /\ IsFiniteSet(Tasks)
    /\ MaxOutstanding \in Nat /\ MaxRetained \in Nat
    /\ MaxAttemptIds \in Nat
    /\ MaxCalls \in Nat

VARIABLES
    db,        \* db[t]: the rows of task t
    claiming,  \* claiming[w]: the row w's open ClaimPending transaction locked
    jobs,      \* claims held in worker memory, lost when the worker crashes
    issued,    \* attempt ids handed out so far by newAttemptID
    begun,     \* history: attempts that crossed the ambiguity boundary
    sent,      \* the attempts whose envelope reached the agent's runtime
    calls      \* handleTaskComplete calls in flight

vars == <<db, claiming, jobs, issued, begun, sent, calls>>

\* A claim in a worker: the envelope was rendered for the turn and version
\* the claim read, under an attempt id of its own.
Job ==
    [worker: Workers, task: Tasks, attempt: Nat, version: Nat, turn: Nat,
     stage: {"claimed", "queued", "refused", "begun", "sent", "unsent"}]

\* Attempt a of task crossed the boundary in turn `turn' of the task with an
\* envelope rendered for turn `carried'.
Begun == [task: Tasks, attempt: Nat, turn: Nat, carried: Nat]

Call == [task: Tasks, attempt: Nat, stage: {"checked", "read"}, version: Nat]

TypeOK ==
    /\ db \in [Tasks -> Row]
    /\ claiming \in [Workers -> Tasks \cup {NoTask}]
    /\ jobs \subseteq Job
    /\ issued \in Nat
    /\ begun \subseteq Begun
    /\ sent \subseteq Nat
    /\ calls \subseteq Call

Init ==
    /\ db = [t \in Tasks |-> AbsentRow]
    /\ claiming = [w \in Workers |-> NoTask]
    /\ jobs = {}
    /\ issued = 0
    /\ begun = {}
    /\ sent = {}
    /\ calls = {}

-----------------------------------------------------------------------------
(* Helpers. *)

Put(t, r) == db' = [db EXCEPT ![t] = r]

\* FOR UPDATE OF d by an open claim: whoever needs the row waits.
Locked(t) == \E w \in Workers : claiming[w] = t

SameLane(t) == {u \in Tasks : AgentOf[u] = AgentOf[t]}

\* Faulty variant of LaneBusy: it overlooks a delivery that is only leased.
LaneBusyAttempting(t) == \E u \in SameLane(t) \ {t} : db[u].disp \in Ambiguous

\* The lane recheck under the advisory lock, another task's delivery only.
LaneBusy(t) == \E u \in SameLane(t) \ {t} : db[u].disp \in InLane

\* The SELECT of ClaimPending: also no cancellation pending on the agent.
Eligible(t) ==
    /\ Claimable(db[t])
    /\ \A u \in SameLane(t) :
         db[u].state # "canceling" /\ db[u].disp \notin InLane

OutstandingOf(a) ==
    {t \in Tasks : AgentOf[t] = a /\ db[t].state \in Outstanding}

\* One goroutine per agent drains the channel in enqueue order, which is the
\* order in which the worker drew attempt ids.
AtHead(j) ==
    \A k \in jobs :
        (/\ k.worker = j.worker
         /\ AgentOf[k.task] = AgentOf[j.task]
         /\ k.stage # "claimed") => j.attempt <= k.attempt

Stage(j, s) == jobs' = (jobs \ {j}) \cup {[j EXCEPT !.stage = s]}
Drop(j) == jobs' = jobs \ {j}

\* The runtime has seen attempt a of task t: it may call at any time, late
\* and repeatedly.
Prompted(t, a) ==
    a \in sent /\ \E b \in begun : b.task = t /\ b.attempt = a

-----------------------------------------------------------------------------
(* Callers. *)

Create(t) ==
    /\ db[t].state = "absent"
    /\ Cardinality({u \in Tasks : db[u].state \in Present}) < MaxRetained
    /\ Cardinality(OutstandingOf(AgentOf[t])) < MaxOutstanding
    /\ Put(t, CreateRow(1 + Cardinality({u \in Tasks : db[u].state # "absent"})))
    /\ UNCHANGED <<claiming, jobs, issued, begun, sent, calls>>

Cancel(t) ==
    /\ CancelOK(db[t])
    /\ ~Locked(t)
    /\ Put(t, CancelRow(db[t]))
    /\ UNCHANGED <<claiming, jobs, issued, begun, sent, calls>>

RespondInteraction(t) ==
    /\ \/ RespondOK(db[t]) /\ Put(t, RespondRow(db[t]))
       \/ RespondLateOK(db[t]) /\ Put(t, RespondLateRow(db[t]))
    /\ UNCHANGED <<claiming, jobs, issued, begun, sent, calls>>

CompleteAuthorizationFlow(t) ==
    /\ FlowOK(db[t])
    /\ Put(t, FlowRow(db[t]))
    /\ UNCHANGED <<claiming, jobs, issued, begun, sent, calls>>

-----------------------------------------------------------------------------
(* A dispatch worker. *)

\* ClaimPending, first statement: the oldest eligible row that no other
\* claim has locked.  drain() claims one row at a time.
ClaimSelect(w, t) ==
    /\ claiming[w] = NoTask
    /\ issued + Cardinality({v \in Workers : claiming[v] # NoTask}) < MaxAttemptIds
    /\ \A j \in jobs : j.worker = w => j.stage # "claimed"
    /\ Eligible(t) /\ ~Locked(t)
    /\ \A u \in Tasks : Eligible(u) /\ ~Locked(u) => db[t].born <= db[u].born
    /\ claiming' = [claiming EXCEPT ![w] = t]
    /\ UNCHANGED <<db, jobs, issued, begun, sent, calls>>

\* ClaimPending, the rest: the lane lock, the recheck and the UPDATE, then
\* newAttemptID and the envelope.
ClaimCommit(w) ==
    LET t == claiming[w]
    IN  /\ t # NoTask
        /\ ~LaneBusy(t)
        /\ claiming' = [claiming EXCEPT ![w] = NoTask]
        /\ issued' = issued + 1
        /\ Put(t, ClaimRow(db[t], w))
        /\ jobs' = jobs \cup
             {[worker |-> w, task |-> t, attempt |-> issued + 1,
               version |-> db[t].version, turn |-> db[t].turns,
               stage |-> "claimed"]}
        /\ UNCHANGED <<begun, sent, calls>>

\* The transaction rolls back: the lane is busy, or a statement failed.
ClaimRollback(w) ==
    /\ claiming[w] # NoTask
    /\ claiming' = [claiming EXCEPT ![w] = NoTask]
    /\ UNCHANGED <<db, jobs, issued, begun, sent, calls>>

\* Queue.Enqueue accepts the job.
Enqueue(j) ==
    /\ j.stage = "claimed"
    /\ Stage(j, "queued")
    /\ UNCHANGED <<db, claiming, issued, begun, sent, calls>>

\* ReleaseLease after Enqueue found the channel full (webhook and request
\* jobs share it), or after BeforeDelivery failed.
Release(j) ==
    /\ j.stage \in {"claimed", "refused"}
    /\ IF HoldsLease(db[j.task], j.worker)
       THEN Put(j.task, ReleaseRow(db[j.task]))
       ELSE UNCHANGED db
    /\ Drop(j)
    /\ UNCHANGED <<claiming, issued, begun, sent, calls>>

\* The renewal goroutine, until BeforeDelivery stops it.
RenewLease(j) ==
    /\ j.stage \in {"claimed", "queued"}
    /\ HoldsLease(db[j.task], j.worker)
    /\ Put(j.task, RenewRow(db[j.task]))
    /\ UNCHANGED <<claiming, jobs, issued, begun, sent, calls>>

\* The agent did not become Running in time.
AgentUnavailable(j) ==
    /\ j.stage = "queued" /\ AtHead(j)
    /\ IF FailDeliveryOK(db[j.task], j.worker, j.version)
       THEN Put(j.task, FailDeliveryRow(db[j.task], "agent_unavailable"))
       ELSE UNCHANGED db
    /\ Drop(j)
    /\ UNCHANGED <<claiming, issued, begun, sent, calls>>

\* BeforeDelivery: BeginAttempt commits; its answer may still be lost, and
\* then the worker takes the attempt for refused.
BeginAttempt(j) ==
    /\ j.stage = "queued" /\ AtHead(j)
    /\ BeginOK(db[j.task], j.worker)
    /\ Put(j.task, BeginRow(db[j.task], j.attempt))
    /\ begun' = begun \cup
         {[task |-> j.task, attempt |-> j.attempt,
           turn |-> db[j.task].turns, carried |-> j.turn]}
    /\ Stage(j, "begun") \/ Stage(j, "refused")
    /\ UNCHANGED <<claiming, issued, sent, calls>>

BeginRefused(j) ==
    /\ j.stage = "queued" /\ AtHead(j)
    /\ ~BeginOK(db[j.task], j.worker)
    /\ Stage(j, "refused")
    /\ UNCHANGED <<db, claiming, issued, begun, sent, calls>>

\* The adapter's exec: the prompt enters the runtime and the adapter reports
\* success or, all the same, an error; or it fails with nothing delivered.
Deliver(j) ==
    /\ j.stage = "begun"
    /\ sent' = sent \cup {j.attempt}
    /\ Stage(j, "sent") \/ Stage(j, "unsent")
    /\ UNCHANGED <<db, claiming, issued, begun, calls>>

DeliverNothing(j) ==
    /\ j.stage = "begun"
    /\ Stage(j, "unsent")
    /\ UNCHANGED <<db, claiming, issued, begun, sent, calls>>

\* OnDelivery(DeliveryDispatched).
MarkReceiptPending(j) ==
    /\ j.stage = "sent"
    /\ IF MarkReceiptOK(db[j.task], j.worker, j.attempt)
       THEN Put(j.task, MarkReceiptRow(db[j.task]))
       ELSE UNCHANGED db
    /\ Drop(j)
    /\ UNCHANGED <<claiming, issued, begun, sent, calls>>

\* OnDelivery(DeliveryFailed) after the attempt started.
FailDelivery(j) ==
    /\ j.stage = "unsent"
    /\ IF FailDeliveryOK(db[j.task], j.worker, j.version)
       THEN Put(j.task, FailDeliveryRow(db[j.task], "delivery_unknown"))
       ELSE UNCHANGED db
    /\ Drop(j)
    /\ UNCHANGED <<claiming, issued, begun, sent, calls>>

\* A store error inside a callback is logged and the job forgotten.
CallbackFails(j) ==
    /\ j.stage # "begun"
    /\ j.stage = "queued" => AtHead(j)
    /\ Drop(j)
    /\ UNCHANGED <<db, claiming, issued, begun, sent, calls>>

\* The process dies; the pod restarts under the same host name.
Crash(w) ==
    /\ claiming' = [claiming EXCEPT ![w] = NoTask]
    /\ jobs' = {j \in jobs : j.worker # w}
    /\ UNCHANGED <<db, issued, begun, sent, calls>>

-----------------------------------------------------------------------------
(* An attempt of the agent. *)

AcceptReceipt(t, a) ==
    /\ ReceiptOK(db[t], a)
    /\ Put(t, ReceiptRow(db[t]))
    /\ UNCHANGED <<claiming, jobs, issued, begun, sent, calls>>

ReportProgress(t, a) ==
    /\ ProgressOK(db[t], a)
    /\ Put(t, ProgressRow(db[t]))
    /\ UNCHANGED <<claiming, jobs, issued, begun, sent, calls>>

RequestInteraction(t, a, s) ==
    /\ RequestOK(db[t], a)
    /\ Put(t, RequestRow(db[t], s))
    /\ UNCHANGED <<claiming, jobs, issued, begun, sent, calls>>

Reject(t, a) ==
    /\ RejectOK(db[t], a)
    /\ Put(t, RejectRow(db[t]))
    /\ UNCHANGED <<claiming, jobs, issued, begun, sent, calls>>

GetControl(t, a) ==
    /\ ControlOK(db[t], a)
    /\ Put(t, ControlRow(db[t]))
    /\ UNCHANGED <<claiming, jobs, issued, begun, sent, calls>>

AcknowledgeCancel(t, a) ==
    /\ AckOK(db[t], a)
    /\ Put(t, AckRow(db[t]))
    /\ UNCHANGED <<claiming, jobs, issued, begun, sent, calls>>

\* handleTaskComplete, first call: GetReceipt finds attempt a with a receipt.
CompleteCheck(t, a) ==
    /\ db[t].state \in Present
    /\ db[t].token = a /\ db[t].receipt # 0
    /\ Cardinality(calls) < MaxCalls
    /\ calls' = calls \cup
         {[task |-> t, attempt |-> a, stage |-> "checked", version |-> 0]}
    /\ UNCHANGED <<db, claiming, jobs, issued, begun, sent>>

\* Second call: Get reads the version Complete will be given.
CompleteRead(c) ==
    /\ c.stage = "checked"
    /\ db[c.task].state \in Present
    /\ calls' = (calls \ {c}) \cup
         {[c EXCEPT !.stage = "read", !.version = db[c.task].version]}
    /\ UNCHANGED <<db, claiming, jobs, issued, begun, sent>>

\* Third call: Complete.
Complete(c) ==
    /\ c.stage = "read"
    /\ CompleteOK(db[c.task], c.version)
    /\ Put(c.task, CompleteRow(db[c.task]))
    /\ calls' = calls \ {c}
    /\ UNCHANGED <<claiming, jobs, issued, begun, sent>>

\* The handler ends without completing: not found, a conflict, a lost caller.
CompleteEnds(c) ==
    /\ calls' = calls \ {c}
    /\ UNCHANGED <<db, claiming, jobs, issued, begun, sent>>

-----------------------------------------------------------------------------
(* The reconciler: one transaction over rows that no open claim holds.     *)

Reconcile ==
    /\ \E swept \in [Tasks -> UNION {ReconcileRows(db[t]) : t \in Tasks}] :
         /\ \A t \in Tasks :
              swept[t] \in IF Locked(t) THEN {db[t]} ELSE ReconcileRows(db[t])
         /\ db' = swept
    /\ db' # db
    /\ UNCHANGED <<claiming, jobs, issued, begun, sent, calls>>

-----------------------------------------------------------------------------
(* Time passing. *)

LeaseExpires(t) ==
    /\ db[t].lease = "live"
    /\ Put(t, LeaseExpiresRow(db[t]))
    /\ UNCHANGED <<claiming, jobs, issued, begun, sent, calls>>

BackoffEnds(t) ==
    /\ db[t].backoff = "waiting"
    /\ Put(t, BackoffEndsRow(db[t]))
    /\ UNCHANGED <<claiming, jobs, issued, begun, sent, calls>>

InteractionDue(t) ==
    /\ db[t].inter = "paused" /\ db[t].interClock = "ahead"
    /\ Put(t, InteractionDueRow(db[t]))
    /\ UNCHANGED <<claiming, jobs, issued, begun, sent, calls>>

CancelDue(t) ==
    /\ db[t].cancel # "none" /\ db[t].cancelClock = "ahead"
    /\ Put(t, CancelDueRow(db[t]))
    /\ UNCHANGED <<claiming, jobs, issued, begun, sent, calls>>

DeadlinePasses(t) ==
    /\ db[t].state \in Present /\ db[t].due = "live"
    /\ Put(t, DeadlineRow(db[t]))
    /\ UNCHANGED <<claiming, jobs, issued, begun, sent, calls>>

RetentionPasses(t) ==
    /\ db[t].state \in Present /\ db[t].due = "past"
    /\ Put(t, RetentionRow(db[t]))
    /\ UNCHANGED <<claiming, jobs, issued, begun, sent, calls>>

-----------------------------------------------------------------------------
(* The specification. *)

Caller(t) ==
    Create(t) \/ Cancel(t) \/ RespondInteraction(t) \/ CompleteAuthorizationFlow(t)

WorkerStep(j) ==
    \/ Enqueue(j) \/ Release(j) \/ RenewLease(j) \/ AgentUnavailable(j)
    \/ BeginAttempt(j) \/ BeginRefused(j) \/ Deliver(j) \/ DeliverNothing(j)
    \/ MarkReceiptPending(j) \/ FailDelivery(j) \/ CallbackFails(j)

Agent(t, a) ==
    /\ Prompted(t, a)
    /\ \/ AcceptReceipt(t, a) \/ ReportProgress(t, a)
       \/ \E s \in Waiting : RequestInteraction(t, a, s)
       \/ Reject(t, a) \/ GetControl(t, a) \/ AcknowledgeCancel(t, a)
       \/ CompleteCheck(t, a)

Handler(c) == CompleteRead(c) \/ Complete(c) \/ CompleteEnds(c)

Clock(t) ==
    \/ LeaseExpires(t) \/ BackoffEnds(t) \/ InteractionDue(t)
    \/ CancelDue(t) \/ DeadlinePasses(t) \/ RetentionPasses(t)

Next ==
    \/ \E t \in Tasks : Caller(t) \/ Clock(t)
    \/ \E t \in Tasks, w \in Workers : ClaimSelect(w, t)
    \/ \E w \in Workers : ClaimCommit(w) \/ ClaimRollback(w) \/ Crash(w)
    \/ \E j \in jobs : WorkerStep(j)
    \/ \E t \in Tasks, a \in sent : Agent(t, a)
    \/ \E c \in calls : Handler(c)
    \/ Reconcile

Spec == Init /\ [][Next]_vars

\* A reconciler run that does something for task t.
Sweeps(t) == Reconcile /\ db'[t] # db[t]

\* Clocks advance, an open claim transaction ends, and the 30-second ticker
\* of every replica reaches every task it can do something for.  Workers,
\* agents and callers may stop at any point.
FairSpec ==
    /\ Spec
    /\ \A t \in Tasks :
         /\ WF_vars(LeaseExpires(t))
         /\ WF_vars(DeadlinePasses(t))
         /\ WF_vars(Sweeps(t))
    /\ \A w \in Workers : WF_vars(ClaimCommit(w) \/ ClaimRollback(w))

-----------------------------------------------------------------------------
(* Safety. *)

\* Across replicas an agent has at most one delivery under way: two claims
\* whose first statements overlapped never both commit (ClaimPending's
\* advisory lock and recheck).
LaneExclusion ==
    \A t, u \in Tasks :
        /\ t # u /\ AgentOf[t] = AgentOf[u]
        /\ db[t].disp \in InLane
        => db[u].disp \notin InLane

\* After BeginAttempt a turn is never delivered again: whatever leases
\* expire, callbacks get lost, workers crash or the reconciler requeues, at
\* most one attempt per task and turn crosses the ambiguity boundary.
AtMostOneAttemptPerTurn ==
    \A b, c \in begun : b.task = c.task /\ b.turn = c.turn => b = c

\* `canceled' without an acknowledgment means that the turn's prompt never
\* left: no attempt of the current turn has begun, and none is about to send.
CanceledMeansUndelivered ==
    \A t \in Tasks :
        db[t].state = "canceled" /\ db[t].cancel # "acknowledged" =>
            /\ \A b \in begun : b.task = t => b.turn < db[t].turns
            /\ \A j \in jobs : j.task = t => j.stage # "begun"

\* No task is stranded by rows that disagree, whoever acted on it last.
RowsAgree == \A t \in Tasks : RowAgrees(db[t])

\* A task is announced terminal exactly when it is: no terminal state is
\* reached without its task.terminal event, and none is sent early.
TerminalAnnounced == \A t \in Tasks : Announced(db[t])

\* The inductive strengthening.  An open claim holds a pending row of its
\* own; attempt ids are never reused; a begun attempt belongs to its task's
\* current turn, whose token it is, or to an earlier one, and then its
\* prompt was sent; an attempt about to send has begun and not sent.
ClaimsPending ==
    /\ \A w \in Workers : claiming[w] # NoTask => db[claiming[w]].disp = "pending"
    /\ \A v, w \in Workers :
         v # w /\ claiming[v] = claiming[w] => claiming[w] = NoTask

AttemptsFresh ==
    /\ \A j \in jobs : 1 <= j.attempt /\ j.attempt <= issued
    /\ \A b \in begun : 1 <= b.attempt /\ b.attempt <= issued
    /\ \A j, k \in jobs : j.attempt = k.attempt => j = k
    /\ \A b, c \in begun : b.attempt = c.attempt => b = c
    /\ \A j \in jobs, b \in begun :
         j.attempt = b.attempt => j.stage \notin {"claimed", "queued"}

BegunInTurn ==
    \A b \in begun :
        LET r == db[b.task]
        IN  /\ r.state # "absent"
            /\ r.state \in Present =>
                 /\ b.turn <= r.turns
                 /\ b.turn = r.turns => r.token = b.attempt /\ r.state \notin Waiting
                 /\ b.turn < r.turns => b.attempt \in sent

SentWasBegun ==
    /\ \A a \in sent : \E b \in begun : b.attempt = a
    /\ \A j \in jobs : j.stage = "begun" =>
         /\ j.attempt \notin sent
         /\ \E b \in begun : b.task = j.task /\ b.attempt = j.attempt

Inv ==
    /\ TypeOK /\ RowsAgree /\ TerminalAnnounced /\ LaneExclusion
    /\ ClaimsPending /\ AttemptsFresh /\ BegunInTurn /\ SentWasBegun
    /\ AtMostOneAttemptPerTurn /\ CanceledMeansUndelivered

\* The detailed protocol keeps the promise of TaskLifecycle: leases, retries,
\* crashes and stale attempts never take a task along a move the API does
\* not have, and no turn is exposed twice.
Lifecycle ==
    INSTANCE TaskLifecycle WITH
        phase   <- [t \in Tasks |-> db[t].state],
        exposed <- [t \in Tasks |-> db[t].token # 0]

ImplementsLifecycle == Lifecycle!Spec

-----------------------------------------------------------------------------
(* Liveness. *)

\* Whatever crashes and whoever stops calling, every outstanding task ends.
EveryTaskEnds ==
    \A t \in Tasks :
        db[t].state \in Outstanding ~> db[t].state \in Terminal \cup {"deleted"}

\* No delivery occupies its agent's lane forever: not one whose worker died,
\* whose task was canceled, or that a stale completion overtook.
LaneFreed ==
    \A t \in Tasks : db[t].disp \in InLane ~> db[t].disp \notin InLane

-----------------------------------------------------------------------------
(* What the design documents say of the event feed, stale attempts, order   *)
(* and continuations, where the code does otherwise.                        *)

\* "There is no state-without-event or event-without-state outcome": the
\* newest event that names a state names the state the task is in.
EventsFollowState ==
    \A t \in Tasks : db[t].state \in Present => db[t].said = db[t].state

\* A task ends once, so its feed holds at most one task.terminal event.
OneTerminalEvent == \A t \in Tasks : db[t].terminals <= 1

\* Only the current attempt completes a task: a fresh token per turn "keeps
\* stale pods and earlier turns from ... completing the resumed task".
CompletedByCurrentAttempt ==
    [][\A t \in Tasks :
         db[t].state # "completed" /\ db'[t].state = "completed" =>
            \E c \in calls \ calls' : c.task = t /\ c.attempt = db[t].token]_vars

\* The attempt that consumes an answered interaction carries the answer: its
\* envelope was rendered in the turn it is delivered in.
ContinuationCarriesAnswer == \A b \in begun : b.carried = b.turn
=============================================================================
