------------------------------ MODULE TaskRows ------------------------------
(***************************************************************************)
(* The PostgreSQL rows of one durable task and what each operation of      *)
(* pkg/taskstore/postgres*.go does to them.                                *)
(*                                                                         *)
(* A row record joins the tables that hold exactly one row per task        *)
(* (agent_tasks, agent_task_dispatches, agent_task_cancel_deliveries), the *)
(* newest row of agent_task_interactions with its authorization flow, and  *)
(* a digest of agent_task_events: the state the newest state-bearing event *)
(* names and the number of task.terminal events.  Every operation locks    *)
(* the rows it changes, so it is a guard (name ending in OK) and a         *)
(* function from row to row; the transactions themselves are actions of    *)
(* TaskDispatch.                                                           *)
(*                                                                         *)
(* Timestamps are abstracted to which side of the clock they are on: a     *)
(* lease is "live" or "expired", a backoff "ready" or "waiting", an        *)
(* interaction or cancel deadline "ahead" or "past", and the task is       *)
(* before its deadline ("live"), past it ("past") or past its retention    *)
(* too ("retired").  Attempt ids are numbers, 0 being the empty string.    *)
(***************************************************************************)
EXTENDS Naturals

CONSTANTS
    Workers,              \* lease owners: the host names of control-plane pods
    NoOwner,              \* lease_owner IS NULL
    MaxDispatchAttempts,  \* Limits.MaxDispatchAttempts
    MaxInteractions,      \* Limits.MaxInteractions
    MaxProgressUpdates    \* Limits.MaxProgressUpdates

ASSUME OwnerAssumption == NoOwner \notin Workers
ASSUME LimitsAssumption ==
    /\ MaxDispatchAttempts \in Nat \ {0}
    /\ MaxInteractions \in Nat
    /\ MaxProgressUpdates \in Nat

-----------------------------------------------------------------------------
(* Vocabulary. *)

Waiting     == {"input_required", "auth_required"}
Terminal    == {"canceled", "completed", "failed", "rejected"}
Outstanding == {"queued", "dispatched", "canceling"} \cup Waiting
Present     == Outstanding \cup Terminal
States      == Present \cup {"absent", "deleted"}

\* Dispatch statuses that occupy the agent's delivery lane.
InLane    == {"leased", "attempting", "receipt_pending"}
\* Dispatch statuses past the ambiguity boundary, before a receipt.
Ambiguous == {"attempting", "receipt_pending"}
Statuses  == {"none", "pending", "delivered", "closed"} \cup InLane

FailureCodes ==
    {"none", "agent_unavailable", "delivery_unknown", "deadline_exceeded",
     "input_timeout", "auth_timeout", "cancel_unconfirmed"}

Owners       == Workers \cup {NoOwner}
Leases       == {"none", "live", "expired"}
Backoffs     == {"ready", "waiting"}
Clocks       == {"ahead", "past"}
Dues         == {"live", "past", "retired"}
Interactions == {"none", "paused", "answered", "consumed", "expired"}
Flows        == {"none", "pending", "completed"}
Cancels      == {"none", "pending", "notified", "acknowledged", "closed"}

Row ==
    [state: States, version: Nat, born: Nat, due: Dues, failure: FailureCodes,
     disp: Statuses, owner: Owners, lease: Leases, backoff: Backoffs,
     attempts: Nat, token: Nat, receipt: Nat,
     inter: Interactions, interClock: Clocks, flow: Flows,
     turns: Nat, progress: Nat,
     cancel: Cancels, cancelAttempt: Nat, cancelClock: Clocks,
     said: States, terminals: Nat]

\* No row: before Create, and (with state "deleted") after retention.
AbsentRow ==
    [state |-> "absent", version |-> 0, born |-> 0, due |-> "live",
     failure |-> "none",
     disp |-> "none", owner |-> NoOwner, lease |-> "none",
     backoff |-> "ready", attempts |-> 0, token |-> 0, receipt |-> 0,
     inter |-> "none", interClock |-> "ahead", flow |-> "none",
     turns |-> 0, progress |-> 0,
     cancel |-> "none", cancelAttempt |-> 0, cancelClock |-> "ahead",
     said |-> "absent", terminals |-> 0]

\* appendTaskEventTx: the event names state s; a task.terminal event.
Event(r, s) == [r EXCEPT !.said = s]
TerminalEvent(r, s) == [r EXCEPT !.said = s, !.terminals = @ + 1]

\* The UPDATE agent_tasks every transition runs: new state, version + 1.
SetState(r, s) == [r EXCEPT !.state = s, !.version = @ + 1]
FailTask(r, code) == [SetState(r, "failed") EXCEPT !.failure = code]

\* The UPDATE agent_task_dispatches that closes the dispatch intent.
CloseDispatch(r) ==
    [r EXCEPT !.disp = "closed", !.owner = NoOwner, !.lease = "none"]

-----------------------------------------------------------------------------
(* When the rows of a task agree. *)

\* Queued work has an open dispatch intent, a running or waiting task a
\* receipt for its current token, a canceling one a control record naming
\* that token, and a finished one holds neither lane nor lease, but for a
\* completion that a later attempt was under way to.
StateAgrees(r) ==
    /\ r.state \in {"absent", "deleted"} <=> r.disp = "none"
    /\ r.state = "queued" => r.disp \in {"pending"} \cup InLane
    /\ r.state \in {"dispatched"} \cup Waiting => r.disp = "delivered"
    /\ r.state = "canceling" =>
         /\ r.disp \in {"delivered", "closed"} \cup Ambiguous
         /\ r.cancelAttempt = r.token
         /\ r.cancel \in {"pending", "notified"}
    /\ r.state \in Terminal =>
         /\ r.disp = "closed" \/ r.state = "completed"
         /\ r.disp \notin {"pending", "leased"}

\* A token exists from BeginAttempt on, a receipt only for that token.
TokenAgrees(r) ==
    /\ r.disp \in {"none", "pending", "leased"} => r.token = 0
    /\ r.disp \in {"delivered"} \cup Ambiguous => r.token # 0
    /\ r.disp = "delivered" => r.receipt = r.token
    /\ r.state = "canceling" => r.token # 0

LeaseAgrees(r) ==
    /\ r.disp \in InLane <=> r.lease # "none"
    /\ r.lease # "none" <=> r.owner # NoOwner

InteractionAgrees(r) ==
    /\ r.inter = "paused" => r.state \in Waiting \cup {"canceled", "failed"}
    /\ r.state \in Waiting => r.inter = "paused"

\* A row is announced terminal exactly when it is.
Announced(r) == r.state \in Terminal <=> r.terminals > 0

RowAgrees(r) ==
    StateAgrees(r) /\ TokenAgrees(r) /\ LeaseAgrees(r) /\ InteractionAgrees(r)

-----------------------------------------------------------------------------
(* Creating and claiming. *)

\* Create: the b-th task created is queued with a pending dispatch row.
CreateRow(b) ==
    Event([AbsentRow EXCEPT !.state = "queued", !.version = 1, !.born = b,
                            !.disp = "pending"], "queued")

\* The WHERE clause of ClaimPending, but for what it asks of the lane.
Claimable(r) ==
    /\ r.disp = "pending"
    /\ r.state = "queued"
    /\ r.attempts < MaxDispatchAttempts
    /\ r.backoff = "ready"
    /\ r.due = "live"

ClaimRow(r, w) ==
    [r EXCEPT !.disp = "leased", !.owner = w, !.lease = "live",
              !.attempts = @ + 1]

HoldsLease(r, w) == r.disp = "leased" /\ r.owner = w

\* ReleaseLease, on a leased row its owner holds.
ReleaseRow(r) ==
    [r EXCEPT !.disp = "pending", !.owner = NoOwner, !.lease = "none",
              !.backoff = "waiting"]

\* RenewLease: no check that the lease has not expired in the meantime.
RenewRow(r) == [r EXCEPT !.lease = "live"]

-----------------------------------------------------------------------------
(* The delivery attempt. *)

\* BeginAttempt commits the ambiguity boundary and consumes the answer.
BeginOK(r, w) == HoldsLease(r, w) /\ r.lease = "live"
BeginRow(r, a) ==
    [r EXCEPT !.disp = "attempting", !.token = a,
              !.inter = IF @ = "answered" THEN "consumed" ELSE @]

MarkReceiptOK(r, w, a) == r.disp = "attempting" /\ r.owner = w /\ r.token = a
MarkReceiptRow(r) == [r EXCEPT !.disp = "receipt_pending"]

FailDeliveryOK(r, w, v) ==
    /\ r.state = "queued"
    /\ r.version = v
    /\ r.owner = w
    /\ r.disp \in InLane
FailDeliveryRow(r, code) ==
    TerminalEvent(CloseDispatch(FailTask(r, code)), "failed")

\* AcceptReceipt: the state moves only from queued, the event is always
\* "queued -> dispatched".
ReceiptOK(r, a) == r.token = a /\ r.receipt = 0 /\ r.disp \in Ambiguous
ReceiptRow(r) ==
    LET delivered == [r EXCEPT !.disp = "delivered", !.receipt = r.token,
                               !.owner = NoOwner, !.lease = "none"]
        moved     == IF r.state = "queued"
                     THEN SetState(delivered, "dispatched")
                     ELSE delivered
    IN  Event(moved, "dispatched")

-----------------------------------------------------------------------------
(* What the running attempt reports. *)

\* ReportProgress; PublishResult asks for the same attempt and state and
\* does the same to the task row, its other effects are TaskObjects'.
ProgressOK(r, a) ==
    /\ r.token = a
    /\ r.state = "dispatched"
    /\ r.progress < MaxProgressUpdates
ProgressRow(r) == [r EXCEPT !.progress = @ + 1, !.version = @ + 1]

\* Complete asks for the version it was given, not for the attempt; the
\* dispatch row keeps its status.
CompleteOK(r, v) == r.version = v /\ r.state \in {"dispatched", "canceling"}
CompleteRow(r) == TerminalEvent(SetState(r, "completed"), "completed")

RejectOK(r, a) == r.state = "dispatched" /\ r.token = a /\ r.disp = "delivered"
RejectRow(r) ==
    TerminalEvent([SetState(r, "rejected") EXCEPT !.disp = "closed"], "rejected")

-----------------------------------------------------------------------------
(* Interactions. *)

\* RequestInteraction; the message limit, which grows with the turns too, is
\* part of MaxInteractions, the last conjunct is the unique index
\* agent_task_one_live_interaction_idx.
RequestOK(r, a) ==
    /\ r.state = "dispatched"
    /\ r.token = a
    /\ r.disp = "delivered"
    /\ r.turns < MaxInteractions
    /\ r.inter \notin {"paused", "answered"}

\* The expiry is capped by the task deadline, which may be past already.
RequestRow(r, s) ==
    Event([SetState(r, s) EXCEPT
             !.inter = "paused", !.turns = @ + 1,
             !.interClock = IF r.due = "live" THEN "ahead" ELSE "past",
             !.flow = IF s = "auth_required" THEN "pending" ELSE "none"], s)

\* CompleteAuthorizationFlow.
FlowOK(r) == r.flow = "pending" /\ r.interClock = "ahead"
FlowRow(r) == [r EXCEPT !.flow = "completed"]

TimeoutCode(r) == IF r.flow = "none" THEN "input_timeout" ELSE "auth_timeout"

\* RespondInteraction, too late: only the task row's UPDATE asks for a
\* waiting task; the dispatch UPDATE and the terminal event ask nothing.
RespondLateOK(r) == r.inter = "paused" /\ r.interClock = "past"
RespondLateRow(r) ==
    LET expired == [r EXCEPT !.inter = "expired", !.disp = "closed"]
        failed  == IF r.state \in Waiting
                   THEN FailTask(expired, TimeoutCode(r))
                   ELSE expired
    IN  TerminalEvent(failed, "failed")

\* RespondInteraction, in time: a fresh attempt is queued.
RespondOK(r) ==
    /\ r.inter = "paused"
    /\ r.interClock = "ahead"
    /\ r.flow \in {"none", "completed"}
    /\ r.state \in Waiting
    /\ r.disp = "delivered"
\* Faulty variant of RespondRow: the new turn keeps the old attempt's token.
RespondRowKeepsToken(r) ==
    Event([SetState(r, "queued") EXCEPT
             !.inter = "answered", !.disp = "pending", !.attempts = 0,
             !.backoff = "ready", !.receipt = 0], "queued")

RespondRow(r) ==
    Event([SetState(r, "queued") EXCEPT
             !.inter = "answered", !.disp = "pending", !.attempts = 0,
             !.backoff = "ready", !.token = 0, !.receipt = 0,
             !.owner = NoOwner, !.lease = "none"], "queued")

-----------------------------------------------------------------------------
(* Cooperative cancellation. *)

\* Faulty variant of CancelAmbiguous: an attempt that has only begun is
\* taken for one that cannot have been delivered.
CancelAmbiguousLate(r) ==
    \/ r.state = "dispatched"
    \/ r.disp = "receipt_pending"
    \/ r.disp = "delivered" /\ r.state \notin Waiting

\* Whether the prompt may have reached the agent in the current turn.
CancelAmbiguous(r) ==
    \/ r.state = "dispatched"
    \/ r.disp \in Ambiguous
    \/ r.disp = "delivered" /\ r.state \notin Waiting

CancelOK(r) ==
    /\ r.state \in Outstanding \ {"canceling"}
    /\ CancelAmbiguous(r) => r.token # 0

\* Faulty variant of CancelRow: a withdrawn task's dispatch stays open.
CancelRowOpen(r) ==
    LET clock == IF r.due = "live" THEN "ahead" ELSE "past"
    IN  IF CancelAmbiguous(r)
        THEN Event([SetState(r, "canceling") EXCEPT
                      !.cancel = "pending", !.cancelAttempt = r.token,
                      !.cancelClock = clock], "canceling")
        ELSE TerminalEvent([SetState(r, "canceled") EXCEPT
                      !.cancelClock = clock], "canceled")

\* The cancel deadline is capped by the task deadline.
CancelRow(r) ==
    LET clock == IF r.due = "live" THEN "ahead" ELSE "past"
    IN  IF CancelAmbiguous(r)
        THEN Event([SetState(r, "canceling") EXCEPT
                      !.cancel = "pending", !.cancelAttempt = r.token,
                      !.cancelClock = clock], "canceling")
        ELSE TerminalEvent(CloseDispatch([SetState(r, "canceled") EXCEPT
                      !.cancelClock = clock]), "canceled")

\* GetControl marks the delivery notified for the exact attempt.
ControlOK(r, a) ==
    /\ r.token = a
    /\ r.state = "canceling"
    /\ r.cancelAttempt = a
    /\ r.cancel \in {"pending", "notified"}
ControlRow(r) == [r EXCEPT !.cancel = "notified"]

AckOK(r, a) ==
    /\ r.cancel \notin {"none", "acknowledged"}
    /\ r.cancelAttempt = a
    /\ r.state = "canceling"
AckRow(r) ==
    TerminalEvent(CloseDispatch([SetState(r, "canceled") EXCEPT
                    !.cancel = "acknowledged"]), "canceled")

-----------------------------------------------------------------------------
(* Reconcile: the seven statements that touch a task, in their order. *)

\* Faulty variant of RequeueLease: it takes attempts past the boundary too.
RequeueLeaseAmbiguous(r) ==
    IF r.disp \in InLane /\ r.state = "queued" /\ r.lease = "expired"
    THEN [ReleaseRow(r) EXCEPT !.backoff = "ready"]
    ELSE r

RequeueLease(r) ==
    IF r.disp = "leased" /\ r.state = "queued" /\ r.lease = "expired"
    THEN [ReleaseRow(r) EXCEPT !.backoff = "ready"]
    ELSE r

\* Faulty variants of CloseUnknown: failing without the terminal event, and
\* leaving alone the dispatch of a task that is not queued or dispatched.
CloseUnknownSilent(r) ==
    IF r.disp \in Ambiguous /\ r.lease = "expired"
    THEN IF r.state \in {"queued", "dispatched"}
         THEN CloseDispatch(FailTask(r, "delivery_unknown"))
         ELSE CloseDispatch(r)
    ELSE r
CloseUnknownQueued(r) ==
    IF r.disp \in Ambiguous /\ r.lease = "expired"
         /\ r.state \in {"queued", "dispatched"}
    THEN TerminalEvent(CloseDispatch(FailTask(r, "delivery_unknown")), "failed")
    ELSE r

CloseUnknown(r) ==
    IF r.disp \in Ambiguous /\ r.lease = "expired"
    THEN IF r.state \in {"queued", "dispatched"}
         THEN TerminalEvent(CloseDispatch(FailTask(r, "delivery_unknown")), "failed")
         ELSE CloseDispatch(r)
    ELSE r

ExpireTask(r) ==
    IF r.state \in Outstanding \ {"canceling"} /\ r.due # "live"
    THEN LET code == IF r.state = "input_required" THEN "input_timeout"
                     ELSE IF r.state = "auth_required" THEN "auth_timeout"
                     ELSE "deadline_exceeded"
         IN  TerminalEvent(CloseDispatch(FailTask(r, code)), "failed")
    ELSE r

ExpireInteraction(r) ==
    IF r.inter = "paused" /\ r.interClock = "past" /\ r.state \in Waiting
    THEN TerminalEvent([FailTask(r, TimeoutCode(r)) EXCEPT
                          !.inter = "expired", !.disp = "closed"], "failed")
    ELSE r

\* Faulty variant of ExpireCancel: it waits for the agent to have asked.
ExpireCancelNotified(r) ==
    IF r.state = "canceling" /\ r.cancelClock = "past" /\ r.cancel = "notified"
    THEN TerminalEvent(CloseDispatch([FailTask(r, "cancel_unconfirmed") EXCEPT
                          !.cancel = "closed"]), "failed")
    ELSE r

ExpireCancel(r) ==
    IF r.state = "canceling" /\ r.cancelClock = "past"
    THEN TerminalEvent(CloseDispatch([FailTask(r, "cancel_unconfirmed") EXCEPT
                          !.cancel = "closed"]), "failed")
    ELSE r

CloseCancel(r) ==
    IF r.cancel \in {"pending", "notified"}
         /\ r.state \in {"completed", "failed", "canceled"}
    THEN [r EXCEPT !.cancel = "closed"]
    ELSE r

DeleteRetained(r) ==
    IF r.state \in Terminal /\ r.due = "retired"
    THEN [AbsentRow EXCEPT !.state = "deleted"]
    ELSE r

\* What one run may make of a row.  Each statement has a LIMIT of its own and
\* skips locked rows, so any of them may pass the row by.
ReconcileRows(r) ==
    LET s1 == {r, RequeueLease(r)}
        s2 == s1 \cup {CloseUnknown(x) : x \in s1}
        s3 == s2 \cup {ExpireTask(x) : x \in s2}
        s4 == s3 \cup {ExpireInteraction(x) : x \in s3}
        s5 == s4 \cup {ExpireCancel(x) : x \in s4}
        s6 == s5 \cup {CloseCancel(x) : x \in s5}
    IN  s6 \cup {DeleteRetained(x) : x \in s6}

-----------------------------------------------------------------------------
(* Time. *)

LeaseExpiresRow(r)   == [r EXCEPT !.lease = "expired"]
BackoffEndsRow(r)    == [r EXCEPT !.backoff = "ready"]
InteractionDueRow(r) == [r EXCEPT !.interClock = "past"]
CancelDueRow(r)      == [r EXCEPT !.cancelClock = "past"]
\* Interactions and cancellations never outlive the task deadline.
DeadlineRow(r) ==
    [r EXCEPT !.due = "past", !.interClock = "past", !.cancelClock = "past"]
RetentionRow(r) == [r EXCEPT !.due = "retired"]
=============================================================================
