---------------------------- MODULE TaskObjects ----------------------------
(***************************************************************************)
(* File results of one durable task: the upload handler of                 *)
(* pkg/api/internal_tasks.go, the agent_task_objects rows and their        *)
(* transactions in pkg/taskstore, the object storage behind                *)
(* pkg/taskobject, and the cleanup passes the control-plane replicas run   *)
(* after each reconciliation (cmd/control-plane/main.go).                  *)
(*                                                                         *)
(* Every upload writes an object of its own, under a random key, so an     *)
(* upload also names its object.  ResultOf[u] is the result id its caller  *)
(* chose: a retried or competing upload has the result id of another.      *)
(***************************************************************************)
EXTENDS FiniteSets, Naturals

CONSTANTS
    Uploads, Results, ResultOf,
    None,
    Replicas,      \* each runs at most one cleanup pass at a time
    MaxFiles,      \* MaxTaskFileBytes, every file having size 1
    MaxAttempts    \* bound: attempts the task goes through

ASSUME UploadsAssumption ==
    /\ ResultOf \in [Uploads -> Results]
    /\ None \notin Uploads \cup Replicas
    /\ IsFiniteSet(Uploads)
    /\ MaxFiles \in Nat /\ MaxAttempts \in Nat

VARIABLES
    task,     \* [phase, attempt]: the task row, as far as it matters here
    obj,      \* obj[u]: the agent_task_objects row of upload u
    result,   \* result[r]: the object of r's file part, or why there is none
    bytes,    \* the objects present in object storage
    up,       \* up[u]: the upload handler
    txn,      \* the upload whose PublishResult commit is in doubt, or None
    pass      \* pass[p]: the object replica p's cleanup pass is at

vars == <<task, obj, result, bytes, up, txn, pass>>

NoRow == [status |-> "none", lease |-> "none", holder |-> None, backoff |-> "ready"]

TypeOK ==
    /\ task \in [phase: {"running", "ended", "retired", "gone"},
                 attempt: 1..MaxAttempts + 1]
    /\ obj \in [Uploads -> [status: {"none", "pending", "ready", "deleting"},
                            lease: {"none", "live", "expired"},
                            holder: Replicas \cup {None},
                            backoff: {"ready", "waiting"}]]
    /\ result \in [Results -> Uploads \cup {None}]
    /\ bytes \subseteq Uploads
    /\ up \in [Uploads -> [stage: {"idle", "checked", "prepared", "stored",
                                   "unstored", "unsure", "unwanted", "over"},
                           attempt: 0..MaxAttempts + 1]]
    /\ txn \in Uploads \cup {None}
    /\ pass \in [Replicas -> [at: Uploads \cup {None}, stage: {"claimed", "erased"}]]

Init ==
    /\ task = [phase |-> "running", attempt |-> 1]
    /\ obj = [u \in Uploads |-> NoRow]
    /\ result = [r \in Results |-> None]
    /\ bytes = {}
    /\ up = [u \in Uploads |-> [stage |-> "idle", attempt |-> 0]]
    /\ txn = None
    /\ pass = [p \in Replicas |-> [at |-> None, stage |-> "claimed"]]

-----------------------------------------------------------------------------
(* Helpers. *)

Goto(u, s) == up' = [up EXCEPT ![u].stage = s]

\* The open transaction holds the task row (FOR UPDATE OF t).
TaskUnlocked == txn = None

Current(u) == task.phase # "gone" /\ up[u].attempt = task.attempt

Kept == {u \in Uploads : obj[u].status \in {"pending", "ready"}}
Ready == {u \in Uploads : obj[u].status = "ready"}

\* Faulty variant of MarkDeleting: the row is removed at once.
MarkDeletingDrops(row) == NoRow

MarkDeleting(row) ==
    [row EXCEPT !.status = "deleting", !.lease = "none", !.holder = None,
                !.backoff = "ready"]

-----------------------------------------------------------------------------
(* handleTaskFile. *)

\* requireCurrentTaskAttempt, then the metadata and the media type.
UploadStarts(u) ==
    /\ up[u].stage = "idle" /\ task.phase = "running"
    /\ up' = [up EXCEPT ![u] = [stage |-> "checked", attempt |-> task.attempt]]
    /\ UNCHANGED <<task, obj, result, bytes, txn, pass>>

\* PrepareFileUpload: the row exists before any byte is sent.
PrepareFileUpload(u) ==
    /\ up[u].stage = "checked" /\ TaskUnlocked
    /\ Current(u) /\ task.phase = "running"
    /\ Cardinality(Kept) < MaxFiles
    /\ obj' = [obj EXCEPT ![u].status = "pending", ![u].lease = "live"]
    /\ Goto(u, "prepared")
    /\ UNCHANGED <<task, result, bytes, txn, pass>>

\* ObjectStore.Put: an error does not say whether the object was written.
PutObject(u) ==
    /\ up[u].stage = "prepared"
    /\ bytes' = bytes \cup {u}
    /\ Goto(u, "stored") \/ Goto(u, "unstored")
    /\ UNCHANGED <<task, obj, result, txn, pass>>

PutNothing(u) ==
    /\ up[u].stage = "prepared"
    /\ Goto(u, "unstored")
    /\ UNCHANGED <<task, obj, result, bytes, txn, pass>>

\* Faulty variant of PublishOK: an existing result is not looked for.
PublishOKAgain(u) ==
    /\ Current(u) /\ task.phase = "running"
    /\ Cardinality(Ready) < MaxFiles
    /\ obj[u].status = "pending"

\* What PublishResult's transaction asks for, and what it writes.
PublishOK(u) ==
    /\ Current(u) /\ task.phase = "running"
    /\ result[ResultOf[u]] = None
    /\ Cardinality(Ready) < MaxFiles
    /\ obj[u].status = "pending"
Published(u) ==
    /\ obj' = [obj EXCEPT ![u].status = "ready", ![u].lease = "none"]
    /\ result' = [result EXCEPT ![ResultOf[u]] = u]

PublishResult(u) ==
    /\ up[u].stage = "stored" /\ TaskUnlocked /\ PublishOK(u)
    /\ Published(u)
    /\ Goto(u, "over")
    /\ UNCHANGED <<task, bytes, txn, pass>>

\* Commit was sent and its answer lost: the transaction keeps its locks
\* until the server ends it, one way or the other.
PublishInDoubt(u) ==
    /\ up[u].stage = "stored" /\ TaskUnlocked /\ PublishOK(u)
    /\ txn' = u
    /\ Goto(u, "unsure")
    /\ UNCHANGED <<task, obj, result, bytes, pass>>
CommitLate ==
    /\ txn # None
    /\ Published(txn)
    /\ txn' = None
    /\ UNCHANGED <<task, bytes, up, pass>>
RollbackLate ==
    /\ txn # None
    /\ txn' = None
    /\ UNCHANGED <<task, obj, result, bytes, up, pass>>

\* The result exists with the same digest (an idempotent replay, whose new
\* object is unwanted), or PublishResult returned an error: a stale attempt,
\* a limit, a task that is not dispatched, a failed statement.
PublishRefused(u) ==
    /\ up[u].stage = "stored" /\ TaskUnlocked
    /\ \/ Current(u) /\ result[ResultOf[u]] # None /\ Goto(u, "unwanted")
       \/ Goto(u, "unsure")
    /\ UNCHANGED <<task, obj, result, bytes, txn, pass>>

\* The read-back before abandoning; when Get fails nothing is abandoned.
ReadBack(u) ==
    /\ up[u].stage = "unsure"
    /\ \/ task.phase # "gone" /\ result[ResultOf[u]] # u /\ Goto(u, "unwanted")
       \/ Goto(u, "over")
    /\ UNCHANGED <<task, obj, result, bytes, txn, pass>>

\* Faulty variant of AbandonOK: the UPDATE does not ask for the status.
AbandonOKReady(u) == obj[u].status \in {"pending", "ready"}

\* AbandonFileUpload asks for a pending row, and waits for its lock.
AbandonOK(u) == obj[u].status = "pending"
AbandonFileUpload(u) ==
    /\ up[u].stage \in {"unstored", "unwanted"}
    /\ txn # u
    /\ obj' = IF AbandonOK(u) THEN [obj EXCEPT ![u] = MarkDeleting(@)] ELSE obj
    /\ Goto(u, "over")
    /\ UNCHANGED <<task, result, bytes, txn, pass>>

\* A refused Prepare, a failed store call, or the process dies.
UploadStops(u) ==
    /\ up[u].stage \notin {"idle", "over"}
    /\ Goto(u, "over")
    /\ UNCHANGED <<task, obj, result, bytes, txn, pass>>

-----------------------------------------------------------------------------
(* The task, from outside. *)

NewAttempt ==
    /\ task.phase = "running" /\ TaskUnlocked /\ task.attempt <= MaxAttempts
    /\ task' = [task EXCEPT !.attempt = @ + 1]
    /\ UNCHANGED <<obj, result, bytes, up, txn, pass>>
TaskEnds ==
    /\ task.phase = "running" /\ TaskUnlocked
    /\ task' = [task EXCEPT !.phase = "ended"]
    /\ UNCHANGED <<obj, result, bytes, up, txn, pass>>
RetentionPasses ==
    /\ task.phase = "ended"
    /\ task' = [task EXCEPT !.phase = "retired"]
    /\ UNCHANGED <<obj, result, bytes, up, txn, pass>>

-----------------------------------------------------------------------------
(* Reconcile, the statements about objects, on the rows LIMIT and SKIP      *)
(* LOCKED leave it; then the retained task without objects.                 *)

\* Faulty variants of Reclaimable, which forgets the tasks that have ended,
\* and of Expired, which asks for the wrong status.
ReclaimableRunning(u) ==
    /\ obj[u].status = "pending" /\ obj[u].lease = "expired" /\ txn # u
    /\ task.phase = "running"
ExpiredPending(u) == obj[u].status = "pending" /\ task.phase = "retired"

Reclaimable(u) == obj[u].status = "pending" /\ obj[u].lease = "expired" /\ txn # u
Expired(u)     == obj[u].status = "ready" /\ task.phase = "retired"
Deletable      == task.phase = "retired" /\ TaskUnlocked
                  /\ \A u \in Uploads : obj[u].status = "none"

Reconcile(batch) ==
    /\ obj' = [u \in Uploads |->
                 IF u \notin batch THEN obj[u]
                 ELSE IF Reclaimable(u) THEN MarkDeleting(obj[u])
                 ELSE IF Expired(u) THEN [obj[u] EXCEPT !.status = "deleting"]
                 ELSE obj[u]]
    /\ task' = IF Deletable THEN [task EXCEPT !.phase = "gone"] ELSE task
    /\ result' = IF Deletable THEN [r \in Results |-> None] ELSE result
    /\ <<obj, task>>' # <<obj, task>>
    /\ UNCHANGED <<bytes, up, txn, pass>>

-----------------------------------------------------------------------------
(* cleanupTaskObjects. *)

\* ClaimObjectDeletions under an owner name of this pass alone.
ClaimDeletion(p, u) ==
    /\ pass[p].at = None
    /\ obj[u].status = "deleting" /\ obj[u].backoff = "ready"
    /\ obj[u].lease \in {"none", "expired"}
    /\ obj' = [obj EXCEPT ![u].holder = p, ![u].lease = "live"]
    /\ pass' = [pass EXCEPT ![p] = [at |-> u, stage |-> "claimed"]]
    /\ UNCHANGED <<task, result, bytes, up, txn>>

\* ObjectStore.Delete; a missing object is no error.
EraseBytes(p) ==
    /\ pass[p].at # None /\ pass[p].stage = "claimed"
    /\ bytes' = bytes \ {pass[p].at}
    /\ pass' = [pass EXCEPT ![p].stage = "erased"]
    /\ UNCHANGED <<task, obj, result, up, txn>>

\* Delete failed: RetryObjectDeletion, if the lease is still this pass's.
EraseFails(p) ==
    LET u == pass[p].at
    IN  /\ u # None /\ pass[p].stage = "claimed"
        /\ obj' = IF obj[u].status = "deleting" /\ obj[u].holder = p
                  THEN [obj EXCEPT ![u].holder = None, ![u].lease = "none",
                                   ![u].backoff = "waiting"]
                  ELSE obj
        /\ pass' = [pass EXCEPT ![p].at = None]
        /\ UNCHANGED <<task, result, bytes, up, txn>>

\* DeleteObjectRecord, under a live lease; the foreign key clears the part.
HoldsObject(p) ==
    LET u == pass[p].at
    IN  /\ u # None /\ obj[u].status = "deleting"
        /\ obj[u].holder = p /\ obj[u].lease = "live"
DeleteObjectRecord(p) ==
    LET u == pass[p].at
    IN  /\ u # None /\ pass[p].stage = "erased"
        /\ obj' = IF HoldsObject(p) THEN [obj EXCEPT ![u] = NoRow] ELSE obj
        /\ result' = IF HoldsObject(p)
                     THEN [r \in Results |-> IF result[r] = u THEN None ELSE result[r]]
                     ELSE result
        /\ pass' = [pass EXCEPT ![p].at = None]
        /\ UNCHANGED <<task, bytes, up, txn>>

PassDies(p) ==
    /\ pass[p].at # None
    /\ pass' = [pass EXCEPT ![p].at = None]
    /\ UNCHANGED <<task, obj, result, bytes, up, txn>>

-----------------------------------------------------------------------------
(* Time.  The internal server cuts an upload off after two minutes, so its  *)
(* thirty-minute lease outlives the Put.                                    *)

LeaseExpires(u) ==
    /\ obj[u].lease = "live"
    /\ obj[u].status = "pending" => up[u].stage # "prepared"
    /\ obj' = [obj EXCEPT ![u].lease = "expired"]
    /\ UNCHANGED <<task, result, bytes, up, txn, pass>>

BackoffEnds(u) ==
    /\ obj[u].backoff = "waiting"
    /\ obj' = [obj EXCEPT ![u].backoff = "ready"]
    /\ UNCHANGED <<task, result, bytes, up, txn, pass>>

-----------------------------------------------------------------------------
(* The specification. *)

Upload(u) ==
    \/ UploadStarts(u) \/ PrepareFileUpload(u) \/ PutObject(u) \/ PutNothing(u)
    \/ PublishResult(u) \/ PublishInDoubt(u) \/ PublishRefused(u)
    \/ ReadBack(u) \/ AbandonFileUpload(u) \/ UploadStops(u)

PassStep(p) == EraseBytes(p) \/ EraseFails(p) \/ DeleteObjectRecord(p)

Cleanup(p) ==
    (\E u \in Uploads : ClaimDeletion(p, u)) \/ PassStep(p) \/ PassDies(p)

Next ==
    \/ \E u \in Uploads : Upload(u) \/ LeaseExpires(u) \/ BackoffEnds(u)
    \/ CommitLate \/ RollbackLate
    \/ NewAttempt \/ TaskEnds \/ RetentionPasses
    \/ \E batch \in SUBSET Uploads : Reconcile(batch)
    \/ \E p \in Replicas : Cleanup(p)

Spec == Init /\ [][Next]_vars

\* Clocks advance, the ticker runs, an in-doubt transaction is ended, a
\* handler or a pass does not hang, object storage is not down for ever, and
\* a cleanup pass again and again finishes within its two-minute lease.
FairSpec ==
    /\ Spec
    /\ \A u \in Uploads :
         /\ WF_vars(LeaseExpires(u)) /\ WF_vars(BackoffEnds(u))
         /\ WF_vars(UploadStops(u))
         /\ WF_vars(Reconcile({u}))
    /\ WF_vars(CommitLate \/ RollbackLate)
    /\ \A p \in Replicas :
         /\ \A u \in Uploads : SF_vars(ClaimDeletion(p, u))
         /\ SF_vars(HoldsObject(p) /\ EraseBytes(p)) /\ WF_vars(PassStep(p))
         /\ SF_vars(HoldsObject(p) /\ DeleteObjectRecord(p))

-----------------------------------------------------------------------------
(* Properties. *)

\* "A referenced object is never deleted": until the task's retention ends,
\* a published file part has its row and its bytes, however uploads retry,
\* commits get lost, and sweeps and cleanup passes interleave.
ReferencedObjectKept ==
    task.phase \in {"running", "ended"} =>
        \A r \in Results : result[r] # None =>
            result[r] \in bytes /\ obj[result[r]].status = "ready"

\* "A crashed upload is ... discoverable": bytes never outlive the row that
\* lets a cleanup pass find them.
NoOrphanBytes == \A u \in bytes : obj[u].status # "none"

\* Nothing ready is unreachable: of competing uploads of one result exactly
\* the published one keeps a ready object, so the byte limit counts no
\* object that a result does not show.
ReadyIsReferenced ==
    task.phase # "gone" => \A u \in Ready : result[ResultOf[u]] = u

\* Every upload that did not become a result is reclaimed, row and bytes.
UploadReclaimed ==
    \A u \in Uploads :
        (up[u].stage = "over" /\ obj[u].status # "ready") ~>
            (obj[u].status = "ready" \/ (obj[u].status = "none" /\ u \notin bytes))

\* A task past its retention is deleted with all its objects.
RetiredTaskDeleted ==
    task.phase = "retired" ~> (task.phase = "gone" /\ bytes = {})
=============================================================================
