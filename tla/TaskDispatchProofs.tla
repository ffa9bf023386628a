------------------------- MODULE TaskDispatchProofs -------------------------
(***************************************************************************)
(* The safety of TaskDispatch for every number of tasks, agents, workers   *)
(* and attempts, and that it implements TaskLifecycle.                     *)
(*                                                                         *)
(* Most actions are calm: they write rows by operations that TaskRowProofs *)
(* shows Calm (or delete them), hand out no attempt id and begin or send   *)
(* nothing.  One lemma shows that a calm step preserves Inv, one per       *)
(* remaining action that it does too.                                      *)
(***************************************************************************)
EXTENDS TaskDispatch, TaskRowProofs, FiniteSetTheorems

\* A step keeps the jobs but for stages and dropped ones.
JobsKept ==
    /\ jobs' \subseteq Job
    /\ \A k \in jobs' : \E j \in jobs :
         /\ j.task = k.task /\ j.attempt = k.attempt
         /\ k.stage = "begun" => j.stage = "begun"
         /\ k.stage \in {"claimed", "queued"} => j.stage \in {"claimed", "queued"}
    /\ \A k, l \in jobs' : k.attempt = l.attempt => k = l

\* What a calm step may do to the row of t; a row that an open claim has
\* locked stays pending.
RowKept(t) ==
    /\ Sound(db'[t])
    /\ Move(db[t], db'[t])
    /\ Locked(t) => Held(db[t], db'[t])
    /\ \/ Calm(db[t], db'[t])
       \/ db[t].state \in Present /\ db'[t].state = "deleted"

CalmStep ==
    /\ db' \in [Tasks -> Row]
    /\ \A t \in Tasks : db'[t] = db[t] \/ RowKept(t)
    /\ claiming' \in [Workers -> Tasks \cup {NoTask}]
    /\ \A w \in Workers : claiming'[w] \in {claiming[w], NoTask}
    /\ JobsKept
    /\ calls' \subseteq Call
    /\ UNCHANGED <<issued, begun, sent>>

-----------------------------------------------------------------------------
(* Facts about states. *)

\* Inv makes every row sound.
LEMMA RowsSound ==
    ASSUME Inv, NEW t \in Tasks
    PROVE  db[t] \in Row /\ RowAgrees(db[t]) /\ Announced(db[t])
BY DEF Inv, TypeOK, RowsAgree, TerminalAnnounced

\* A turn that waits, or whose delivery is not past a lease, is unexposed:
\* every attempt begun for the task is an earlier turn's and was sent, and
\* no worker is about to send one.
LEMMA Unexposed ==
    ASSUME Inv, NEW t \in Tasks,
           db[t].state \in Waiting \/ db[t].disp \in {"pending", "leased"}
    PROVE  /\ \A b \in begun : b.task = t => b.turn < db[t].turns /\ b.attempt \in sent
           /\ \A j \in jobs : j.task = t => j.stage # "begun"
<1>1. db[t] \in Row /\ RowAgrees(db[t])
    BY RowsSound
<1>2. db[t].state \in Present /\ db[t].turns \in Nat
    BY <1>1 DEF Row, RowAgrees, StateAgrees, States, Present, Outstanding, Waiting
<1>3. db[t].state \in Waiting \/ db[t].token = 0
    BY <1>1 DEF RowAgrees, TokenAgrees
<1>4. ASSUME NEW b \in begun, b.task = t
      PROVE  b.turn < db[t].turns /\ b.attempt \in sent
    <2>1. b.turn \in Nat /\ b.attempt \in Nat
        BY DEF Inv, TypeOK, Begun
    <2>2. /\ b.turn <= db[t].turns
          /\ b.turn = db[t].turns => db[t].token = b.attempt /\ db[t].state \notin Waiting
          /\ b.turn < db[t].turns => b.attempt \in sent
        BY <1>2, <1>4 DEF Inv, BegunInTurn
    <2>3. b.attempt # 0
        BY <2>1 DEF Inv, AttemptsFresh
    <2>4. b.turn # db[t].turns
        BY <1>3, <2>2, <2>3
    <2>. QED  BY <1>2, <2>1, <2>2, <2>4
<1>5. ASSUME NEW j \in jobs, j.task = t, j.stage = "begun"
      PROVE  FALSE
    BY <1>4, <1>5 DEF Inv, SentWasBegun
<1>. QED  BY <1>4, <1>5

-----------------------------------------------------------------------------
(* Calm steps. *)

\* A calm step preserves the inductive invariant.
LEMMA CalmPreserves ==
    ASSUME Inv, CalmStep
    PROVE  Inv'
<1>1. \A t \in Tasks : db[t] \in Row /\ RowAgrees(db[t]) /\ Announced(db[t])
    BY RowsSound
<1>2. \A t \in Tasks : Sound(db'[t])
    BY <1>1 DEF CalmStep, RowKept, Sound
<1>3. TypeOK'
    BY DEF Inv, TypeOK, CalmStep, JobsKept
<1>4. RowsAgree' /\ TerminalAnnounced'
    BY <1>2 DEF RowsAgree, TerminalAnnounced, Sound
<1>5. LaneExclusion'
    <2>1. ASSUME NEW t \in Tasks, db'[t].disp \in InLane
          PROVE  db[t].disp \in InLane
        <3>1. db'[t].state # "deleted"
            BY <1>2, <2>1 DEF Sound, RowAgrees, StateAgrees, InLane
        <3>. QED  BY <2>1, <3>1 DEF CalmStep, RowKept, Calm
    <2>. QED  BY <2>1 DEF Inv, LaneExclusion
<1>6. ClaimsPending'
    <2>1. ASSUME NEW w \in Workers, claiming'[w] # NoTask
          PROVE  claiming'[w] = claiming[w] /\ db'[claiming[w]].disp = "pending"
        <3>1. claiming'[w] = claiming[w] /\ claiming[w] \in Tasks
            BY <2>1 DEF Inv, TypeOK, CalmStep
        <3>2. db[claiming[w]].disp = "pending"
            BY <2>1, <3>1 DEF Inv, ClaimsPending
        <3>3. Locked(claiming[w])
            BY DEF Locked
        <3>. QED  BY <3>1, <3>2, <3>3 DEF CalmStep, RowKept, Held
    <2>. QED  BY <2>1 DEF Inv, ClaimsPending
<1>7. AttemptsFresh'
    BY DEF Inv, AttemptsFresh, CalmStep, JobsKept
<1>8. BegunInTurn'
    <2>1. ASSUME NEW b \in begun
          PROVE  /\ db'[b.task].state # "absent"
                 /\ db'[b.task].state \in Present =>
                      /\ db[b.task].state \in Present
                      /\ db'[b.task].turns = db[b.task].turns
                      /\ db'[b.task].token = db[b.task].token
                      /\ db'[b.task].state \in Waiting => db[b.task].state \in Waiting
        <3>1. b.task \in Tasks /\ db[b.task].state # "absent"
            BY DEF Inv, TypeOK, Begun, BegunInTurn
        <3>2. "deleted" \notin Present
            BY DEF Present, Outstanding, Terminal, Waiting
        <3>. QED  BY <3>1, <3>2 DEF CalmStep, RowKept, Calm
    <2>. QED  BY <2>1 DEF Inv, BegunInTurn, CalmStep
<1>9. SentWasBegun'
    BY DEF Inv, SentWasBegun, CalmStep, JobsKept
<1>10. AtMostOneAttemptPerTurn'
    BY DEF Inv, AtMostOneAttemptPerTurn, CalmStep
<1>11. CanceledMeansUndelivered'
    <2>1. ASSUME NEW t \in Tasks, db'[t].state = "canceled",
                 db'[t].cancel # "acknowledged"
          PROVE  /\ db'[t].turns = db[t].turns
                 /\ \A b \in begun : b.task = t => b.turn < db[t].turns
                 /\ \A j \in jobs : j.task = t => j.stage # "begun"
        <3>1. CASE db[t].state = "canceled" /\ db[t].cancel # "acknowledged"
            BY <2>1, <3>1 DEF Inv, CanceledMeansUndelivered, CalmStep, RowKept, Calm
        <3>2. CASE ~(db[t].state = "canceled" /\ db[t].cancel # "acknowledged")
            <4>1. Calm(db[t], db'[t])
                BY <2>1, <3>2 DEF CalmStep, RowKept
            <4>2. db[t].state \in Waiting \/ db[t].disp \in {"pending", "leased"}
                BY <2>1, <3>2, <4>1 DEF Calm
            <4>. QED  BY <4>1, <4>2, Unexposed DEF Calm
        <3>. QED  BY <3>1, <3>2
    <2>. QED  BY <2>1 DEF CanceledMeansUndelivered, CalmStep, JobsKept
<1>. QED
    BY <1>3, <1>4, <1>5, <1>6, <1>7, <1>8, <1>9, <1>10, <1>11 DEF Inv

\* Writing one row calmly, or none, is calm as far as rows go.
LEMMA OneRowKept ==
    ASSUME Inv, NEW t \in Tasks, NEW r, Put(t, r), Sound(r), Move(db[t], r),
           Locked(t) => Held(db[t], r), Calm(db[t], r)
    PROVE  db' \in [Tasks -> Row] /\ \A u \in Tasks : db'[u] = db[u] \/ RowKept(u)
BY DEF Inv, TypeOK, Put, Sound, RowKept

\* Jobs left alone are kept.
LEMMA JobsLeft == ASSUME Inv, jobs' = jobs PROVE JobsKept
BY DEF Inv, TypeOK, AttemptsFresh, JobsKept

\* Dropping one keeps the others.
LEMMA JobDropped == ASSUME Inv, NEW j \in jobs, Drop(j) PROVE JobsKept
BY DEF Inv, TypeOK, AttemptsFresh, JobsKept, Drop

\* So does moving one to a stage that is not "begun".
LEMMA JobStaged ==
    ASSUME Inv, NEW j \in jobs,
           \/ Stage(j, "queued") /\ j.stage = "claimed"
           \/ Stage(j, "refused") \/ Stage(j, "sent") \/ Stage(j, "unsent")
    PROVE  JobsKept
<1>1. PICK s \in {"queued", "refused", "sent", "unsent"} :
          Stage(j, s) /\ (s = "queued" => j.stage = "claimed")
    OBVIOUS
<1>. DEFINE i == [j EXCEPT !.stage = s]
<1>2. j \in Job
    BY DEF Inv, TypeOK
<1>3. i \in Job /\ i.task = j.task /\ i.attempt = j.attempt /\ i.stage = s
    BY <1>2 DEF Job
<1>. HIDE DEF i
<1>4. jobs' = (jobs \ {j}) \cup {i}
    BY <1>1 DEF Stage, i
<1>. QED
    BY <1>1, <1>3, <1>4 DEF Inv, TypeOK, AttemptsFresh, JobsKept

\* An action that only writes one row calmly is calm.
LEMMA OneRowCalm ==
    ASSUME Inv, NEW t \in Tasks, NEW r, Put(t, r), Sound(r), Move(db[t], r),
           Locked(t) => Held(db[t], r), Calm(db[t], r),
           UNCHANGED <<claiming, jobs, issued, begun, sent, calls>>
    PROVE  CalmStep
<1>1. JobsKept
    BY JobsLeft
<1>. QED  BY <1>1, OneRowKept DEF CalmStep, Inv, TypeOK

\* So is one that drops or restages a job, and maybe writes one row.
LEMMA JobCalm ==
    ASSUME Inv, JobsKept, UNCHANGED <<claiming, issued, begun, sent, calls>>,
           \/ UNCHANGED db
           \/ \E t \in Tasks : \E r :
                 /\ Put(t, r) /\ Sound(r) /\ Move(db[t], r)
                 /\ Held(db[t], r) /\ Calm(db[t], r)
    PROVE  CalmStep
<1>1. CASE UNCHANGED db
    BY <1>1 DEF CalmStep, Inv, TypeOK
<1>2. CASE ~UNCHANGED db
    <2>1. PICK t \in Tasks : \E r :
              /\ Put(t, r) /\ Sound(r) /\ Move(db[t], r)
              /\ Held(db[t], r) /\ Calm(db[t], r)
        BY <1>2
    <2>2. PICK r : /\ Put(t, r) /\ Sound(r) /\ Move(db[t], r)
                   /\ Held(db[t], r) /\ Calm(db[t], r)
        BY <2>1
    <2>3. db' \in [Tasks -> Row] /\ \A u \in Tasks : db'[u] = db[u] \/ RowKept(u)
        BY <2>2, OneRowKept
    <2>. QED  BY <2>3 DEF CalmStep, Inv, TypeOK
<1>. QED  BY <1>1, <1>2

\* The callers' actions that do not start a task or a turn.
LEMMA CallerCalm ==
    ASSUME Inv, NEW t \in Tasks,
           \/ Cancel(t) \/ CompleteAuthorizationFlow(t)
           \/ RespondInteraction(t) /\ ~RespondOK(db[t])
    PROVE  CalmStep
<1>1. CASE Cancel(t)
    BY <1>1, RowsSound, CancelSound, OneRowCalm DEF Cancel
<1>2. CASE CompleteAuthorizationFlow(t)
    BY <1>2, RowsSound, FlowSound, OneRowCalm DEF CompleteAuthorizationFlow
<1>3. CASE RespondInteraction(t) /\ ~RespondOK(db[t])
    BY <1>3, RowsSound, RespondLateSound, OneRowCalm DEF RespondInteraction
<1>. QED  BY <1>1, <1>2, <1>3

\* Time passing.
LEMMA ClockCalm ==
    ASSUME Inv, NEW t \in Tasks, Clock(t)
    PROVE  CalmStep
<1>1. CASE LeaseExpires(t)
    BY <1>1, RowsSound, LeaseExpiresSound, OneRowCalm DEF LeaseExpires
<1>2. CASE BackoffEnds(t)
    BY <1>2, RowsSound, BackoffEndsSound, OneRowCalm DEF BackoffEnds
<1>3. CASE InteractionDue(t)
    BY <1>3, RowsSound, InteractionDueSound, OneRowCalm DEF InteractionDue
<1>4. CASE CancelDue(t)
    BY <1>4, RowsSound, CancelDueSound, OneRowCalm DEF CancelDue
<1>5. CASE DeadlinePasses(t)
    BY <1>5, RowsSound, DeadlineSound, OneRowCalm DEF DeadlinePasses
<1>6. CASE RetentionPasses(t)
    BY <1>6, RowsSound, RetentionSound, OneRowCalm DEF RetentionPasses
<1>. QED  BY <1>1, <1>2, <1>3, <1>4, <1>5, <1>6 DEF Clock

\* The end of a claim that does not commit, and the end of a worker.
LEMMA WorkerEndCalm ==
    ASSUME Inv, NEW w \in Workers, ClaimRollback(w) \/ Crash(w)
    PROVE  CalmStep
<1>1. JobsKept
    <2>1. jobs' \subseteq jobs
        BY DEF ClaimRollback, Crash
    <2>. QED  BY <2>1 DEF Inv, TypeOK, AttemptsFresh, JobsKept
<1>. QED  BY <1>1 DEF ClaimRollback, Crash, CalmStep, Inv, TypeOK

\* What a worker does with a claim, but for beginning and sending.
LEMMA WorkerCalm ==
    ASSUME Inv, NEW j \in jobs,
           \/ Enqueue(j) \/ Release(j) \/ RenewLease(j) \/ AgentUnavailable(j)
           \/ BeginRefused(j) \/ DeliverNothing(j) \/ MarkReceiptPending(j)
           \/ FailDelivery(j) \/ CallbackFails(j)
    PROVE  CalmStep
<1>1. /\ j.worker \in Workers /\ j.task \in Tasks
      /\ j.attempt \in Nat /\ j.version \in Nat
    BY DEF Inv, TypeOK, Job
<1>2. /\ db[j.task] \in Row /\ RowAgrees(db[j.task]) /\ Announced(db[j.task])
    BY <1>1, RowsSound
<1>3. CASE Enqueue(j) \/ BeginRefused(j) \/ DeliverNothing(j)
    BY <1>3, JobStaged, JobCalm DEF Enqueue, BeginRefused, DeliverNothing
<1>4. CASE CallbackFails(j)
    BY <1>4, JobDropped, JobCalm DEF CallbackFails
<1>5. CASE Release(j)
    BY <1>1, <1>2, <1>5, ReleaseSound, JobDropped, JobCalm DEF Release
<1>6. CASE RenewLease(j)
    BY <1>1, <1>2, <1>6, RenewSound, OneRowCalm DEF RenewLease
<1>7. CASE AgentUnavailable(j)
    BY <1>1, <1>2, <1>7, RowValues, FailDeliverySound, JobDropped, JobCalm
    DEF AgentUnavailable
<1>8. CASE FailDelivery(j)
    BY <1>1, <1>2, <1>8, RowValues, FailDeliverySound, JobDropped, JobCalm
    DEF FailDelivery
<1>9. CASE MarkReceiptPending(j)
    BY <1>1, <1>2, <1>9, MarkReceiptSound, JobDropped, JobCalm
    DEF MarkReceiptPending
<1>. QED  BY <1>3, <1>4, <1>5, <1>6, <1>7, <1>8, <1>9

\* What an attempt reports, but for the request that ends its turn.
LEMMA AgentCalm ==
    ASSUME Inv, NEW t \in Tasks, NEW a \in sent,
           \/ AcceptReceipt(t, a) \/ ReportProgress(t, a) \/ Reject(t, a)
           \/ GetControl(t, a) \/ AcknowledgeCancel(t, a) \/ CompleteCheck(t, a)
    PROVE  CalmStep
<1>1. a \in Nat
    BY DEF Inv, TypeOK
<1>2. CASE AcceptReceipt(t, a)
    BY <1>1, <1>2, RowsSound, ReceiptSound, OneRowCalm DEF AcceptReceipt
<1>3. CASE ReportProgress(t, a)
    BY <1>1, <1>3, RowsSound, ProgressSound, OneRowCalm DEF ReportProgress
<1>4. CASE Reject(t, a)
    BY <1>1, <1>4, RowsSound, RejectSound, OneRowCalm DEF Reject
<1>5. CASE GetControl(t, a)
    BY <1>1, <1>5, RowsSound, ControlSound, OneRowCalm DEF GetControl
<1>6. CASE AcknowledgeCancel(t, a)
    BY <1>1, <1>6, RowsSound, AckSound, OneRowCalm DEF AcknowledgeCancel
<1>7. CASE CompleteCheck(t, a)
    <2>1. JobsKept
        BY <1>7, JobsLeft DEF CompleteCheck
    <2>2. calls' \subseteq Call
        BY <1>1, <1>7 DEF CompleteCheck, Inv, TypeOK, Call
    <2>. QED  BY <1>7, <2>1, <2>2 DEF CompleteCheck, CalmStep, Inv, TypeOK
<1>. QED  BY <1>2, <1>3, <1>4, <1>5, <1>6, <1>7

\* The steps of a completion handler.
LEMMA HandlerCalm ==
    ASSUME Inv, NEW c \in calls, Handler(c)
    PROVE  CalmStep
<1>1. c \in Call /\ c.task \in Tasks /\ c.version \in Nat
    BY DEF Inv, TypeOK, Call
<1>2. JobsKept
    BY JobsLeft DEF Handler, CompleteRead, Complete, CompleteEnds
<1>3. CASE CompleteRead(c)
    <2>1. db[c.task].version \in Nat
        BY <1>1, RowsSound DEF Row
    <2>2. [c EXCEPT !.stage = "read", !.version = db[c.task].version] \in Call
        BY <1>1, <2>1 DEF Call
    <2>3. calls' \subseteq Call
        BY <1>3, <2>2 DEF CompleteRead, Inv, TypeOK
    <2>. QED  BY <1>2, <1>3, <2>3 DEF CompleteRead, CalmStep, Inv, TypeOK
<1>4. CASE Complete(c)
    <2>1. /\ Sound(CompleteRow(db[c.task])) /\ Calm(db[c.task], CompleteRow(db[c.task]))
          /\ Held(db[c.task], CompleteRow(db[c.task]))
          /\ Move(db[c.task], CompleteRow(db[c.task]))
        BY <1>1, <1>4, RowsSound, CompleteSound DEF Complete
    <2>2. db' \in [Tasks -> Row] /\ \A u \in Tasks : db'[u] = db[u] \/ RowKept(u)
        BY <1>1, <1>4, <2>1, OneRowKept DEF Complete
    <2>. QED  BY <1>2, <1>4, <2>2 DEF Complete, CalmStep, Inv, TypeOK
<1>5. CASE CompleteEnds(c)
    BY <1>2, <1>5 DEF CompleteEnds, CalmStep, Inv, TypeOK
<1>. QED  BY <1>3, <1>4, <1>5 DEF Handler

\* A reconciler run, whatever rows it picks.
LEMMA ReconcileCalm ==
    ASSUME Inv, Reconcile
    PROVE  CalmStep
<1>1. ASSUME NEW t \in Tasks
      PROVE  /\ db'[t] \in Row
             /\ db'[t] = db[t] \/ RowKept(t)
    <2>1. db'[t] = db[t] \/ (db'[t] \in ReconcileRows(db[t]) /\ ~Locked(t))
        BY DEF Reconcile
    <2>2. CASE db'[t] = db[t]
        BY <2>2, RowsSound
    <2>3. CASE db'[t] \in ReconcileRows(db[t]) /\ ~Locked(t)
        BY <2>3, RowsSound, ReconcileSound DEF RowKept, Sound
    <2>. QED  BY <2>1, <2>2, <2>3
<1>2. db' \in [Tasks -> Row]
    <2>1. PICK S : db' \in [Tasks -> S]
        BY DEF Reconcile
    <2>. QED  BY <1>1, <2>1
<1>3. JobsKept
    BY JobsLeft DEF Reconcile
<1>. QED  BY <1>1, <1>2, <1>3 DEF Reconcile, CalmStep, Inv, TypeOK

-----------------------------------------------------------------------------
(* The actions that are not calm. *)

\* Create: a fresh row, claimed by nobody, begun by nothing.
LEMMA CreatePreserves ==
    ASSUME Inv, NEW t \in Tasks, Create(t)
    PROVE  Inv'
<1>. DEFINE made == {u \in Tasks : db[u].state # "absent"}
            n    == 1 + Cardinality(made)
<1>1. n \in Nat
    <2>1. IsFiniteSet(made)
        BY TasksAssumption, FS_Subset DEF TasksAssumption
    <2>2. Cardinality(made) \in Nat
        BY <2>1, FS_CardinalityType
    <2>. HIDE DEF made
    <2>. QED  BY <2>2
<1>2. db' = [db EXCEPT ![t] = CreateRow(n)] /\ db[t].state = "absent"
    BY DEF Create, Put
<1>. HIDE DEF n
<1>3. Sound(CreateRow(n))
    BY <1>1, CreateSound
<1>4. CreateRow(n).disp = "pending" /\ CreateRow(n).state = "queued"
    BY DEF CreateRow, AbsentRow, Event
<1>. HIDE DEF made
<1>5. db[t].disp = "none"
    BY <1>2, RowsSound DEF RowAgrees, StateAgrees
<1>6. UNCHANGED <<claiming, jobs, issued, begun, sent, calls>>
    BY DEF Create
<1>7. TypeOK'
    BY <1>2, <1>3, <1>6 DEF Inv, TypeOK, Sound
<1>8. RowsAgree' /\ TerminalAnnounced'
    BY <1>2, <1>3 DEF Inv, TypeOK, RowsAgree, TerminalAnnounced, Sound
<1>9. LaneExclusion'
    BY <1>2, <1>4 DEF Inv, TypeOK, LaneExclusion, InLane
<1>10. ClaimsPending'
    BY <1>2, <1>5, <1>6 DEF Inv, TypeOK, ClaimsPending
<1>11. BegunInTurn'
    <2>1. \A b \in begun : b.task # t /\ b.task \in Tasks
        BY <1>2 DEF Inv, TypeOK, Begun, BegunInTurn
    <2>. QED  BY <1>2, <1>6, <2>1 DEF Inv, TypeOK, BegunInTurn
<1>12. CanceledMeansUndelivered'
    BY <1>2, <1>4, <1>6 DEF Inv, TypeOK, CanceledMeansUndelivered
<1>. QED
    BY <1>6, <1>7, <1>8, <1>9, <1>10, <1>11, <1>12
    DEF Inv, AttemptsFresh, SentWasBegun, AtMostOneAttemptPerTurn

\* ClaimSelect: the row is pending and no other claim has it.
LEMMA ClaimSelectPreserves ==
    ASSUME Inv, NEW t \in Tasks, NEW w \in Workers, ClaimSelect(w, t)
    PROVE  Inv'
<1>1. /\ claiming' = [claiming EXCEPT ![w] = t]
      /\ UNCHANGED <<db, jobs, issued, begun, sent, calls>>
      /\ db[t].disp = "pending" /\ ~Locked(t)
    BY DEF ClaimSelect, Eligible, Claimable
<1>2. TypeOK'
    BY <1>1 DEF Inv, TypeOK
<1>3. ClaimsPending'
    BY <1>1 DEF Inv, TypeOK, ClaimsPending, Locked
<1>. QED
    BY <1>1, <1>2, <1>3
    DEF Inv, RowsAgree, TerminalAnnounced, LaneExclusion, AttemptsFresh,
        BegunInTurn, SentWasBegun, AtMostOneAttemptPerTurn, CanceledMeansUndelivered

\* ClaimCommit: the recheck keeps the lane to one, the new job has a new id.
LEMMA ClaimCommitPreserves ==
    ASSUME Inv, NEW w \in Workers, ClaimCommit(w)
    PROVE  Inv'
<1>. DEFINE t == claiming[w]
            k == [worker |-> w, task |-> t, attempt |-> issued + 1,
                  version |-> db[t].version, turn |-> db[t].turns,
                  stage |-> "claimed"]
<1>1. /\ t \in Tasks /\ ~LaneBusy(t)
      /\ claiming' = [claiming EXCEPT ![w] = NoTask]
      /\ issued' = issued + 1
      /\ db' = [db EXCEPT ![t] = ClaimRow(db[t], w)]
      /\ jobs' = jobs \cup {k}
      /\ UNCHANGED <<begun, sent, calls>>
    BY DEF ClaimCommit, Put, Inv, TypeOK
<1>2. db[t].disp = "pending"
    BY <1>1, TasksAssumption DEF Inv, ClaimsPending, TasksAssumption
<1>3. \A v \in Workers : v # w => claiming[v] # t
    BY <1>1, TasksAssumption DEF Inv, ClaimsPending, TasksAssumption
<1>4. Sound(ClaimRow(db[t], w))
    BY <1>1, <1>2, RowsSound, ClaimSound
<1>5. /\ k \in Job /\ k.attempt = issued + 1 /\ k.stage = "claimed" /\ k.task = t
      /\ issued \in Nat
    <2>1. db[t].version \in Nat /\ db[t].turns \in Nat /\ issued \in Nat
        BY <1>1, RowsSound DEF Row, Inv, TypeOK
    <2>. QED  BY <1>1, <2>1 DEF Job
<1>6. /\ ClaimRow(db[t], w).turns = db[t].turns
      /\ ClaimRow(db[t], w).token = db[t].token
      /\ ClaimRow(db[t], w).state = db[t].state
      /\ ClaimRow(db[t], w).cancel = db[t].cancel
      /\ ClaimRow(db[t], w).disp = "leased"
    BY <1>1, RowsSound DEF ClaimRow, Row
<1>. HIDE DEF t, k
<1>7. TypeOK'
    BY <1>1, <1>4, <1>5 DEF Inv, TypeOK, Sound
<1>8. RowsAgree' /\ TerminalAnnounced'
    BY <1>1, <1>4 DEF Inv, TypeOK, RowsAgree, TerminalAnnounced, Sound
<1>9. LaneExclusion'
    <2>1. \A u \in Tasks : u # t /\ AgentOf[u] = AgentOf[t] => db[u].disp \notin InLane
        BY <1>1 DEF LaneBusy, SameLane
    <2>. QED  BY <1>1, <2>1 DEF Inv, TypeOK, LaneExclusion
<1>10. ClaimsPending'
    BY <1>1, <1>3 DEF Inv, TypeOK, ClaimsPending
<1>11. AttemptsFresh'
    <2>1. \A j \in jobs : j.attempt \in Nat
        BY DEF Inv, TypeOK, Job
    <2>2. \A b \in begun : b.attempt \in Nat
        BY DEF Inv, TypeOK, Begun
    <2>. QED  BY <1>1, <1>5, <2>1, <2>2 DEF Inv, AttemptsFresh
<1>12. BegunInTurn'
    <2>1. \A b \in begun : b.task \in Tasks
        BY DEF Inv, TypeOK, Begun
    <2>. QED  BY <1>1, <1>6, <2>1 DEF Inv, TypeOK, BegunInTurn
<1>13. SentWasBegun'
    BY <1>1, <1>5 DEF Inv, SentWasBegun
<1>14. AtMostOneAttemptPerTurn'
    BY <1>1 DEF Inv, AtMostOneAttemptPerTurn
<1>15. CanceledMeansUndelivered'
    BY <1>1, <1>5, <1>6 DEF Inv, TypeOK, CanceledMeansUndelivered
<1>. QED
    BY <1>7, <1>8, <1>9, <1>10, <1>11, <1>12, <1>13, <1>14, <1>15 DEF Inv

\* BeginAttempt: the turn was unexposed, and the attempt id is its first.
LEMMA BeginAttemptPreserves ==
    ASSUME Inv, NEW j \in jobs, BeginAttempt(j)
    PROVE  Inv'
<1>. DEFINE t == j.task
            n == [task |-> t, attempt |-> j.attempt,
                  turn |-> db[t].turns, carried |-> j.turn]
<1>1. /\ j \in Job /\ t \in Tasks /\ j.worker \in Workers /\ j.stage = "queued"
      /\ j.attempt \in Nat \ {0} /\ j.turn \in Nat
    BY DEF Inv, TypeOK, Job, AttemptsFresh, BeginAttempt
<1>2. PICK s \in {"begun", "refused"} : Stage(j, s)
    BY DEF BeginAttempt
<1>. DEFINE i == [j EXCEPT !.stage = s]
<1>3. /\ db' = [db EXCEPT ![t] = BeginRow(db[t], j.attempt)]
      /\ begun' = begun \cup {n}
      /\ jobs' = (jobs \ {j}) \cup {i}
      /\ UNCHANGED <<claiming, issued, sent, calls>>
    BY <1>2 DEF BeginAttempt, Put, Stage
<1>4. BeginOK(db[t], j.worker) /\ db[t].disp = "leased"
    BY DEF BeginAttempt, BeginOK, HoldsLease
<1>5. Sound(BeginRow(db[t], j.attempt))
    BY <1>1, <1>4, RowsSound, BeginSound
<1>6. /\ BeginRow(db[t], j.attempt).turns = db[t].turns
      /\ BeginRow(db[t], j.attempt).token = j.attempt
      /\ BeginRow(db[t], j.attempt).state = db[t].state
      /\ BeginRow(db[t], j.attempt).disp = "attempting"
      /\ db[t].state = "queued" /\ db[t].turns \in Nat
    <2>1. db[t] \in Row /\ RowAgrees(db[t])
        BY <1>1, RowsSound
    <2>2. db[t].state = "queued"
        BY <1>4, <2>1 DEF RowAgrees, StateAgrees, Row, States, Present,
           Outstanding, Terminal, Waiting, Ambiguous
    <2>. QED  BY <2>1, <2>2 DEF BeginRow, Row
<1>7. /\ n \in Begun /\ n.task = t /\ n.attempt = j.attempt
      /\ n.turn = db[t].turns
    BY <1>1, <1>6 DEF Begun
<1>8. i \in Job /\ i.task = t /\ i.attempt = j.attempt /\ i.stage = s
    BY <1>1 DEF Job
<1>9. \A b \in begun : b.task = t => b.turn < db[t].turns /\ b.attempt \in sent
    BY <1>1, <1>4, Unexposed
<1>10. \A b \in begun : b.attempt # j.attempt
    BY <1>1 DEF Inv, AttemptsFresh
<1>11. j.attempt \notin sent
    BY <1>10 DEF Inv, SentWasBegun
<1>12. \A b \in begun : b.task \in Tasks /\ b.turn \in Nat /\ b.attempt \in Nat
    BY DEF Inv, TypeOK, Begun
<1>. HIDE DEF n, i
<1>13. TypeOK'
    BY <1>1, <1>3, <1>5, <1>7, <1>8 DEF Inv, TypeOK, Sound
<1>14. RowsAgree' /\ TerminalAnnounced'
    BY <1>1, <1>3, <1>5 DEF Inv, TypeOK, RowsAgree, TerminalAnnounced, Sound
<1>15. LaneExclusion'
    BY <1>1, <1>3, <1>4 DEF Inv, TypeOK, LaneExclusion, InLane
<1>16. ClaimsPending'
    BY <1>1, <1>3, <1>4 DEF Inv, TypeOK, ClaimsPending
<1>17. AttemptsFresh'
    BY <1>1, <1>3, <1>7, <1>8, <1>10 DEF Inv, AttemptsFresh
<1>18. BegunInTurn'
    <2>1. ASSUME NEW b \in begun
          PROVE  /\ db'[b.task].state # "absent"
                 /\ db'[b.task].state \in Present =>
                      /\ b.turn <= db'[b.task].turns
                      /\ b.turn = db'[b.task].turns =>
                           db'[b.task].token = b.attempt /\ db'[b.task].state \notin Waiting
                      /\ b.turn < db'[b.task].turns => b.attempt \in sent
        <3>1. CASE b.task = t
            BY <1>1, <1>3, <1>6, <1>9, <1>12, <3>1 DEF Inv, TypeOK
        <3>2. CASE b.task # t
            BY <1>1, <1>3, <1>12, <3>2 DEF Inv, TypeOK, BegunInTurn
        <3>. QED  BY <3>1, <3>2
    <2>2. /\ db'[t].state = "queued" /\ db'[t].turns = n.turn
          /\ db'[t].token = n.attempt /\ n.turn \in Nat
        BY <1>1, <1>3, <1>6, <1>7 DEF Inv, TypeOK
    <2>. QED  BY <1>3, <1>7, <2>1, <2>2 DEF BegunInTurn, Waiting
<1>19. SentWasBegun'
    BY <1>1, <1>3, <1>7, <1>8, <1>11 DEF Inv, SentWasBegun
<1>20. AtMostOneAttemptPerTurn'
    BY <1>3, <1>6, <1>7, <1>9, <1>12 DEF Inv, AtMostOneAttemptPerTurn
<1>21. CanceledMeansUndelivered'
    BY <1>1, <1>3, <1>6, <1>7, <1>8 DEF Inv, TypeOK, CanceledMeansUndelivered
<1>. QED
    BY <1>13, <1>14, <1>15, <1>16, <1>17, <1>18, <1>19, <1>20, <1>21 DEF Inv

\* Deliver: the attempt that sends is begun, and no other job has its id.
LEMMA DeliverPreserves ==
    ASSUME Inv, NEW j \in jobs, Deliver(j)
    PROVE  Inv'
<1>1. PICK s \in {"sent", "unsent"} : Stage(j, s)
    BY DEF Deliver
<1>. DEFINE i == [j EXCEPT !.stage = s]
<1>2. /\ jobs' = (jobs \ {j}) \cup {i}
      /\ sent' = sent \cup {j.attempt}
      /\ j.stage = "begun"
      /\ UNCHANGED <<db, claiming, issued, begun, calls>>
    BY <1>1 DEF Deliver, Stage
<1>3. /\ i \in Job /\ i.task = j.task /\ i.attempt = j.attempt /\ i.stage = s
      /\ j.attempt \in Nat
    BY DEF Inv, TypeOK, Job
<1>. HIDE DEF i
<1>4. TypeOK'
    BY <1>2, <1>3 DEF Inv, TypeOK
<1>5. AttemptsFresh'
    BY <1>2, <1>3 DEF Inv, AttemptsFresh
<1>6. BegunInTurn'
    BY <1>2 DEF Inv, BegunInTurn
<1>7. SentWasBegun'
    BY <1>2, <1>3 DEF Inv, SentWasBegun, AttemptsFresh
<1>8. CanceledMeansUndelivered'
    BY <1>2, <1>3 DEF Inv, CanceledMeansUndelivered
<1>. QED
    BY <1>2, <1>4, <1>5, <1>6, <1>7, <1>8
    DEF Inv, RowsAgree, TerminalAnnounced, LaneExclusion, ClaimsPending,
        AtMostOneAttemptPerTurn

\* RequestInteraction: the turn that ends was sent, the next one is new.
LEMMA RequestPreserves ==
    ASSUME Inv, NEW t \in Tasks, NEW a \in sent, NEW x \in Waiting,
           RequestInteraction(t, a, x)
    PROVE  Inv'
<1>. DEFINE s == RequestRow(db[t], x)
<1>1. /\ db' = [db EXCEPT ![t] = s]
      /\ UNCHANGED <<claiming, jobs, issued, begun, sent, calls>>
      /\ RequestOK(db[t], a) /\ db[t].token = a
      /\ db[t].state = "dispatched" /\ db[t].disp = "delivered"
    BY DEF RequestInteraction, Put, RequestOK
<1>2. a \in Nat
    BY DEF Inv, TypeOK
<1>3. Sound(s)
    BY <1>1, <1>2, RowsSound, RequestSound
<1>4. /\ s.turns = db[t].turns + 1 /\ s.disp = "delivered" /\ s.state = x
      /\ db[t].turns \in Nat
    BY <1>1, RowsSound DEF RequestRow, Event, SetState, Row
<1>5. \A b \in begun : b.task \in Tasks /\ b.turn \in Nat
    BY DEF Inv, TypeOK, Begun
<1>. HIDE DEF s
<1>6. TypeOK'
    BY <1>1, <1>3 DEF Inv, TypeOK, Sound
<1>7. RowsAgree' /\ TerminalAnnounced'
    BY <1>1, <1>3 DEF Inv, TypeOK, RowsAgree, TerminalAnnounced, Sound
<1>8. LaneExclusion'
    BY <1>1, <1>4 DEF Inv, TypeOK, LaneExclusion, InLane
<1>9. ClaimsPending'
    BY <1>1 DEF Inv, TypeOK, ClaimsPending
<1>10. BegunInTurn'
    <2>1. ASSUME NEW b \in begun, b.task = t
          PROVE  b.turn < s.turns /\ b.attempt \in sent
        <3>1. db[t].state \in Present
            BY <1>1 DEF Present, Outstanding
        <3>2. /\ b.turn <= db[t].turns
              /\ b.turn = db[t].turns => db[t].token = b.attempt
              /\ b.turn < db[t].turns => b.attempt \in sent
            BY <2>1, <3>1 DEF Inv, BegunInTurn
        <3>. QED  BY <1>1, <1>4, <1>5, <3>2
    <2>2. s.turns \in Nat /\ s.state # "absent"
        BY <1>4 DEF Waiting
    <2>. QED  BY <1>1, <1>5, <2>1, <2>2 DEF Inv, TypeOK, BegunInTurn
<1>11. CanceledMeansUndelivered'
    BY <1>1, <1>4 DEF Inv, TypeOK, CanceledMeansUndelivered, Waiting
<1>. QED
    BY <1>1, <1>6, <1>7, <1>8, <1>9, <1>10, <1>11
    DEF Inv, AttemptsFresh, SentWasBegun, AtMostOneAttemptPerTurn

\* RespondInteraction in time: the new turn has no token and no attempt.
LEMMA RespondPreserves ==
    ASSUME Inv, NEW t \in Tasks, RespondInteraction(t), RespondOK(db[t])
    PROVE  Inv'
<1>. DEFINE s == RespondRow(db[t])
<1>1. /\ db' = [db EXCEPT ![t] = s]
      /\ UNCHANGED <<claiming, jobs, issued, begun, sent, calls>>
      /\ db[t].state \in Waiting /\ db[t].disp = "delivered"
    BY DEF RespondInteraction, Put, RespondOK, RespondLateOK
<1>2. Sound(s)
    BY RowsSound, RespondSound
<1>3. s.turns = db[t].turns /\ s.disp = "pending" /\ s.state = "queued"
    BY RowsSound DEF RespondRow, Event, SetState, Row
<1>4. \A b \in begun : b.task = t => b.turn < db[t].turns /\ b.attempt \in sent
    BY <1>1, Unexposed
<1>5. /\ \A b \in begun : b.task \in Tasks /\ b.turn \in Nat
      /\ db[t].turns \in Nat
    BY RowsSound DEF Inv, TypeOK, Begun, Row
<1>. HIDE DEF s
<1>6. TypeOK'
    BY <1>1, <1>2 DEF Inv, TypeOK, Sound
<1>7. RowsAgree' /\ TerminalAnnounced'
    BY <1>1, <1>2 DEF Inv, TypeOK, RowsAgree, TerminalAnnounced, Sound
<1>8. LaneExclusion'
    BY <1>1, <1>3 DEF Inv, TypeOK, LaneExclusion, InLane
<1>9. ClaimsPending'
    BY <1>1 DEF Inv, TypeOK, ClaimsPending
<1>10. BegunInTurn'
    <2>1. ASSUME NEW b \in begun, b.task = t
          PROVE  b.turn < s.turns /\ b.attempt \in sent
        BY <1>3, <1>4, <2>1
    <2>. QED  BY <1>1, <1>3, <1>5, <2>1 DEF Inv, TypeOK, BegunInTurn
<1>11. CanceledMeansUndelivered'
    BY <1>1, <1>3 DEF Inv, TypeOK, CanceledMeansUndelivered
<1>. QED
    BY <1>1, <1>6, <1>7, <1>8, <1>9, <1>10, <1>11
    DEF Inv, AttemptsFresh, SentWasBegun, AtMostOneAttemptPerTurn

-----------------------------------------------------------------------------
(* The inductive invariant. *)

\* Next is a calm step or one of the others; both preserve Inv.
LEMMA NextCases ==
    ASSUME Inv, Next
    PROVE  \/ CalmStep
           \/ \E t \in Tasks : Create(t)
           \/ \E t \in Tasks : RespondInteraction(t) /\ RespondOK(db[t])
           \/ \E t \in Tasks, w \in Workers : ClaimSelect(w, t)
           \/ \E w \in Workers : ClaimCommit(w)
           \/ \E j \in jobs : BeginAttempt(j) \/ Deliver(j)
           \/ \E t \in Tasks, a \in sent, x \in Waiting : RequestInteraction(t, a, x)
<1>1. CASE \E t \in Tasks : Caller(t) \/ Clock(t)
    BY <1>1, CallerCalm, ClockCalm DEF Caller
<1>2. CASE \E t \in Tasks, w \in Workers : ClaimSelect(w, t)
    BY <1>2
<1>3. CASE \E w \in Workers : ClaimCommit(w) \/ ClaimRollback(w) \/ Crash(w)
    BY <1>3, WorkerEndCalm
<1>4. CASE \E j \in jobs : WorkerStep(j)
    BY <1>4, WorkerCalm DEF WorkerStep
<1>5. CASE \E t \in Tasks, a \in sent : Agent(t, a)
    BY <1>5, AgentCalm DEF Agent
<1>6. CASE \E c \in calls : Handler(c)
    BY <1>6, HandlerCalm
<1>7. CASE Reconcile
    BY <1>7, ReconcileCalm
<1>. QED  BY <1>1, <1>2, <1>3, <1>4, <1>5, <1>6, <1>7 DEF Next

\* Before any task is created the invariant holds.
LEMMA InitInv ==
    ASSUME Init
    PROVE  Inv
<1>1. AbsentRow \in Row
    BY RowValues DEF AbsentRow, Row
<1>2. RowAgrees(AbsentRow) /\ Announced(AbsentRow)
    BY DEF AbsentRow, RowAgrees, StateAgrees, TokenAgrees, LeaseAgrees,
       InteractionAgrees, Announced, Present, Outstanding, Waiting, Terminal,
       InLane, Ambiguous
<1>3. AbsentRow.disp \notin InLane /\ AbsentRow.state # "canceled"
    BY DEF AbsentRow, InLane
<1>. QED
    BY <1>1, <1>2, <1>3
    DEF Init, Inv, TypeOK, RowsAgree, TerminalAnnounced, LaneExclusion,
        ClaimsPending, AttemptsFresh, BegunInTurn, SentWasBegun,
        AtMostOneAttemptPerTurn, CanceledMeansUndelivered

\* Every step of the system preserves the invariant.
LEMMA NextInv ==
    ASSUME Inv, [Next]_vars
    PROVE  Inv'
<1>1. CASE UNCHANGED vars
    BY <1>1
    DEF vars, Inv, TypeOK, RowsAgree, TerminalAnnounced, LaneExclusion,
        ClaimsPending, AttemptsFresh, BegunInTurn, SentWasBegun,
        AtMostOneAttemptPerTurn, CanceledMeansUndelivered
<1>2. CASE Next
    BY <1>2, NextCases, CalmPreserves, CreatePreserves, RespondPreserves,
       ClaimSelectPreserves, ClaimCommitPreserves, BeginAttemptPreserves,
       DeliverPreserves, RequestPreserves
<1>. QED  BY <1>1, <1>2

\* Inv holds in every reachable state, for every number of tasks, agents,
\* replicas and attempts and every limit.
THEOREM Invariance == Spec => []Inv
<1>1. Init => Inv
    BY InitInv
<1>2. Inv /\ [Next]_vars => Inv'
    BY NextInv
<1>. QED  BY <1>1, <1>2, PTL DEF Spec

\* The variables keep their types: the store's columns hold only values the
\* schema's CHECK constraints allow, and a job or call names a known task.
THEOREM TypeCorrect == Spec => []TypeOK
<1>1. Inv => TypeOK
    BY DEF Inv
<1>. QED  BY <1>1, Invariance, PTL

\* ClaimPending's lane recheck keeps deliveries to an agent exclusive.
THEOREM LaneExclusive == Spec => []LaneExclusion
<1>1. Inv => LaneExclusion
    BY DEF Inv
<1>. QED  BY <1>1, Invariance, PTL

\* The task, dispatch, cancellation and interaction rows never disagree.
THEOREM RowsAlwaysAgree == Spec => []RowsAgree
<1>1. Inv => RowsAgree
    BY DEF Inv
<1>. QED  BY <1>1, Invariance, PTL

\* No turn of a task is delivered twice, whatever is retried or requeued.
THEOREM DeliveredAtMostOnce == Spec => []AtMostOneAttemptPerTurn
<1>1. Inv => AtMostOneAttemptPerTurn
    BY DEF Inv
<1>. QED  BY <1>1, Invariance, PTL

\* An unacknowledged `canceled' means the current turn was never delivered.
THEOREM CanceledUndelivered == Spec => []CanceledMeansUndelivered
<1>1. Inv => CanceledMeansUndelivered
    BY DEF Inv
<1>. QED  BY <1>1, Invariance, PTL

\* A task has a task.terminal event exactly when its state is terminal.
THEOREM TerminalsAnnounced == Spec => []TerminalAnnounced
<1>1. Inv => TerminalAnnounced
    BY DEF Inv
<1>. QED  BY <1>1, Invariance, PTL

-----------------------------------------------------------------------------
(* Refinement. *)

\* Whatever a step does to the row of a task is a move of TaskLifecycle.
LEMMA RowsMove ==
    ASSUME Inv, Next, NEW t \in Tasks
    PROVE  db'[t] = db[t] \/ Move(db[t], db'[t])
<1>1. CASE CalmStep
    BY <1>1 DEF CalmStep, RowKept
<1>2. ASSUME NEW u \in Tasks, Create(u)
      PROVE  db'[t] = db[t] \/ Move(db[t], db'[t])
    <2>1. db' = [db EXCEPT ![u] =
                  CreateRow(1 + Cardinality({v \in Tasks : db[v].state # "absent"}))]
          /\ db[u].state = "absent" /\ db \in [Tasks -> Row]
        BY <1>2 DEF Create, Put, Inv, TypeOK
    <2>2. db[u].token = 0
        BY <2>1, RowsSound DEF RowAgrees, StateAgrees, TokenAgrees
    <2>3. \A n : CreateRow(n).state = "queued" /\ CreateRow(n).token = 0
        BY DEF CreateRow, AbsentRow, Event
    <2>4. t = u => db'[t].state = "queued" /\ db'[t].token = 0
        BY <2>1, <2>3
    <2>. QED  BY <2>1, <2>2, <2>4 DEF Move
<1>3. ASSUME NEW u \in Tasks, RespondInteraction(u), RespondOK(db[u])
      PROVE  db'[t] = db[t] \/ Move(db[t], db'[t])
    <2>1. db' = [db EXCEPT ![u] = RespondRow(db[u])] /\ db \in [Tasks -> Row]
        BY <1>3 DEF RespondInteraction, RespondOK, RespondLateOK, Put, Inv, TypeOK
    <2>2. Move(db[u], RespondRow(db[u]))
        BY <1>3, RowsSound, RespondSound
    <2>. QED  BY <2>1, <2>2
<1>4. ASSUME NEW w \in Workers, ClaimCommit(w)
      PROVE  db'[t] = db[t] \/ Move(db[t], db'[t])
    <2>1. /\ db' = [db EXCEPT ![claiming[w]] = ClaimRow(db[claiming[w]], w)]
          /\ db \in [Tasks -> Row] /\ claiming[w] \in Tasks
          /\ db[claiming[w]].disp = "pending"
        BY <1>4 DEF ClaimCommit, Put, Inv, TypeOK, ClaimsPending
    <2>2. Move(db[claiming[w]], ClaimRow(db[claiming[w]], w))
        BY <2>1, RowsSound, ClaimSound
    <2>. QED  BY <2>1, <2>2
<1>5. ASSUME NEW j \in jobs, BeginAttempt(j)
      PROVE  db'[t] = db[t] \/ Move(db[t], db'[t])
    <2>1. /\ j.worker \in Workers /\ j.task \in Tasks /\ j.attempt \in Nat \ {0}
          /\ db \in [Tasks -> Row]
        BY DEF Inv, TypeOK, Job, AttemptsFresh
    <2>2. /\ db' = [db EXCEPT ![j.task] = BeginRow(db[j.task], j.attempt)]
          /\ BeginOK(db[j.task], j.worker)
        BY <1>5 DEF BeginAttempt, Put
    <2>3. Move(db[j.task], BeginRow(db[j.task], j.attempt))
        BY <2>1, <2>2, RowsSound, BeginSound
    <2>. QED  BY <2>1, <2>2, <2>3
<1>6. ASSUME NEW u \in Tasks, NEW a \in sent, NEW x \in Waiting,
             RequestInteraction(u, a, x)
      PROVE  db'[t] = db[t] \/ Move(db[t], db'[t])
    <2>1. /\ db' = [db EXCEPT ![u] = RequestRow(db[u], x)] /\ RequestOK(db[u], a)
          /\ db \in [Tasks -> Row] /\ a \in Nat
        BY <1>6 DEF RequestInteraction, Put, Inv, TypeOK
    <2>2. Move(db[u], RequestRow(db[u], x))
        BY <2>1, RowsSound, RequestSound
    <2>. QED  BY <2>1, <2>2
<1>7. ASSUME (\E u \in Tasks, w \in Workers : ClaimSelect(w, u))
               \/ (\E j \in jobs : Deliver(j))
      PROVE  db'[t] = db[t]
    BY <1>7 DEF ClaimSelect, Deliver
<1>. QED  BY <1>1, <1>2, <1>3, <1>4, <1>5, <1>6, <1>7, NextCases

\* The durable-task protocol implements TaskLifecycle: under the mapping
\* that reports a task's state and whether its turn has a token, every step
\* is one of the moves callers are promised, or none.
THEOREM RefinesLifecycle == Spec => ImplementsLifecycle
<1>1. Init => Lifecycle!Init
    <2>1. SUFFICES ASSUME Init  PROVE Lifecycle!Init
        OBVIOUS
    <2>2. AbsentRow.state = "absent" /\ AbsentRow.token = 0
        BY DEF AbsentRow
    <2>3. \A t \in Tasks : db[t].state = "absent" /\ db[t].token = 0
        BY <2>1, <2>2 DEF Init
    <2>4. \A t \in Tasks : (db[t].token # 0) = FALSE
        BY <2>3
    <2>5. [t \in Tasks |-> db[t].token # 0] = [t \in Tasks |-> FALSE]
        BY <2>4, Zenon
    <2>. QED  BY <2>3, <2>5 DEF Lifecycle!Init
<1>2. Inv /\ [Next]_vars => [Lifecycle!Next]_<<[t \in Tasks |-> db[t].state],
                                               [t \in Tasks |-> db[t].token # 0]>>
    <2>1. SUFFICES ASSUME Inv, [Next]_vars
                   PROVE  [Lifecycle!Next]_<<[t \in Tasks |-> db[t].state],
                                             [t \in Tasks |-> db[t].token # 0]>>
        OBVIOUS
    <2>2. CASE UNCHANGED vars
        BY <2>2 DEF vars
    <2>3. CASE Next
        <3>1. ASSUME NEW t \in Tasks
              PROVE  Lifecycle!Step(t) \/ Lifecycle!Stays(t)
            <4>1. db'[t] = db[t] \/ Move(db[t], db'[t])
                BY <2>1, <2>3, RowsMove
            <4>. QED
                BY <4>1
                DEF Move, Waiting, Present, Outstanding, Terminal,
                    Lifecycle!Step, Lifecycle!Stays, Lifecycle!Move,
                    Lifecycle!Submit, Lifecycle!Expose, Lifecycle!Start,
                    Lifecycle!Pause, Lifecycle!Resume, Lifecycle!RequestCancel,
                    Lifecycle!Withdraw, Lifecycle!ConfirmCancel, Lifecycle!Finish,
                    Lifecycle!Refuse, Lifecycle!Fail, Lifecycle!Forget,
                    Lifecycle!Paused, Lifecycle!Active, Lifecycle!Final
        <3>. QED  BY <3>1 DEF Lifecycle!Next
    <2>. QED  BY <2>1, <2>2, <2>3
<1>. QED
    BY <1>1, <1>2, Invariance, PTL DEF Spec, ImplementsLifecycle, Lifecycle!Spec
=============================================================================
