-------------------------- MODULE TaskObjectProofs --------------------------
(***************************************************************************)
(* The safety properties of TaskObjects hold for any number of uploads,    *)
(* results, cleanup passes and attempts.                                   *)
(*                                                                         *)
(* The argument is about one object at a time.  A row only ever moves      *)
(* none -> pending -> ready -> deleting -> none, and never starts again,   *)
(* so what a pass has once claimed is no upload's any more (PassInv); an   *)
(* upload's bytes are there from its Put until a pass erases them          *)
(* (UploadInv); the transaction in doubt keeps its lock, and with it all   *)
(* that it was allowed to publish (TxnInv); and a row is ready exactly     *)
(* when its result shows it, until retention has passed (ResultInv).       *)
(***************************************************************************)
EXTENDS TaskObjects, TLAPS

\* Before its Prepare an upload has no row, during its Put the row is pending
\* under a live lease, and after a Put that succeeded it has its bytes.
UploadInv ==
    \A u \in Uploads :
        /\ u \in bytes => obj[u].status # "none"
        /\ up[u].stage \in {"idle", "checked"} => obj[u].status = "none"
        /\ up[u].stage = "prepared" => obj[u].status = "pending" /\ obj[u].lease = "live"
        /\ up[u].stage = "stored" /\ obj[u].status = "pending" => u \in bytes

\* The object of a pass is lost to its upload for good, and once erased it
\* has no bytes.
PassInv ==
    \A p \in Replicas : \A u \in Uploads : pass[p].at = u =>
        /\ obj[u].status \in {"deleting", "none"}
        /\ up[u].stage \notin {"idle", "checked"}
        /\ pass[p].stage = "erased" => u \notin bytes

\* While a commit is in doubt nothing it depends on changes.
TxnInv ==
    \A u \in Uploads : txn = u =>
        /\ task.phase = "running"
        /\ obj[u].status = "pending" /\ u \in bytes
        /\ result[ResultOf[u]] = None
        /\ up[u].stage \notin {"idle", "checked", "prepared", "stored"}

\* What a result shows, and what is shown of a ready row.
ResultInv ==
    /\ \A r \in Results, u \in Uploads : result[r] = u =>
          /\ ResultOf[u] = r
          /\ obj[u].status \in {"ready", "deleting"}
          /\ task.phase \in {"running", "ended"} => obj[u].status = "ready"
    /\ \A u \in Uploads : obj[u].status = "ready" =>
          /\ u \in bytes
          /\ up[u].stage \notin {"idle", "checked", "prepared"}
          /\ task.phase # "gone" => result[ResultOf[u]] = u

IInv == TypeOK /\ UploadInv /\ PassInv /\ TxnInv /\ ResultInv

-----------------------------------------------------------------------------
(* One row, one handler, one sweep.                                        *)

Row == [status: {"none", "pending", "ready", "deleting"},
        lease: {"none", "live", "expired"},
        holder: Replicas \cup {None},
        backoff: {"ready", "waiting"}]
Stages == {"idle", "checked", "prepared", "stored",
           "unstored", "unsure", "unwanted", "over"}

\* A handler that moves on leaves every other handler where it is.
LEMMA GotoMoves ==
    ASSUME TypeOK, NEW u \in Uploads, NEW s \in Stages, Goto(u, s)
    PROVE  /\ up' \in [Uploads -> [stage: Stages, attempt: 0..MaxAttempts + 1]]
           /\ \A v \in Uploads : up'[v].stage = IF v = u THEN s ELSE up[v].stage
BY DEF TypeOK, Goto, Stages

\* What a sweep does to the rows: it leaves a row as it is or marks it.
LEMMA ReconcileRows ==
    ASSUME TypeOK, NEW batch \in SUBSET Uploads, Reconcile(batch)
    PROVE  /\ obj' \in [Uploads -> Row]
           /\ \A u \in Uploads :
                \/ obj'[u] = obj[u]
                \/ obj'[u].status = "deleting" /\ (Reclaimable(u) \/ Expired(u))
<1> DEFINE new(u) == IF u \notin batch THEN obj[u]
                     ELSE IF Reclaimable(u) THEN MarkDeleting(obj[u])
                     ELSE IF Expired(u) THEN [obj[u] EXCEPT !.status = "deleting"]
                     ELSE obj[u]
<1>1. obj' = [u \in Uploads |-> new(u)]
    BY DEF Reconcile
<1>2. ASSUME NEW u \in Uploads
      PROVE  /\ new(u) \in Row
             /\ \/ new(u) = obj[u]
                \/ new(u).status = "deleting" /\ (Reclaimable(u) \/ Expired(u))
  <2>1. obj[u] \in Row
    BY DEF TypeOK, Row
  <2>2. MarkDeleting(obj[u]) \in Row /\ MarkDeleting(obj[u]).status = "deleting"
    BY <2>1 DEF MarkDeleting, Row
  <2>3. /\ [obj[u] EXCEPT !.status = "deleting"] \in Row
        /\ [obj[u] EXCEPT !.status = "deleting"].status = "deleting"
    BY <2>1 DEF Row
  <2> QED
    BY <2>1, <2>2, <2>3
<1> QED
    BY <1>1, <1>2

\* The edits of a row that the statements make.
LEMMA RowFields ==
    ASSUME NEW row \in Row
    PROVE  /\ [row EXCEPT !.status = "pending", !.lease = "live"] \in Row
           /\ [row EXCEPT !.status = "ready", !.lease = "none"] \in Row
           /\ [row EXCEPT !.lease = "expired"] \in Row
           /\ [row EXCEPT !.backoff = "ready"] \in Row
           /\ MarkDeleting(row) \in Row /\ MarkDeleting(row).status = "deleting"
BY DEF Row, MarkDeleting

\* A row edited in one place: the others are left alone.
LEMMA RowEdit ==
    ASSUME TypeOK, NEW u \in Uploads, NEW row \in Row, obj' = [obj EXCEPT ![u] = row]
    PROVE  /\ obj' \in [Uploads -> Row]
           /\ \A v \in Uploads : obj'[v] = IF v = u THEN row ELSE obj[v]
BY DEF TypeOK, Row

\* A handler whose Put is over, or that stops, only moves to a later stage.
LEMMA MovesOn ==
    ASSUME IInv, NEW u \in Uploads, NEW s \in {"unstored", "unsure", "unwanted", "over"},
           Goto(u, s), UNCHANGED <<task, obj, result, bytes, txn, pass>>
    PROVE  IInv'
<1>1. /\ up' \in [Uploads -> [stage: Stages, attempt: 0..MaxAttempts + 1]]
      /\ \A v \in Uploads : up'[v].stage = IF v = u THEN s ELSE up[v].stage
  BY GotoMoves DEF IInv, Stages
<1>2. TypeOK'
  BY <1>1 DEF IInv, TypeOK, Stages
<1>3. UploadInv'
  BY <1>1 DEF IInv, TypeOK, UploadInv
<1>4. PassInv'
  BY <1>1 DEF IInv, TypeOK, PassInv
<1>5. TxnInv'
  BY <1>1 DEF IInv, TypeOK, TxnInv
<1>6. ResultInv'
  BY <1>1 DEF IInv, TypeOK, ResultInv
<1> QED
  BY <1>2, <1>3, <1>4, <1>5, <1>6 DEF IInv

\* The strengthening is preserved by every action of the uploads, the sweeps,
\* the cleanup passes, the task and time.
LEMMA Step == IInv /\ [Next]_vars => IInv'
<1> SUFFICES ASSUME IInv, [Next]_vars PROVE IInv'
    OBVIOUS
<1> USE UploadsAssumption DEF IInv
<1>1. ASSUME NEW u \in Uploads, UploadStarts(u) PROVE IInv'
  <2>1. TypeOK'
    BY <1>1 DEF TypeOK, UploadStarts
  <2>2. UploadInv'
    BY <1>1 DEF TypeOK, UploadInv, PassInv, ResultInv, UploadStarts
  <2>3. PassInv'
    BY <1>1 DEF TypeOK, UploadInv, PassInv, UploadStarts
  <2>4. TxnInv'
    BY <1>1 DEF TypeOK, UploadInv, PassInv, TxnInv, ResultInv, UploadStarts
  <2>5. ResultInv'
    BY <1>1 DEF TypeOK, UploadInv, PassInv, TxnInv, ResultInv, UploadStarts
  <2> QED
    BY <2>1, <2>2, <2>3, <2>4, <2>5
<1>2. ASSUME NEW u \in Uploads, PrepareFileUpload(u) PROVE IInv'
  <2> DEFINE row == [obj[u] EXCEPT !.status = "pending", !.lease = "live"]
  <2>o. obj[u] \in Row
    BY DEF TypeOK, Row
  <2>r. row \in Row
    BY <2>o, RowFields
  <2>e. obj' = [obj EXCEPT ![u] = row]
    BY <1>2 DEF PrepareFileUpload, TypeOK
  <2>g. Goto(u, "prepared")
    BY <1>2 DEF PrepareFileUpload
  <2>p. /\ up[u].stage = "checked" /\ txn = None
        /\ row.status = "pending" /\ row.lease = "live"
        /\ UNCHANGED <<task, result, bytes, txn, pass>>
    BY <1>2 DEF PrepareFileUpload, TaskUnlocked, TypeOK
  <2> HIDE DEF row
  <2>a. /\ obj' \in [Uploads -> Row]
        /\ \A v \in Uploads : obj'[v] = IF v = u THEN row ELSE obj[v]
        /\ up' \in [Uploads -> [stage: Stages, attempt: 0..MaxAttempts + 1]]
        /\ \A v \in Uploads : up'[v].stage = IF v = u THEN "prepared" ELSE up[v].stage
    BY <2>r, <2>e, <2>g, RowEdit, GotoMoves DEF Stages
  <2>1. TypeOK'
    BY <2>p, <2>a DEF TypeOK, Row, Stages
  <2>2. UploadInv'
    BY <2>p, <2>a DEF TypeOK, UploadInv, PassInv, ResultInv
  <2>3. PassInv'
    BY <2>p, <2>a DEF TypeOK, UploadInv, PassInv
  <2>4. TxnInv'
    BY <2>p, <2>a DEF TypeOK, UploadInv, PassInv, TxnInv, ResultInv
  <2>5. ResultInv'
    <3>1. \A r \in Results, v \in Uploads : result'[r] = v =>
             /\ ResultOf[v] = r
             /\ obj'[v].status \in {"ready", "deleting"}
             /\ task'.phase \in {"running", "ended"} => obj'[v].status = "ready"
      BY <2>p, <2>a DEF TypeOK, UploadInv, ResultInv
    <3>2. \A v \in Uploads : obj'[v].status = "ready" =>
             /\ v \in bytes'
             /\ up'[v].stage \notin {"idle", "checked", "prepared"}
             /\ task'.phase # "gone" => result'[ResultOf[v]] = v
      BY <2>p, <2>a DEF TypeOK, UploadInv, ResultInv
    <3> QED
      BY <3>1, <3>2 DEF ResultInv
  <2> QED
    BY <2>1, <2>2, <2>3, <2>4, <2>5
<1>3. ASSUME NEW u \in Uploads, PutObject(u) PROVE IInv'
  <2>1. up[u].stage = "prepared" /\ bytes' = bytes \cup {u}
        /\ UNCHANGED <<task, obj, result, txn, pass>>
    BY <1>3 DEF PutObject
  <2>2. PICK s \in {"stored", "unstored"} : Goto(u, s)
    BY <1>3 DEF PutObject
  <2>3. /\ up' \in [Uploads -> [stage: Stages, attempt: 0..MaxAttempts + 1]]
        /\ \A v \in Uploads : up'[v].stage = IF v = u THEN s ELSE up[v].stage
    BY <2>2, GotoMoves DEF Stages
  <2>4. TypeOK'
    BY <2>1, <2>3 DEF TypeOK, Stages
  <2>5. UploadInv'
    BY <2>1, <2>3 DEF TypeOK, UploadInv
  <2>6. PassInv'
    BY <2>1, <2>3 DEF TypeOK, UploadInv, PassInv
  <2>7. TxnInv'
    BY <2>1, <2>3 DEF TypeOK, UploadInv, TxnInv
  <2>8. ResultInv'
    BY <2>1, <2>3 DEF TypeOK, ResultInv
  <2> QED
    BY <2>4, <2>5, <2>6, <2>7, <2>8
<1>4. ASSUME NEW u \in Uploads, PutNothing(u) PROVE IInv'
    BY <1>4, MovesOn DEF PutNothing
<1>5. ASSUME NEW u \in Uploads, PublishResult(u) PROVE IInv'
  <2> DEFINE row == [obj[u] EXCEPT !.status = "ready", !.lease = "none"]
  <2>o. obj[u] \in Row
    BY DEF TypeOK, Row
  <2>r. row \in Row
    BY <2>o, RowFields
  <2>e. obj' = [obj EXCEPT ![u] = row]
    BY <1>5 DEF PublishResult, Published, TypeOK
  <2>g. Goto(u, "over")
    BY <1>5 DEF PublishResult
  <2>p. /\ up[u].stage = "stored" /\ txn = None
        /\ obj[u].status = "pending" /\ row.status = "ready"
        /\ result[ResultOf[u]] = None
        /\ result' = [result EXCEPT ![ResultOf[u]] = u]
        /\ UNCHANGED <<task, bytes, txn, pass>>
    BY <1>5 DEF PublishResult, Published, PublishOK, TaskUnlocked, TypeOK
  <2> HIDE DEF row
  <2>a. /\ obj' \in [Uploads -> Row]
        /\ \A v \in Uploads : obj'[v] = IF v = u THEN row ELSE obj[v]
        /\ up' \in [Uploads -> [stage: Stages, attempt: 0..MaxAttempts + 1]]
        /\ \A v \in Uploads : up'[v].stage = IF v = u THEN "over" ELSE up[v].stage
    BY <2>r, <2>e, <2>g, RowEdit, GotoMoves DEF Stages
  <2>1. TypeOK'
    BY <2>p, <2>a DEF TypeOK, Row, Stages
  <2>2. UploadInv'
    BY <2>p, <2>a DEF TypeOK, UploadInv, PassInv, ResultInv
  <2>3. PassInv'
    BY <2>p, <2>a DEF TypeOK, UploadInv, PassInv
  <2>4. TxnInv'
    BY <2>p, <2>a DEF TypeOK, UploadInv, PassInv, TxnInv, ResultInv
  <2>5. ResultInv'
    BY <2>p, <2>a DEF TypeOK, UploadInv, PassInv, TxnInv, ResultInv
  <2> QED
    BY <2>1, <2>2, <2>3, <2>4, <2>5
<1>6. ASSUME NEW u \in Uploads, PublishInDoubt(u) PROVE IInv'
  <2>g. Goto(u, "unsure")
    BY <1>6 DEF PublishInDoubt
  <2>p. /\ up[u].stage = "stored" /\ task.phase = "running"
        /\ obj[u].status = "pending" /\ result[ResultOf[u]] = None
        /\ txn = None /\ txn' = u
        /\ UNCHANGED <<task, obj, result, bytes, pass>>
    BY <1>6 DEF PublishInDoubt, PublishOK, TaskUnlocked
  <2>a. /\ up' \in [Uploads -> [stage: Stages, attempt: 0..MaxAttempts + 1]]
        /\ \A v \in Uploads : up'[v].stage = IF v = u THEN "unsure" ELSE up[v].stage
    BY <2>g, GotoMoves DEF Stages
  <2>1. TypeOK'
    BY <2>p, <2>a DEF TypeOK, Row, Stages
  <2>2. UploadInv'
    BY <2>p, <2>a DEF TypeOK, UploadInv, PassInv, ResultInv
  <2>3. PassInv'
    BY <2>p, <2>a DEF TypeOK, UploadInv, PassInv
  <2>4. TxnInv'
    BY <2>p, <2>a DEF TypeOK, UploadInv, PassInv, TxnInv, ResultInv
  <2>5. ResultInv'
    BY <2>p, <2>a DEF TypeOK, UploadInv, PassInv, TxnInv, ResultInv
  <2> QED
    BY <2>1, <2>2, <2>3, <2>4, <2>5
<1>7. ASSUME CommitLate PROVE IInv'
  <2> DEFINE row == [obj[txn] EXCEPT !.status = "ready", !.lease = "none"]
  <2>o. obj[txn] \in Row
    BY <1>7 DEF TypeOK, Row, CommitLate
  <2>r. row \in Row
    BY <2>o, RowFields
  <2>e. txn \in Uploads /\ obj' = [obj EXCEPT ![txn] = row]
    BY <1>7 DEF CommitLate, Published, TypeOK
  <2>p. /\ row.status = "ready" /\ txn' = None
        /\ result' = [result EXCEPT ![ResultOf[txn]] = txn]
        /\ UNCHANGED <<task, bytes, up, pass>>
    BY <1>7, <2>e DEF CommitLate, Published, TypeOK
  <2> HIDE DEF row
  <2>a. /\ obj' \in [Uploads -> Row]
        /\ \A v \in Uploads : obj'[v] = IF v = txn THEN row ELSE obj[v]
    BY <2>r, <2>e, RowEdit
  <2>1. TypeOK'
    BY <2>e, <2>p, <2>a DEF TypeOK, Row, Stages
  <2>2. UploadInv'
    BY <2>e, <2>p, <2>a DEF TypeOK, UploadInv, PassInv, ResultInv, TxnInv
  <2>3. PassInv'
    BY <2>e, <2>p, <2>a DEF TypeOK, UploadInv, PassInv, TxnInv
  <2>4. TxnInv'
    BY <2>e, <2>p, <2>a DEF TypeOK, UploadInv, PassInv, TxnInv, ResultInv
  <2>5. ResultInv'
    BY <2>e, <2>p, <2>a DEF TypeOK, UploadInv, PassInv, TxnInv, ResultInv
  <2> QED
    BY <2>1, <2>2, <2>3, <2>4, <2>5
<1>8. ASSUME RollbackLate PROVE IInv'
  <2>1. TypeOK'
    BY <1>8 DEF TypeOK, RollbackLate
  <2>2. UploadInv'
    BY <1>8 DEF TypeOK, UploadInv, PassInv, ResultInv, RollbackLate
  <2>3. PassInv'
    BY <1>8 DEF TypeOK, UploadInv, PassInv, RollbackLate
  <2>4. TxnInv'
    BY <1>8 DEF TypeOK, UploadInv, PassInv, TxnInv, ResultInv, RollbackLate
  <2>5. ResultInv'
    BY <1>8 DEF TypeOK, UploadInv, PassInv, TxnInv, ResultInv, RollbackLate
  <2> QED
    BY <2>1, <2>2, <2>3, <2>4, <2>5
<1>9. ASSUME NEW u \in Uploads, PublishRefused(u) PROVE IInv'
  <2>1. CASE Goto(u, "unwanted")
    BY <1>9, <2>1, MovesOn DEF PublishRefused
  <2>2. CASE Goto(u, "unsure")
    BY <1>9, <2>2, MovesOn DEF PublishRefused
  <2> QED
    BY <1>9, <2>1, <2>2 DEF PublishRefused
<1>10. ASSUME NEW u \in Uploads, ReadBack(u) PROVE IInv'
  <2>1. CASE Goto(u, "unwanted")
    BY <1>10, <2>1, MovesOn DEF ReadBack
  <2>2. CASE Goto(u, "over")
    BY <1>10, <2>2, MovesOn DEF ReadBack
  <2> QED
    BY <1>10, <2>1, <2>2 DEF ReadBack
<1>11. ASSUME NEW u \in Uploads, AbandonFileUpload(u) PROVE IInv'
  <2> DEFINE row == IF AbandonOK(u) THEN MarkDeleting(obj[u]) ELSE obj[u]
  <2>o. obj[u] \in Row
    BY DEF TypeOK, Row
  <2>r. row \in Row
    BY <2>o, RowFields
  <2>e. obj' = [obj EXCEPT ![u] = row]
    BY <1>11 DEF AbandonFileUpload, TypeOK
  <2>g. Goto(u, "over")
    BY <1>11 DEF AbandonFileUpload
  <2>c. row = obj[u] \/ (obj[u].status = "pending" /\ row.status = "deleting")
    <3>1. MarkDeleting(obj[u]).status = "deleting"
      BY <2>o, RowFields
    <3>2. CASE AbandonOK(u)
      BY <3>1, <3>2 DEF AbandonOK
    <3>3. CASE ~AbandonOK(u)
      BY <3>3 DEF AbandonOK
    <3> QED
      BY <3>2, <3>3
  <2>p. /\ up[u].stage \in {"unstored", "unwanted"} /\ txn # u
        /\ row = obj[u] \/ (obj[u].status = "pending" /\ row.status = "deleting")
        /\ UNCHANGED <<task, result, bytes, txn, pass>>
    BY <1>11, <2>c DEF AbandonFileUpload
  <2> HIDE DEF row
  <2>a. /\ obj' \in [Uploads -> Row]
        /\ \A v \in Uploads : obj'[v] = IF v = u THEN row ELSE obj[v]
        /\ up' \in [Uploads -> [stage: Stages, attempt: 0..MaxAttempts + 1]]
        /\ \A v \in Uploads : up'[v].stage = IF v = u THEN "over" ELSE up[v].stage
    BY <2>r, <2>e, <2>g, RowEdit, GotoMoves DEF Stages
  <2>1. TypeOK'
    BY <2>p, <2>a DEF TypeOK, Row, Stages
  <2>2. UploadInv'
    BY <2>p, <2>a DEF TypeOK, UploadInv, PassInv, ResultInv
  <2>3. PassInv'
    BY <2>p, <2>a DEF TypeOK, UploadInv, PassInv
  <2>4. TxnInv'
    BY <2>p, <2>a DEF TypeOK, UploadInv, PassInv, TxnInv, ResultInv
  <2>5. ResultInv'
    <3>1. \A r \in Results, v \in Uploads : result'[r] = v =>
             /\ ResultOf[v] = r
             /\ obj'[v].status \in {"ready", "deleting"}
             /\ task'.phase \in {"running", "ended"} => obj'[v].status = "ready"
      BY <2>p, <2>a DEF TypeOK, UploadInv, ResultInv
    <3>2. \A v \in Uploads : obj'[v].status = "ready" =>
             /\ v \in bytes'
             /\ up'[v].stage \notin {"idle", "checked", "prepared"}
             /\ task'.phase # "gone" => result'[ResultOf[v]] = v
      BY <2>p, <2>a DEF TypeOK, UploadInv, ResultInv
    <3> QED
      BY <3>1, <3>2 DEF ResultInv
  <2> QED
    BY <2>1, <2>2, <2>3, <2>4, <2>5
<1>12. ASSUME NEW u \in Uploads, UploadStops(u) PROVE IInv'
    BY <1>12, MovesOn DEF UploadStops
<1>13. ASSUME NewAttempt PROVE IInv'
  <2>1. TypeOK'
    BY <1>13 DEF TypeOK, NewAttempt, TaskUnlocked
  <2>2. UploadInv'
    BY <1>13 DEF TypeOK, UploadInv, PassInv, ResultInv, NewAttempt,
       TaskUnlocked
  <2>3. PassInv'
    BY <1>13 DEF TypeOK, UploadInv, PassInv, NewAttempt, TaskUnlocked
  <2>4. TxnInv'
    BY <1>13 DEF TypeOK, UploadInv, PassInv, TxnInv, ResultInv, NewAttempt,
       TaskUnlocked
  <2>5. ResultInv'
    BY <1>13 DEF TypeOK, UploadInv, PassInv, TxnInv, ResultInv, NewAttempt,
       TaskUnlocked
  <2> QED
    BY <2>1, <2>2, <2>3, <2>4, <2>5
<1>14. ASSUME TaskEnds PROVE IInv'
  <2>1. TypeOK'
    BY <1>14 DEF TypeOK, TaskEnds, TaskUnlocked
  <2>2. UploadInv'
    BY <1>14 DEF TypeOK, UploadInv, PassInv, ResultInv, TaskEnds,
       TaskUnlocked
  <2>3. PassInv'
    BY <1>14 DEF TypeOK, UploadInv, PassInv, TaskEnds, TaskUnlocked
  <2>4. TxnInv'
    BY <1>14 DEF TypeOK, UploadInv, PassInv, TxnInv, ResultInv, TaskEnds,
       TaskUnlocked
  <2>5. ResultInv'
    BY <1>14 DEF TypeOK, UploadInv, PassInv, TxnInv, ResultInv, TaskEnds,
       TaskUnlocked
  <2> QED
    BY <2>1, <2>2, <2>3, <2>4, <2>5
<1>15. ASSUME RetentionPasses PROVE IInv'
  <2>1. TypeOK'
    BY <1>15 DEF TypeOK, RetentionPasses
  <2>2. UploadInv'
    BY <1>15 DEF TypeOK, UploadInv, PassInv, ResultInv, RetentionPasses
  <2>3. PassInv'
    BY <1>15 DEF TypeOK, UploadInv, PassInv, RetentionPasses
  <2>4. TxnInv'
    BY <1>15 DEF TypeOK, UploadInv, PassInv, TxnInv, ResultInv,
       RetentionPasses
  <2>5. ResultInv'
    BY <1>15 DEF TypeOK, UploadInv, PassInv, TxnInv, ResultInv,
       RetentionPasses
  <2> QED
    BY <2>1, <2>2, <2>3, <2>4, <2>5
<1>16. ASSUME NEW batch \in SUBSET Uploads, Reconcile(batch) PROVE IInv'
  <2>p. /\ UNCHANGED <<bytes, up, txn, pass>>
        /\ \/ UNCHANGED <<task, result>>
           \/ /\ task' = [task EXCEPT !.phase = "gone"]
              /\ result' = [r \in Results |-> None]
              /\ task.phase = "retired" /\ txn = None
              /\ \A u \in Uploads : obj[u].status = "none"
    BY <1>16 DEF Reconcile, Deletable, TaskUnlocked
  <2>a. /\ obj' \in [Uploads -> Row]
        /\ \A u \in Uploads :
             \/ obj'[u] = obj[u]
             \/ /\ obj'[u].status = "deleting"
                /\ \/ obj[u].status = "pending" /\ obj[u].lease = "expired" /\ txn # u
                   \/ obj[u].status = "ready" /\ task.phase = "retired"
    BY <1>16, ReconcileRows DEF Reclaimable, Expired
  <2>1. TypeOK'
    BY <2>p, <2>a DEF TypeOK, Row, Stages
  <2>2. UploadInv'
    BY <2>p, <2>a DEF TypeOK, UploadInv, PassInv, ResultInv
  <2>3. PassInv'
    BY <2>p, <2>a DEF TypeOK, UploadInv, PassInv
  <2>4. TxnInv'
    BY <2>p, <2>a DEF TypeOK, UploadInv, PassInv, TxnInv, ResultInv
  <2>5. ResultInv'
    BY <2>p, <2>a DEF TypeOK, UploadInv, PassInv, TxnInv, ResultInv
  <2> QED
    BY <2>1, <2>2, <2>3, <2>4, <2>5
<1>17. ASSUME NEW p \in Replicas, NEW u \in Uploads, ClaimDeletion(p, u) PROVE IInv'
  <2>1. TypeOK'
    BY <1>17 DEF TypeOK, ClaimDeletion
  <2>2. UploadInv'
    BY <1>17 DEF TypeOK, UploadInv, PassInv, ResultInv, ClaimDeletion
  <2>3. PassInv'
    BY <1>17 DEF TypeOK, UploadInv, PassInv, ClaimDeletion
  <2>4. TxnInv'
    BY <1>17 DEF TypeOK, UploadInv, PassInv, TxnInv, ResultInv,
       ClaimDeletion
  <2>5. ResultInv'
    BY <1>17 DEF TypeOK, UploadInv, PassInv, TxnInv, ResultInv,
       ClaimDeletion
  <2> QED
    BY <2>1, <2>2, <2>3, <2>4, <2>5
<1>18. ASSUME NEW p \in Replicas, EraseBytes(p) PROVE IInv'
  <2>1. TypeOK'
    BY <1>18 DEF TypeOK, EraseBytes
  <2>2. UploadInv'
    BY <1>18 DEF TypeOK, UploadInv, PassInv, ResultInv, EraseBytes
  <2>3. PassInv'
    BY <1>18 DEF TypeOK, UploadInv, PassInv, EraseBytes
  <2>4. TxnInv'
    BY <1>18 DEF TypeOK, UploadInv, PassInv, TxnInv, ResultInv, EraseBytes
  <2>5. ResultInv'
    BY <1>18 DEF TypeOK, UploadInv, PassInv, TxnInv, ResultInv, EraseBytes
  <2> QED
    BY <2>1, <2>2, <2>3, <2>4, <2>5
<1>19. ASSUME NEW p \in Replicas, EraseFails(p) PROVE IInv'
  <2>1. TypeOK'
    BY <1>19 DEF TypeOK, EraseFails
  <2>2. UploadInv'
    BY <1>19 DEF TypeOK, UploadInv, PassInv, ResultInv, EraseFails
  <2>3. PassInv'
    BY <1>19 DEF TypeOK, UploadInv, PassInv, EraseFails
  <2>4. TxnInv'
    BY <1>19 DEF TypeOK, UploadInv, PassInv, TxnInv, ResultInv, EraseFails
  <2>5. ResultInv'
    BY <1>19 DEF TypeOK, UploadInv, PassInv, TxnInv, ResultInv, EraseFails
  <2> QED
    BY <2>1, <2>2, <2>3, <2>4, <2>5
<1>20. ASSUME NEW p \in Replicas, DeleteObjectRecord(p) PROVE IInv'
  <2>1. TypeOK'
    BY <1>20 DEF TypeOK, DeleteObjectRecord, HoldsObject, NoRow
  <2>2. UploadInv'
    BY <1>20 DEF TypeOK, UploadInv, PassInv, ResultInv, DeleteObjectRecord,
       HoldsObject, NoRow
  <2>3. PassInv'
    BY <1>20 DEF TypeOK, UploadInv, PassInv, DeleteObjectRecord,
       HoldsObject, NoRow
  <2>4. TxnInv'
    BY <1>20 DEF TypeOK, UploadInv, PassInv, TxnInv, ResultInv,
       DeleteObjectRecord, HoldsObject, NoRow
  <2>5. ResultInv'
    BY <1>20 DEF TypeOK, UploadInv, PassInv, TxnInv, ResultInv,
       DeleteObjectRecord, HoldsObject, NoRow
  <2> QED
    BY <2>1, <2>2, <2>3, <2>4, <2>5
<1>21. ASSUME NEW p \in Replicas, PassDies(p) PROVE IInv'
  <2>1. TypeOK'
    BY <1>21 DEF TypeOK, PassDies
  <2>2. UploadInv'
    BY <1>21 DEF TypeOK, UploadInv, PassInv, ResultInv, PassDies
  <2>3. PassInv'
    BY <1>21 DEF TypeOK, UploadInv, PassInv, PassDies
  <2>4. TxnInv'
    BY <1>21 DEF TypeOK, UploadInv, PassInv, TxnInv, ResultInv, PassDies
  <2>5. ResultInv'
    BY <1>21 DEF TypeOK, UploadInv, PassInv, TxnInv, ResultInv, PassDies
  <2> QED
    BY <2>1, <2>2, <2>3, <2>4, <2>5
<1>22. ASSUME NEW u \in Uploads, LeaseExpires(u) PROVE IInv'
  <2> DEFINE row == [obj[u] EXCEPT !.lease = "expired"]
  <2>o. obj[u] \in Row
    BY DEF TypeOK, Row
  <2>r. row \in Row
    BY <2>o, RowFields
  <2>e. obj' = [obj EXCEPT ![u] = row]
    BY <1>22 DEF LeaseExpires, TypeOK
  <2>p. /\ obj[u].status = "pending" => up[u].stage # "prepared"
        /\ row.status = obj[u].status
        /\ UNCHANGED <<task, result, bytes, up, txn, pass>>
    BY <1>22 DEF LeaseExpires, TypeOK
  <2> HIDE DEF row
  <2>a. /\ obj' \in [Uploads -> Row]
        /\ \A v \in Uploads : obj'[v] = IF v = u THEN row ELSE obj[v]
    BY <2>r, <2>e, RowEdit
  <2>1. TypeOK'
    BY <2>p, <2>a DEF TypeOK, Row, Stages
  <2>2. UploadInv'
    BY <2>p, <2>a DEF TypeOK, UploadInv, PassInv, ResultInv
  <2>3. PassInv'
    BY <2>p, <2>a DEF TypeOK, UploadInv, PassInv
  <2>4. TxnInv'
    BY <2>p, <2>a DEF TypeOK, UploadInv, PassInv, TxnInv, ResultInv
  <2>5. ResultInv'
    <3>1. \A r \in Results, v \in Uploads : result'[r] = v =>
             /\ ResultOf[v] = r
             /\ obj'[v].status \in {"ready", "deleting"}
             /\ task'.phase \in {"running", "ended"} => obj'[v].status = "ready"
      BY <2>p, <2>a DEF TypeOK, UploadInv, ResultInv
    <3>2. \A v \in Uploads : obj'[v].status = "ready" =>
             /\ v \in bytes'
             /\ up'[v].stage \notin {"idle", "checked", "prepared"}
             /\ task'.phase # "gone" => result'[ResultOf[v]] = v
      BY <2>p, <2>a DEF TypeOK, UploadInv, ResultInv
    <3> QED
      BY <3>1, <3>2 DEF ResultInv
  <2> QED
    BY <2>1, <2>2, <2>3, <2>4, <2>5
<1>23. ASSUME NEW u \in Uploads, BackoffEnds(u) PROVE IInv'
  <2> DEFINE row == [obj[u] EXCEPT !.backoff = "ready"]
  <2>o. obj[u] \in Row
    BY DEF TypeOK, Row
  <2>r. row \in Row
    BY <2>o, RowFields
  <2>e. obj' = [obj EXCEPT ![u] = row]
    BY <1>23 DEF BackoffEnds, TypeOK
  <2>p. /\ row.status = obj[u].status /\ row.lease = obj[u].lease
        /\ UNCHANGED <<task, result, bytes, up, txn, pass>>
    BY <1>23 DEF BackoffEnds, TypeOK
  <2> HIDE DEF row
  <2>a. /\ obj' \in [Uploads -> Row]
        /\ \A v \in Uploads : obj'[v] = IF v = u THEN row ELSE obj[v]
    BY <2>r, <2>e, RowEdit
  <2>1. TypeOK'
    BY <2>p, <2>a DEF TypeOK, Row, Stages
  <2>2. UploadInv'
    BY <2>p, <2>a DEF TypeOK, UploadInv, PassInv, ResultInv
  <2>3. PassInv'
    BY <2>p, <2>a DEF TypeOK, UploadInv, PassInv
  <2>4. TxnInv'
    BY <2>p, <2>a DEF TypeOK, UploadInv, PassInv, TxnInv, ResultInv
  <2>5. ResultInv'
    <3>1. \A r \in Results, v \in Uploads : result'[r] = v =>
             /\ ResultOf[v] = r
             /\ obj'[v].status \in {"ready", "deleting"}
             /\ task'.phase \in {"running", "ended"} => obj'[v].status = "ready"
      BY <2>p, <2>a DEF TypeOK, UploadInv, ResultInv
    <3>2. \A v \in Uploads : obj'[v].status = "ready" =>
             /\ v \in bytes'
             /\ up'[v].stage \notin {"idle", "checked", "prepared"}
             /\ task'.phase # "gone" => result'[ResultOf[v]] = v
      BY <2>p, <2>a DEF TypeOK, UploadInv, ResultInv
    <3> QED
      BY <3>1, <3>2 DEF ResultInv
  <2> QED
    BY <2>1, <2>2, <2>3, <2>4, <2>5
<1>24. CASE UNCHANGED vars
    BY <1>24 DEF vars, TypeOK, UploadInv, PassInv, TxnInv, ResultInv
<1> QED
    BY <1>1, <1>2, <1>3, <1>4, <1>5, <1>6, <1>7, <1>8, <1>9, <1>10, <1>11,
       <1>12, <1>13, <1>14, <1>15, <1>16, <1>17, <1>18, <1>19, <1>20, <1>21,
       <1>22, <1>23, <1>24
       DEF Next, Upload, Cleanup, PassStep

LEMMA InitIInv == Init => IInv
<1> SUFFICES ASSUME Init PROVE IInv
    OBVIOUS
<1> USE UploadsAssumption DEF Init, NoRow
<1>1. TypeOK
    BY DEF TypeOK
<1>2. UploadInv /\ TxnInv
    BY DEF UploadInv, TxnInv
<1>3. PassInv
    BY DEF PassInv
<1>4. ResultInv
    BY DEF ResultInv
<1> QED
    BY <1>1, <1>2, <1>3, <1>4 DEF IInv

\* The strengthening is inductive, so it holds of every reachable state.
LEMMA Inductive == Spec => []IInv
<1>1. IInv /\ [Next]_vars => IInv'
    BY Step
<1> QED
    BY InitIInv, <1>1, PTL DEF Spec

\* Type correctness of the uploads, their rows and the cleanup passes.
THEOREM ObjectTypeCorrect == Spec => []TypeOK
<1>1. IInv => TypeOK
    BY DEF IInv
<1> QED
    BY Inductive, <1>1, PTL

\* "A referenced object is never deleted": no sweep of Reconcile, cleanup pass
\* or abandoned upload of any replica takes a published file's row or bytes
\* before the task's retention ends.
THEOREM ReferencedKept == Spec => []ReferencedObjectKept
<1>1. IInv => ReferencedObjectKept
    BY UploadsAssumption DEF IInv, TypeOK, ResultInv, ReferencedObjectKept
<1> QED
    BY Inductive, <1>1, PTL

\* Bytes in object storage never outlive the agent_task_objects row by which a
\* cleanup pass finds them.
THEOREM NoOrphans == Spec => []NoOrphanBytes
<1>1. IInv => NoOrphanBytes
    BY DEF IInv, TypeOK, UploadInv, NoOrphanBytes
<1> QED
    BY Inductive, <1>1, PTL

\* Of the uploads that compete for one result only the published one has a
\* ready row.
THEOREM ReadyReferenced == Spec => []ReadyIsReferenced
<1>1. IInv => ReadyIsReferenced
    BY DEF IInv, ResultInv, ReadyIsReferenced, Ready
<1> QED
    BY Inductive, <1>1, PTL
=============================================================================
