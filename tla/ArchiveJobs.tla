---------------------------- MODULE ArchiveJobs ----------------------------
(* Disk archive jobs (pkg/archivejob, pkg/api/archives*.go,                  *)
(* internal_archives.go): one export of an existing agent's volume and one   *)
(* import that creates a new agent from the exported archive. The leader's   *)
(* worker drives each job in a goroutine of its own; the pod's upload, the   *)
(* import's create handler, the operator's cancel and delete and the agent   *)
(* controller act meanwhile. Every writer of a job row holds a copy of it    *)
(* and saves it under a version check.                                       *)
EXTENDS Naturals

CONSTANTS
    Uploads,         \* upload requests the export pod's PUT can reach us as
    MaxFaults,       \* bound: crashes, failed calls, lost pods, progress writes
    MaxCommands      \* bound: the operator's cancels, deletes and lifecycle verbs

ASSUME BoundsAssumption == MaxFaults \in Nat /\ MaxCommands \in Nat

Export == "export"
Import == "import"
Jobs == {Export, Import}

(* The goroutine of a job is named after it; the other two are handlers.    *)
Threads == Jobs \cup {"creator", "deleter"}
JobOf(th) == CASE th = "creator" -> Import [] th = "deleter" -> Export [] OTHER -> th

VARIABLES
    row,       \* the job rows
    thread,    \* where each goroutine or handler is, with its copy of its row
    up,        \* the upload handlers
    agent,     \* the Agent each job works on: the source, the new one
    pod,       \* archive pods: the export's, the restore's and the verify pod
    object,    \* whether the export's sealed object is stored
    volume,    \* the new agent's volume
    late,      \* active jobs past their deadline
    lapsed,    \* the archive's retention has passed
    asked,     \* what the operator asked for: the standing intent, verbs, deletion
    spent      \* faults and commands so far

vars == <<row, thread, up, agent, pod, object, volume, late, lapsed, asked, spent>>
cluster == <<agent, pod, volume>>
time == <<late, lapsed>>

Active == {"queued", "running"}
Ended == {"failed", "canceled"}
Terminal == Ended \cup {"completed", "expired"}
Rows == [state: {"none"} \cup Active \cup Terminal,
         step: {"", "pausing", "archiving", "verifying", "restoring", "starting"},
         finishing: {""} \cup Ended, prior: {"", "Running", "Stopped"},
         cancel: BOOLEAN, hold: BOOLEAN, paused: BOOLEAN, uid: BOOLEAN, started: BOOLEAN,
         claimed: BOOLEAN, uploaded: BOOLEAN, verifyStarted: BOOLEAN, verified: BOOLEAN,
         restored: BOOLEAN]
NoRow == [state |-> "none", step |-> "", finishing |-> "", prior |-> "", cancel |-> FALSE,
          hold |-> FALSE, paused |-> FALSE, uid |-> FALSE, started |-> FALSE, claimed |-> FALSE,
          uploaded |-> FALSE, verifyStarted |-> FALSE, verified |-> FALSE, restored |-> FALSE]

Phases == {"Creating", "Running", "Stopped", "Failed"}
NoAgent == [exists |-> FALSE, hold |-> FALSE, mark |-> FALSE, desired |-> "",
            phase |-> "Creating", pod |-> FALSE, building |-> FALSE]
Idle == [at |-> "idle", row |-> NoRow, fresh |-> FALSE, saw |-> NoAgent]

(* standingIntent: an empty desiredPhase means "keep doing what it is doing". *)
StandingIntent(a) ==
    IF a.desired # "" THEN a.desired ELSE IF a.phase = "Stopped" THEN "Stopped" ELSE "Running"

(* The source agent rests in one of the exportable phases. *)
Sources ==
    {a \in [exists: {TRUE}, hold: {FALSE}, mark: {FALSE}, desired: {"", "Running", "Stopped"},
            phase: Phases \ {"Creating"}, pod: BOOLEAN, building: {FALSE}] :
        /\ a.pod <=> a.phase = "Running"
        /\ a.phase = "Running" => a.desired # "Stopped"
        /\ a.phase = "Stopped" => a.desired = "Stopped"
        /\ a.phase = "Failed" => a.desired = "Running"}

(* Bound: a behaviour follows either the export of a live agent or the import *)
(* of an archive exported earlier, whose source agent has been deleted since. *)
OldExport == [NoRow EXCEPT !.state = "completed", !.uid = TRUE, !.started = TRUE,
                           !.claimed = TRUE, !.uploaded = TRUE, !.verifyStarted = TRUE,
                           !.verified = TRUE]

Init ==
    /\ \/ /\ row = [j \in Jobs |-> NoRow] /\ object = FALSE
          /\ agent \in {[j \in Jobs |-> IF j = Export THEN a ELSE NoAgent] : a \in Sources}
       \/ /\ row = [j \in Jobs |-> IF j = Export THEN OldExport ELSE NoRow] /\ object = TRUE
          /\ agent = [j \in Jobs |-> NoAgent]
    /\ thread = [th \in Threads |-> Idle]
    /\ up = [u \in Uploads |-> [at |-> "none", fresh |-> FALSE]]
    /\ pod = [p \in Jobs \cup {"verify"} |-> "none"]
    /\ volume = "none"
    /\ late = {} /\ lapsed = FALSE
    /\ asked = [intent |-> StandingIntent(agent[Export]), verb |-> "", deletion |-> FALSE,
                importing |-> object]
    /\ spent = [faults |-> 0, commands |-> 0]

Agents == [exists: BOOLEAN, hold: BOOLEAN, mark: BOOLEAN, desired: {"", "Running", "Stopped"},
           phase: Phases, pod: BOOLEAN, building: BOOLEAN]
Stages == {"idle", "step", "patch", "token", "launch", "launched", "free", "freed", "verified",
           "shredded", "clean", "letgo", "erase", "end", "create", "record", "abandon",
           "abandoning"}

TypeOK ==
    /\ row \in [Jobs -> Rows]
    /\ thread \in [Threads -> [at: Stages, row: Rows, fresh: BOOLEAN, saw: Agents]]
    /\ up \in [Uploads -> [at: {"none", "claim", "store", "record", "undo", "ok", "refused"},
                           fresh: BOOLEAN]]
    /\ agent \in [Jobs -> Agents]
    /\ pod \in [Jobs \cup {"verify"} -> {"none", "running", "writing", "succeeded", "failed"}]
    /\ object \in BOOLEAN /\ volume \in {"none", "empty", "partial", "full"}
    /\ late \subseteq Jobs /\ lapsed \in BOOLEAN
    /\ asked \in [intent: {"Running", "Stopped"}, verb: {"", "Running", "Stopped"},
                  deletion: BOOLEAN, importing: BOOLEAN]
    /\ spent \in [faults: 0..MaxFaults, commands: 0..MaxCommands]

Fault == spent.faults < MaxFaults /\ spent' = [spent EXCEPT !.faults = @ + 1]
Command == spent.commands < MaxCommands /\ spent' = [spent EXCEPT !.commands = @ + 1]

-----------------------------------------------------------------------------
(* The job store. A write succeeds only while nobody else has written since  *)
(* the writer read; it makes every other copy stale.                         *)

Outdated(j, but) ==
    [th \in Threads |-> IF th # but /\ JobOf(th) = j
                        THEN [thread[th] EXCEPT !.fresh = FALSE] ELSE thread[th]]
OutdatedUploads(j) ==
    IF j = Export THEN [u \in Uploads |-> [up[u] EXCEPT !.fresh = FALSE]] ELSE up

Moved(th, at, r) ==
    IF at = "idle" THEN Idle
    ELSE [thread[th] EXCEPT !.at = at, !.row = r,
                            !.saw = IF at = "patch" THEN agent[Export] ELSE NoAgent]
GoTo(th, at) == thread' = [thread EXCEPT ![th] = Moved(th, at, @.row)]

Update(th, r, next) ==
    /\ IF thread[th].fresh
       THEN /\ row' = [row EXCEPT ![JobOf(th)] = r]
            /\ thread' = [Outdated(JobOf(th), th) EXCEPT ![th] = Moved(th, next, r)]
            /\ up' = OutdatedUploads(JobOf(th))
            /\ late' = IF r.state \in Terminal THEN late \ {JobOf(th)} ELSE late
       ELSE GoTo(th, "idle") /\ UNCHANGED <<row, up, late>>
    /\ UNCHANGED <<lapsed, asked>>

(* finish, first save: the outcome the job is heading for. *)
Finish(th, outcome) == Update(th, [thread[th].row EXCEPT !.finishing = outcome], "clean")
Fail(th) == Finish(th, "failed")

(* A step that finds nothing to do yet, or fails once a time limit passed.  *)
WaitOrFail(th) ==
    \/ GoTo(th, "idle") /\ UNCHANGED <<row, up, lapsed, late, asked>>
    \/ Fail(th)

Proceed(th, at) == GoTo(th, at) /\ UNCHANGED <<row, up, lapsed, late, asked>>
WithRow(th, at, r) ==
    /\ thread' = [thread EXCEPT ![th] = Moved(th, at, r)]
    /\ UNCHANGED <<row, up, lapsed, late, asked>>

-----------------------------------------------------------------------------
(* What the steps do to the agent. *)

SetAgent(j, a) == agent' = [agent EXCEPT ![j] = a]

Paused(a, r) ==
    IF r.paused THEN [a EXCEPT !.hold = TRUE, !.mark = TRUE, !.desired = "Stopped"]
    ELSE [a EXCEPT !.hold = TRUE]

(* releaseAgent: the prior intent returns only while the job's own pause     *)
(* stands; an operator's verb clears the mark.                               *)
Released(a, r) ==
    IF ~r.hold \/ ~a.exists THEN a
    ELSE [a EXCEPT !.hold = FALSE, !.mark = FALSE,
                   !.desired = IF a.mark /\ r.paused /\ a.desired = "Stopped" /\ r.prior # ""
                               THEN r.prior ELSE @]
Freed(r) == [r EXCEPT !.hold = FALSE, !.paused = FALSE]

-----------------------------------------------------------------------------
(* The worker. *)

Referenced == row[Import].state \in Active

(* Faulty variant: completed archives are listed before their retention ends. *)
ListedEarly(j) ==
    \/ row[j].state \in Active
    \/ j = Export /\ row[j].state = "completed" /\ ~Referenced

(* ListActive, less a completed archive an import is reading.               *)
Listed(j) ==
    \/ row[j].state \in Active
    \/ j = Export /\ row[j].state = "completed" /\ lapsed /\ ~Referenced

(* Faulty variant: a job that was being cleaned up is not resumed. *)
DispatchUnresumed(j) ==
    /\ thread[j].at = "idle" /\ Listed(j) /\ row[j].finishing = ""
    /\ thread' = [thread EXCEPT ![j] = [Idle EXCEPT !.at = "step", !.row = row[j], !.fresh = TRUE]]
    /\ UNCHANGED <<row, up, cluster, object, time, asked, spent>>

Dispatch(j) ==
    /\ thread[j].at = "idle" /\ Listed(j)
    /\ thread' = [thread EXCEPT ![j] =
                    [Idle EXCEPT !.at = IF row[j].finishing # "" THEN "clean" ELSE "step",
                                 !.row = row[j], !.fresh = TRUE]]
    /\ UNCHANGED <<row, up, cluster, object, time, asked, spent>>

Shred(th) ==
    /\ thread[th].at = "step" /\ thread[th].row.state = "completed"
    /\ object' = FALSE
    /\ Proceed(th, "shredded")
    /\ UNCHANGED <<cluster, spent>>

Shredded(th) ==
    /\ thread[th].at = "shredded"
    /\ Update(th, [thread[th].row EXCEPT !.state = "expired"], "idle")
    /\ UNCHANGED <<cluster, object, spent>>

Stops(j, r) == (r.cancel /\ ~r.restored) \/ j \in late

CutShort(j) ==
    LET r == thread[j].row IN
    /\ thread[j].at = "step" /\ r.state \in Active /\ Stops(j, r)
    /\ Finish(j, IF r.cancel /\ ~r.restored THEN "canceled" ELSE "failed")
    /\ UNCHANGED <<cluster, object, spent>>

Stepping(j, state, step) ==
    LET r == thread[j].row IN
    thread[j].at = "step" /\ r.state = state /\ r.step = step /\ ~Stops(j, r)

AgentLost ==
    /\ \E s \in {"", "pausing", "archiving"} :
          Stepping(Export, "queued", s) \/ Stepping(Export, "running", s)
    /\ ~agent[Export].exists
    /\ Fail(Export)
    /\ UNCHANGED <<cluster, object, spent>>

Begun(r, a) ==
    [r EXCEPT !.state = "running", !.step = "pausing", !.hold = TRUE,
              !.prior = StandingIntent(a), !.paused = StandingIntent(a) # "Stopped" /\ a.pod]

(* Faulty variant: the row does not say that the hold may have been applied. *)
BeginExportUnrecorded ==
    LET a == agent[Export] IN
    /\ Stepping(Export, "queued", "") /\ a.exists /\ a.phase # "Creating"
    /\ Update(Export, [Begun(thread[Export].row, a) EXCEPT !.hold = FALSE], "patch")
    /\ UNCHANGED <<cluster, object, spent>>

(* The intent is saved before the agent is touched. A transient phase, or a  *)
(* pod that cannot be described, fails the job.                              *)
BeginExport ==
    LET a == agent[Export]
        begun == Begun(thread[Export].row, a)
    IN /\ Stepping(Export, "queued", "") /\ a.exists
       /\ \/ a.phase = "Creating" /\ Fail(Export) /\ UNCHANGED spent
          \/ a.phase # "Creating" /\ Update(Export, begun, "patch") /\ UNCHANGED spent
          \/ /\ a.phase # "Creating" /\ Fault
             /\ Update(Export, [begun EXCEPT !.paused = FALSE, !.finishing = "failed"], "clean")
       /\ UNCHANGED <<cluster, object>>

(* The hold, the paused mark and desiredPhase in one optimistic patch.      *)
PatchHold ==
    LET a == agent[Export] IN
    /\ thread[Export].at = "patch"
    /\ IF [a EXCEPT !.pod = FALSE, !.building = FALSE]
            = [thread[Export].saw EXCEPT !.pod = FALSE, !.building = FALSE]
       THEN SetAgent(Export, Paused(a, thread[Export].row))
       ELSE UNCHANGED agent
    /\ Proceed(Export, "idle")
    /\ UNCHANGED <<pod, volume, object, spent>>

ReapplyHold ==
    /\ Stepping(Export, "running", "pausing") /\ agent[Export].exists /\ ~agent[Export].hold
    /\ SetAgent(Export, Paused(agent[Export], thread[Export].row))
    /\ Proceed(Export, "idle")
    /\ UNCHANGED <<pod, volume, object, spent>>

WaitForPause ==
    /\ Stepping(Export, "running", "pausing") /\ agent[Export].exists /\ agent[Export].hold
    /\ \/ agent[Export].pod /\ WaitOrFail(Export) /\ UNCHANGED spent
       \/ /\ ~agent[Export].pod
          /\ Update(Export, [thread[Export].row EXCEPT !.step = "archiving"], "token")
          /\ UNCHANGED spent
       \/ ~agent[Export].pod /\ Fault /\ Fail(Export)
    /\ UNCHANGED <<cluster, object>>

(* createExportPod, createRestorePod, startVerifyPod: save the token's hash, *)
(* create the pod, then record that it exists.                               *)
PodFor(j) == IF thread[j].row.step = "verifying" THEN "verify" ELSE j

IssueToken(j) ==
    /\ thread[j].at = "token"
    /\ Update(j, thread[j].row, "launch")
    /\ UNCHANGED <<cluster, object, spent>>

CreateArchivePod(j) ==
    /\ thread[j].at = "launch"
    /\ \/ /\ pod' = [pod EXCEPT ![PodFor(j)] = IF @ = "none" THEN "running" ELSE @]
          /\ Proceed(j, "launched") /\ UNCHANGED spent
       \/ Fault /\ Fail(j) /\ UNCHANGED pod
    /\ UNCHANGED <<agent, volume, object>>

PodCreated(j) ==
    /\ thread[j].at = "launched"
    /\ Update(j, IF PodFor(j) = "verify" THEN [thread[j].row EXCEPT !.verifyStarted = TRUE]
                 ELSE [thread[j].row EXCEPT !.started = TRUE], "idle")
    /\ UNCHANGED <<cluster, object, spent>>

AfterUpload ==
    /\ pod' = [pod EXCEPT ![Export] = "none"]
    /\ Proceed(Export, "free")

WatchExportPod ==
    LET r == thread[Export].row IN
    /\ Stepping(Export, "running", "archiving") /\ agent[Export].exists
    /\ \/ pod[Export] \in {"none", "succeeded"} /\ r.uploaded /\ AfterUpload
       \/ /\ \/ /\ pod[Export] = "none" /\ ~r.uploaded
                /\ IF ~r.started /\ ~r.claimed THEN Proceed(Export, "token") ELSE WaitOrFail(Export)
             \/ pod[Export] = "succeeded" /\ ~r.uploaded /\ Fail(Export)
             \/ pod[Export] = "failed" /\ Fail(Export)
             \/ pod[Export] = "running" /\ WaitOrFail(Export)
          /\ UNCHANGED pod
    /\ UNCHANGED <<agent, volume, object, spent>>

(* releaseAgent of an export whose bytes are stored, or of a restored agent. *)
ReleaseAgent(j) ==
    /\ thread[j].at = "free"
    /\ SetAgent(j, Released(agent[j], thread[j].row))
    /\ WithRow(j, "freed", Freed(thread[j].row))
    /\ UNCHANGED <<pod, volume, object, spent>>

AgentReleased(j) ==
    /\ thread[j].at = "freed"
    /\ Update(j, IF j = Export THEN [thread[j].row EXCEPT !.step = "verifying"] ELSE thread[j].row,
              "idle")
    /\ UNCHANGED <<cluster, object, spent>>

NoPods(j) == [p \in DOMAIN pod |-> IF p = j \/ (j = Export /\ p = "verify") THEN "none" ELSE pod[p]]

VerifyStored ==
    LET r == thread[Export].row IN
    /\ Stepping(Export, "running", "verifying")
    /\ \/ r.verified /\ pod' = NoPods(Export) /\ Proceed(Export, "verified")
       \/ /\ ~r.verified
          /\ \/ /\ pod["verify"] = "none"
                /\ IF r.verifyStarted THEN WaitOrFail(Export) ELSE Proceed(Export, "token")
             \/ pod["verify"] \in {"succeeded", "failed"} /\ Fail(Export)
             \/ pod["verify"] = "running" /\ WaitOrFail(Export)
          /\ UNCHANGED pod
    /\ UNCHANGED <<agent, volume, object, spent>>

Verified ==
    /\ thread[Export].at = "verified"
    /\ Update(Export, [thread[Export].row EXCEPT !.state = "completed", !.step = ""], "idle")
    /\ UNCHANGED <<cluster, object, spent>>

-----------------------------------------------------------------------------
(* finish, after its first save: pods and token, the agent, the bytes, and   *)
(* only then the terminal state. Any thread may be doing this for its job.   *)

CleanupPods(th) ==
    /\ thread[th].at = "clean"
    /\ pod' = NoPods(JobOf(th))
    /\ Proceed(th, "letgo")
    /\ UNCHANGED <<agent, volume, object, spent>>

(* Faulty variant: an import that failed only releases its agent. *)
LetGoKept(th) ==
    LET j == JobOf(th) IN
    /\ thread[th].at = "letgo"
    /\ SetAgent(j, Released(agent[j], thread[th].row))
    /\ WithRow(th, "erase", Freed(thread[th].row))
    /\ UNCHANGED <<pod, volume, object, spent>>

(* releaseAgent, or discardImportDestination: an import that has not         *)
(* restored removes the agent it recorded, its volume and its Secrets.       *)
LetGo(th) ==
    LET j == JobOf(th)
        r == thread[th].row
    IN /\ thread[th].at = "letgo"
       /\ \/ /\ j = Export \/ r.restored
             /\ SetAgent(j, Released(agent[j], r)) /\ UNCHANGED volume
             /\ WithRow(th, "erase", Freed(r))
          \/ /\ j = Import /\ ~r.restored /\ r.uid
             /\ SetAgent(j, NoAgent) /\ volume' = "none"
             /\ WithRow(th, "erase", [r EXCEPT !.hold = FALSE])
          \/ /\ j = Import /\ ~r.restored /\ ~r.uid
             /\ Proceed(th, "erase") /\ UNCHANGED <<agent, volume>>
       /\ UNCHANGED <<pod, object, spent>>

EraseBytes(th) ==
    /\ thread[th].at = "erase"
    /\ object' = (object /\ JobOf(th) # Export)
    /\ Proceed(th, "end")
    /\ UNCHANGED <<cluster, spent>>

End(th) ==
    /\ thread[th].at = "end"
    /\ Update(th, [thread[th].row EXCEPT !.state = thread[th].row.finishing, !.finishing = ""],
              "idle")
    /\ UNCHANGED <<cluster, object, spent>>

-----------------------------------------------------------------------------
(* The import's steps. *)

(* An agent that carries the job's hold is the one its handler created.     *)
AdoptAgent ==
    /\ Stepping(Import, "queued", "") /\ ~thread[Import].row.uid
    /\ IF agent[Import].exists /\ agent[Import].hold
       THEN Update(Import, [thread[Import].row EXCEPT !.uid = TRUE], "idle")
       ELSE WaitOrFail(Import)
    /\ UNCHANGED <<cluster, object, spent>>

NewAgentLost ==
    /\ \/ Stepping(Import, "queued", "")
       \/ \E s \in {"restoring", "starting"} : Stepping(Import, "running", s)
    /\ thread[Import].row.uid /\ ~agent[Import].exists
    /\ WaitOrFail(Import)
    /\ UNCHANGED <<cluster, object, spent>>

(* A machine without a node is waited for; a claim that cannot be made       *)
(* fails the job.                                                            *)
BeginRestore ==
    /\ Stepping(Import, "queued", "") /\ thread[Import].row.uid /\ agent[Import].exists
    /\ \/ row[Export].state # "completed" /\ Fail(Import) /\ UNCHANGED <<volume, spent>>
       \/ row[Export].state = "completed" /\ Proceed(Import, "idle") /\ UNCHANGED <<volume, spent>>
       \/ row[Export].state = "completed" /\ Fault /\ Fail(Import) /\ UNCHANGED volume
       \/ /\ row[Export].state = "completed"
          /\ volume' = IF volume = "none" THEN "empty" ELSE volume
          /\ Update(Import, [thread[Import].row EXCEPT !.state = "running", !.step = "restoring"],
                    "token")
          /\ UNCHANGED spent
    /\ UNCHANGED <<agent, pod, object>>

WatchRestorePod ==
    LET r == thread[Import].row IN
    /\ Stepping(Import, "running", "restoring") /\ agent[Import].exists
    /\ \/ pod[Import] = "none" /\ IF r.started THEN WaitOrFail(Import) ELSE Proceed(Import, "token")
       \/ pod[Import] = "failed" /\ Fail(Import)
       \/ pod[Import] \in {"running", "writing"} /\ WaitOrFail(Import)
       \/ /\ pod[Import] = "succeeded"
          /\ Update(Import, [r EXCEPT !.restored = TRUE, !.step = "starting"], "idle")
    /\ UNCHANGED <<cluster, object, spent>>

WatchFirstBoot ==
    LET r == thread[Import].row IN
    /\ Stepping(Import, "running", "starting") /\ agent[Import].exists
    /\ \/ r.hold /\ pod' = NoPods(Import) /\ Proceed(Import, "free")
       \/ /\ ~r.hold
          /\ CASE agent[Import].phase = "Running" ->
                     Update(Import, [r EXCEPT !.state = "completed", !.step = ""], "idle")
               [] agent[Import].phase = "Failed" -> Fail(Import)
               [] OTHER -> WaitOrFail(Import)
          /\ UNCHANGED pod
    /\ UNCHANGED <<agent, volume, object, spent>>

-----------------------------------------------------------------------------
(* Requests. *)

StartExport ==
    /\ row[Export].state = "none"
    /\ agent[Export].exists /\ agent[Export].phase # "Creating" /\ ~agent[Export].hold
    /\ row' = [row EXCEPT ![Export].state = "queued", ![Export].uid = TRUE]
    /\ UNCHANGED <<thread, up, cluster, object, time, asked, spent>>

(* startImport reserves the job before it creates anything.                 *)
StartImport ==
    /\ asked.importing
    /\ row[Import].state = "none" /\ row[Export].state = "completed" /\ ~lapsed
    /\ row' = [row EXCEPT ![Import].state = "queued", ![Import].hold = TRUE]
    /\ thread' = [thread EXCEPT !["creator"] =
                    [Idle EXCEPT !.at = "create", !.row = row'[Import], !.fresh = TRUE]]
    /\ UNCHANGED <<up, cluster, object, time, asked, spent>>

(* createAgent births the agent with the hold. *)
CreateAgent ==
    LET t == thread["creator"] IN
    /\ t.at = "create"
    /\ \/ /\ SetAgent(Import, [NoAgent EXCEPT !.exists = TRUE, !.hold = TRUE,
                                             !.desired = "Running"])
          /\ WithRow("creator", "record", [t.row EXCEPT !.uid = TRUE])
          /\ UNCHANGED spent
       \/ Fault /\ Proceed("creator", "abandon") /\ UNCHANGED agent
    /\ UNCHANGED <<pod, volume, object>>

(* Faulty variant: the handler records its agent on whatever row it finds. *)
RecordAgentAnyway ==
    LET t == thread["creator"] IN
    /\ t.at = "record"
    /\ IF t.fresh THEN Update("creator", t.row, "idle")
       ELSE /\ thread' = [thread EXCEPT !["creator"].row = [row[Import] EXCEPT !.uid = TRUE],
                                        !["creator"].fresh = TRUE]
            /\ UNCHANGED <<row, up, time, asked>>
    /\ UNCHANGED <<cluster, object, spent>>

(* A conflict re-reads the row; a job that ended meanwhile is abandoned.    *)
RecordAgent ==
    LET t == thread["creator"]
        cur == row[Import]
    IN /\ t.at = "record"
       /\ IF t.fresh THEN Update("creator", t.row, "idle")
          ELSE /\ thread' = [thread EXCEPT !["creator"] =
                    IF cur.state \in Terminal \/ cur.finishing # "" \/ cur.cancel
                    THEN [@ EXCEPT !.at = "abandon"]
                    ELSE [@ EXCEPT !.row = [cur EXCEPT !.uid = TRUE], !.fresh = TRUE]]
               /\ UNCHANGED <<row, up, time, asked>>
       /\ UNCHANGED <<cluster, object, spent>>

Abandon ==
    LET t == thread["creator"]
        cur == [row[Import] EXCEPT !.uid = t.row.uid]
    IN /\ \/ /\ t.at = "abandon"
             /\ thread' = [thread EXCEPT !["creator"] =
                    [@ EXCEPT !.row = cur, !.fresh = TRUE,
                              !.at = IF cur.finishing # "" THEN "clean" ELSE "abandoning"]]
             /\ UNCHANGED <<row, up, time, asked>>
          \/ t.at = "abandoning" /\ Fail("creator")
       /\ UNCHANGED <<cluster, object, spent>>

(* Another writer's save, made on the current row. *)
WriteRow(j, r) ==
    /\ row' = [row EXCEPT ![j] = r]
    /\ thread' = Outdated(j, "")

RequestCancel(j) ==
    /\ row[j].state \in Active /\ ~row[j].cancel
    /\ WriteRow(j, [row[j] EXCEPT !.cancel = TRUE]) /\ up' = OutdatedUploads(j)
    /\ Command
    /\ UNCHANGED <<cluster, object, time, asked>>

DeleteArchive ==
    /\ thread["deleter"].at = "idle" /\ row[Export].state = "completed" /\ ~Referenced
    /\ thread' = [thread EXCEPT !["deleter"] =
                    [Idle EXCEPT !.at = "step", !.row = row[Export], !.fresh = TRUE]]
    /\ asked' = [asked EXCEPT !.deletion = TRUE]
    /\ Command
    /\ UNCHANGED <<row, up, cluster, object, time>>

(* setAgentDesiredPhase: any verb clears the paused mark; only Stop is        *)
(* accepted while a job holds the volume.                                     *)
SetDesiredPhase(j) ==
    /\ agent[j].exists
    /\ \E phase \in {"Running", "Stopped"} :
          /\ phase = "Stopped" \/ ~agent[j].hold
          /\ SetAgent(j, [agent[j] EXCEPT !.desired = phase, !.mark = FALSE])
          /\ asked' = [asked EXCEPT !.verb = IF j = Export THEN phase ELSE @]
    /\ Command
    /\ UNCHANGED <<row, thread, up, pod, volume, object, time>>

DeleteAgent(j) ==
    /\ agent[j].exists
    /\ SetAgent(j, NoAgent)
    /\ volume' = IF j = Import THEN "none" ELSE volume
    /\ Command
    /\ UNCHANGED <<row, thread, up, pod, object, time, asked>>

-----------------------------------------------------------------------------
(* The pods' endpoints. *)

Accepting(step) ==
    row[Export].state = "running" /\ row[Export].step = step
    /\ ~row[Export].cancel /\ row[Export].finishing = ""

Upload(u, at) == up' = [up EXCEPT ![u] = [at |-> at, fresh |-> at = "claim"]]

(* External: the pod sends its archive once; a second request is a fault.   *)
Sent(u) ==
    /\ up[u].at = "none" /\ pod[Export] = "running"
    /\ IF \A v \in Uploads : up[v].at = "none" THEN UNCHANGED spent ELSE Fault

(* receiveExport reads the row and refuses a second attempt.                *)
UploadArrives(u) ==
    /\ Sent(u)
    /\ Upload(u, IF Accepting("archiving") /\ ~row[Export].claimed /\ ~row[Export].uploaded
                 THEN "claim" ELSE "refused")
    /\ UNCHANGED <<row, thread, cluster, object, time, asked>>

ClaimUpload(u) ==
    /\ up[u].at = "claim"
    /\ IF up[u].fresh
       THEN /\ WriteRow(Export, [row[Export] EXCEPT !.claimed = TRUE])
            /\ up' = [OutdatedUploads(Export) EXCEPT ![u].at = "store"]
       ELSE Upload(u, "refused") /\ UNCHANGED <<row, thread>>
    /\ UNCHANGED <<cluster, object, time, asked, spent>>

(* A progress report rewrites the row of a job nobody is ending.            *)
ReportProgress(u) ==
    /\ up[u].at = "store" /\ ~row[Export].cancel /\ row[Export].finishing = ""
    /\ WriteRow(Export, row[Export]) /\ up' = OutdatedUploads(Export)
    /\ Fault
    /\ UNCHANGED <<cluster, object, time, asked>>

(* The stream ends when the pod is deleted or the upload aborted; bytes that *)
(* had all arrived may still be stored after that.                           *)
StoreSealed(u) ==
    /\ up[u].at = "store"
    /\ \/ object' = TRUE /\ Upload(u, "record") /\ UNCHANGED spent
       \/ /\ pod[Export] # "running" \/ row[Export].cancel
          /\ Upload(u, "undo") /\ UNCHANGED <<object, spent>>
       \/ Fault /\ Upload(u, "undo") /\ UNCHANGED object
    /\ UNCHANGED <<row, thread, cluster, time, asked>>

(* The record, retried on conflicts as long as the job waits for it. A       *)
(* failed call may have saved it.                                            *)
RecordUpload(u) ==
    LET waiting == /\ row[Export].state = "running"
                   /\ ~row[Export].cancel /\ row[Export].finishing = ""
    IN /\ up[u].at = "record"
       /\ \/ /\ waiting
             /\ WriteRow(Export, [row[Export] EXCEPT !.uploaded = TRUE])
             /\ \/ up' = [OutdatedUploads(Export) EXCEPT ![u].at = "ok"] /\ UNCHANGED spent
                \/ up' = [OutdatedUploads(Export) EXCEPT ![u].at = "undo"] /\ Fault
          \/ ~waiting /\ Upload(u, "undo") /\ UNCHANGED <<row, thread, spent>>
          \/ waiting /\ Fault /\ Upload(u, "undo") /\ UNCHANGED <<row, thread>>
       /\ UNCHANGED <<cluster, object, time, asked>>

UndoUpload(u) ==
    /\ up[u].at = "undo"
    /\ object' = FALSE /\ Upload(u, "refused")
    /\ UNCHANGED <<row, thread, cluster, time, asked, spent>>

(* The verify pod read the whole archive back; receiveSummary saves it on    *)
(* the row it has just read.                                                 *)
PostSummary ==
    /\ pod["verify"] = "running" /\ object /\ Accepting("verifying")
    /\ WriteRow(Export, [row[Export] EXCEPT !.verified = TRUE]) /\ up' = OutdatedUploads(Export)
    /\ pod' = [pod EXCEPT !["verify"] = "succeeded"]
    /\ UNCHANGED <<agent, volume, object, time, asked, spent>>

-----------------------------------------------------------------------------
(* kyber-disk-archive in its pods. *)

SetPod(p, s) == pod' = [pod EXCEPT ![p] = s]

(* runExport ends with the answer to its upload. *)
ExportPodExits ==
    /\ pod[Export] = "running"
    /\ \/ (\E u \in Uploads : up[u].at = "ok") /\ SetPod(Export, "succeeded")
       \/ /\ \E u \in Uploads : up[u].at = "refused"
          /\ \A u \in Uploads : up[u].at \in {"none", "refused"}
          /\ SetPod(Export, "failed")
    /\ UNCHANGED <<row, thread, up, agent, volume, object, time, asked, spent>>

VerifyPodFails ==
    /\ pod["verify"] = "running" /\ ~(object /\ Accepting("verifying"))
    /\ SetPod("verify", "failed")
    /\ UNCHANGED <<row, thread, up, agent, volume, object, time, asked, spent>>

(* serveRestoreReads serves a running restore from a completed export.      *)
Readable ==
    /\ row[Import].state = "running" /\ row[Import].step = "restoring"
    /\ ~row[Import].cancel /\ row[Import].finishing = ""
    /\ row[Export].state = "completed" /\ object

(* The restore pod refuses a volume that is not empty, and succeeds only     *)
(* after it has read the whole archive and checked the volume against it.    *)
RestorePodRuns ==
    /\ \/ /\ pod[Import] = "running"
          /\ IF volume = "empty" THEN SetPod(Import, "writing") /\ volume' = "partial"
             ELSE SetPod(Import, "failed") /\ UNCHANGED volume
       \/ /\ pod[Import] = "writing"
          /\ IF Readable THEN SetPod(Import, "succeeded") /\ volume' = "full"
             ELSE SetPod(Import, "failed") /\ UNCHANGED volume
    /\ UNCHANGED <<row, thread, up, agent, object, time, asked, spent>>

(* External: a pod is evicted or its node goes away. *)
PodDies(p) ==
    /\ pod[p] \in {"running", "writing"}
    /\ \E s \in {"failed", "none"} : SetPod(p, s)
    /\ Fault
    /\ UNCHANGED <<row, thread, up, agent, object, volume, time, asked>>

-----------------------------------------------------------------------------
(* The agent controller (AgentLifecycle), as far as the volume is concerned. *)
(* A reconcile reads the agent, checks the hold and creates the pod later.   *)

ReconcileStarts(j) ==
    LET a == agent[j] IN
    /\ a.exists /\ ~a.hold /\ ~a.pod /\ ~a.building /\ a.desired # "Stopped"
    /\ \/ a.phase \in {"Creating", "Running"}
       \/ a.phase = "Stopped" /\ a.desired = "Running"
    /\ SetAgent(j, [a EXCEPT !.building = TRUE])
    /\ UNCHANGED <<row, thread, up, pod, volume, object, time, asked, spent>>

CreatePod(j) ==
    /\ agent[j].building
    /\ SetAgent(j, [agent[j] EXCEPT !.building = FALSE, !.pod = TRUE, !.phase = "Creating"])
    /\ UNCHANGED <<row, thread, up, pod, volume, object, time, asked, spent>>

Boots(j) ==
    /\ agent[j].pod /\ agent[j].phase = "Creating"
    /\ \/ SetAgent(j, [agent[j] EXCEPT !.phase = "Running"]) /\ UNCHANGED spent
       \/ SetAgent(j, [agent[j] EXCEPT !.phase = "Failed", !.pod = FALSE]) /\ Fault
    /\ UNCHANGED <<row, thread, up, pod, volume, object, time, asked>>

StopPod(j) ==
    LET a == agent[j] IN
    /\ a.exists /\ a.desired = "Stopped" /\ ~a.building /\ (a.pod \/ a.phase # "Stopped")
    /\ ~(a.hold /\ a.phase = "Creating")
    /\ SetAgent(j, [a EXCEPT !.pod = FALSE, !.phase = "Stopped"])
    /\ UNCHANGED <<row, thread, up, pod, volume, object, time, asked, spent>>

AgentPodDies(j) ==
    /\ agent[j].pod
    /\ SetAgent(j, [agent[j] EXCEPT !.pod = FALSE])
    /\ Fault
    /\ UNCHANGED <<row, thread, up, pod, volume, object, time, asked>>

-----------------------------------------------------------------------------
(* Time and crashes. *)

DeadlinePasses(j) ==
    /\ row[j].state \in (IF j = Import THEN Active ELSE {"running"})
    /\ late' = late \cup {j}
    /\ UNCHANGED <<row, thread, up, cluster, object, lapsed, asked, spent>>

RetentionPasses ==
    /\ row[Export].state = "completed" /\ lapsed' = TRUE
    /\ UNCHANGED <<row, thread, up, cluster, object, late, asked, spent>>

(* The process of a goroutine or handler dies, or a call of it fails.       *)
Crash(th) ==
    /\ thread[th].at # "idle"
    /\ GoTo(th, "idle")
    /\ Fault
    /\ UNCHANGED <<row, up, cluster, object, time, asked>>

UploadCrashes(u) ==
    /\ up[u].at \in {"claim", "store", "record", "undo"}
    /\ Upload(u, "refused")
    /\ Fault
    /\ UNCHANGED <<row, thread, cluster, object, time, asked>>

-----------------------------------------------------------------------------
ExportStep ==
    \/ AgentLost \/ BeginExport \/ PatchHold \/ ReapplyHold \/ WaitForPause \/ WatchExportPod
    \/ VerifyStored \/ Verified \/ Shred(Export) \/ Shredded(Export)

ImportStep ==
    AdoptAgent \/ NewAgentLost \/ BeginRestore \/ WatchRestorePod \/ WatchFirstBoot

FinishStep(th) == CleanupPods(th) \/ LetGo(th) \/ EraseBytes(th) \/ End(th)

WorkerStep(j) ==
    \/ Dispatch(j) \/ CutShort(j) \/ IssueToken(j) \/ CreateArchivePod(j) \/ PodCreated(j)
    \/ ReleaseAgent(j) \/ AgentReleased(j) \/ FinishStep(j)
    \/ (j = Export /\ ExportStep) \/ (j = Import /\ ImportStep)

HandlerStep ==
    \/ CreateAgent \/ RecordAgent \/ Abandon \/ FinishStep("creator")
    \/ Shred("deleter") \/ Shredded("deleter")

UploadStep(u) ==
    \/ UploadArrives(u) \/ ClaimUpload(u) \/ ReportProgress(u) \/ StoreSealed(u)
    \/ RecordUpload(u) \/ UndoUpload(u) \/ UploadCrashes(u)

Operator == \/ StartExport \/ StartImport \/ DeleteArchive
            \/ \E j \in Jobs : RequestCancel(j) \/ SetDesiredPhase(j) \/ DeleteAgent(j)

Controller(j) == ReconcileStarts(j) \/ CreatePod(j) \/ Boots(j) \/ StopPod(j) \/ AgentPodDies(j)

Next ==
    \/ \E j \in Jobs : WorkerStep(j) \/ Controller(j) \/ DeadlinePasses(j)
    \/ HandlerStep
    \/ Operator
    \/ \E u \in Uploads : UploadStep(u)
    \/ PostSummary \/ ExportPodExits \/ VerifyPodFails \/ RestorePodRuns \/ RetentionPasses
    \/ \E p \in DOMAIN pod : PodDies(p)
    \/ \E th \in Threads : Crash(th)

Spec == Init /\ [][Next]_vars

(* A leader is always elected again and ticks, and deadlines pass; pods,     *)
(* uploads, handlers and the agent controller may do nothing.                *)
FairSpec ==
    Spec /\ \A j \in Jobs : WF_vars(WorkerStep(j)) /\ WF_vars(DeadlinePasses(j))

-----------------------------------------------------------------------------
(* Properties. *)

(* An export that no longer needs the volume has given its agent back: no     *)
(* hold and no paused mark are left, and unless the operator used a verb the  *)
(* agent is meant to do what it was doing before (beginExport, releaseAgent,  *)
(* finish), whatever step a crash or a cancel interrupted.                    *)
AgentGivenBack ==
    LET r == row[Export] IN
    (r.state \in Terminal \/ r.step = "verifying") /\ agent[Export].exists =>
        /\ ~agent[Export].hold /\ ~agent[Export].mark
        /\ asked.verb # "" \/ StandingIntent(agent[Export]) = asked.intent

(* A completed export keeps its bytes until its retention lapses or its       *)
(* deletion is asked for: as long as there was at most one fault, no failing  *)
(* or late upload removes them (receiveExport, finish, shred).                *)
ArchiveKept ==
    row[Export].state = "completed" /\ ~object => lapsed \/ asked.deletion

(* The agent of an import runs only on a volume that was restored in full     *)
(* (the hold of createAgent, watchRestorePod, watchFirstBoot,                 *)
(* discardImportDestination).                                                 *)
BootsOnlyRestored == agent[Import].pod => volume = "full"

(* An import that ended before it restored its volume, and knew its agent,    *)
(* leaves neither agent nor volume behind (discardImportDestination).         *)
DiscardComplete ==
    LET r == row[Import] IN
    r.state \in Ended /\ r.finishing = "" /\ r.uid /\ ~r.restored =>
        ~agent[Import].exists /\ volume = "none"

(* Every job ends, whatever its pods, handlers and the operator do: cleanup   *)
(* that was interrupted is resumed (finish, advance, the deadlines).          *)
EveryJobEnds ==
    \A j \in Jobs : row[j].state \in Active ~> row[j].state \in Terminal

(* "With no pod the volume is already quiescent and the hold alone keeps it   *)
(* so" (archives.go:483-484): no agent pod runs while the export pod reads.   *)
VolumeQuiescent == pod[Export] = "running" => ~agent[Export].pod

(* "Terminal states never change again except Completed to Expired"           *)
(* (archivejob/job.go:31-32).                                                 *)
TerminalStays ==
    [][\A j \in Jobs : row[j].state \in Terminal =>
          row'[j].state \in {row[j].state} \cup
             (IF row[j].state = "completed" THEN {"expired"} ELSE {})]_vars

(* "An operator who changed desiredPhase during the export keeps their newer  *)
(* intent" (archives.go:779-780).                                             *)
OperatorChoiceKept ==
    [][asked.verb = "Stopped" /\ agent[Export].desired = "Stopped" =>
          agent'[Export].desired = "Stopped" \/ spent'.commands > spent.commands]_vars
=============================================================================
