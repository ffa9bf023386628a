------------------------- MODULE ArchiveJobsProofs -------------------------
(***************************************************************************)
(* Proofs about ArchiveJobs, for any uploads and any number of faults and  *)
(* commands: its types, that an export gives its agent back, that a new    *)
(* agent boots only on a restored volume, and that a failed import leaves  *)
(* nothing behind; and that a completed archive keeps its bytes as long as *)
(* there has been at most one fault.                                       *)
(*                                                                         *)
(* The two jobs share their threads' code and no state that matters here,  *)
(* so the invariant is one half for each (ExportInv, ImportInv), and a step *)
(* of one job leaves the other half alone.  Both say what a thread's copy  *)
(* of the row is good for although it may be stale.  Nobody but its        *)
(* goroutine moves an export from step to step, so its copy is right about *)
(* the step and about the hold until the agent was released (ExportCopies), *)
(* and the row tells whether the agent may be held (HoldInv).  An import's *)
(* row is written by its goroutine and its create handler, and a stale copy *)
(* of one is wrong about nearly everything; but what it knows of the agent *)
(* and of the restored volume stays true (VolumeInv), and once the row is  *)
(* closing no copy can open it again (DiscardInv).                         *)
(* The bytes depend on a few fields of the export's row and on its uploads, *)
(* so they have an invariant of their own, on top of the first (BytesInv). *)
(***************************************************************************)
EXTENDS ArchiveJobs, TLAPS

Finishing == {"clean", "letgo", "erase", "end"}
\* Stages of a thread that has released or discarded its agent.
Late == {"freed", "erase", "end"}

-----------------------------------------------------------------------------
(* The export.                                                             *)

(* What its goroutine knows of its copy r in stage at.                     *)
ExportStage(at, r) ==
    /\ at \in {"idle", "step", "patch", "token", "launch", "launched", "free", "freed",
               "verified", "shredded"} \cup Finishing
    /\ at = "patch" => r.state = "running" /\ r.step = "pausing"
    /\ at \in {"token", "launch", "launched"} =>
          r.state = "running" /\ r.step \in {"archiving", "verifying"}
    /\ at \in {"free", "freed"} => r.state = "running" /\ r.step = "archiving"
    /\ at = "verified" => r.state = "running" /\ r.step = "verifying"
    /\ at = "shredded" => r.state = "completed"
    /\ at = "step" => r.state \in Active \cup {"completed"}
    /\ IF at \in Finishing THEN r.state \in Active /\ r.finishing # ""
       ELSE at = "idle" \/ r.finishing = ""
    /\ at \in Late => ~r.hold

DeleterStage(at, r) ==
    /\ at \in {"idle", "step", "shredded"}
    /\ at # "idle" => r.state = "completed" /\ r.finishing = ""

SameStep(r, s) == r.state = s.state /\ r.step = s.step /\ r.prior = s.prior
SameHold(r, s) == r.hold = s.hold /\ r.paused = s.paused

(* The goroutine's copy of an active row is right about its step, and about *)
(* the hold until the agent was released.  A copy of a completed row is     *)
(* right altogether while it can be saved.                                  *)
ExportCopies ==
    /\ LET t == thread[Export] IN
       t.row.state \in Active => /\ SameStep(t.row, row[Export])
                                 /\ t.at \notin Late => SameHold(t.row, row[Export])
    /\ \A th \in {Export, "deleter"} :
          thread[th].fresh /\ thread[th].row.state = "completed" => thread[th].row = row[Export]

GivenBack ==
    agent[Export].exists =>
        /\ ~agent[Export].hold /\ ~agent[Export].mark
        /\ asked.verb # "" \/ StandingIntent(agent[Export]) = asked.intent

(* While row r holds the agent it knows how to give it back. *)
Held(r) ==
    LET a == agent[Export] IN
    a.exists =>
        /\ a.mark => r.paused /\ a.desired = "Stopped"
        /\ asked.verb = "" => /\ r.prior = asked.intent
                              /\ ~a.mark => StandingIntent(a) = asked.intent

(* The export's row says whether its agent is held. *)
HoldOK(r) ==
    /\ r.state \in Terminal \cup {"none", "queued"} \/ r.step = "verifying" => ~r.hold
    /\ r.state = "running" /\ r.step = "pausing" => r.hold
    /\ IF r.hold THEN Held(r) ELSE GivenBack
    /\ r.finishing # "" => r.state \in Active

HoldInv ==
    /\ HoldOK(row[Export])
    /\ thread[Export].at \in Late => GivenBack
    /\ agent[Export].desired = "" => agent[Export].phase # "Stopped"

ExportInv ==
    /\ ExportStage(thread[Export].at, thread[Export].row)
    /\ DeleterStage(thread["deleter"].at, thread["deleter"].row)
    /\ ExportCopies
    /\ HoldInv

-----------------------------------------------------------------------------
(* The import.                                                             *)

Importers == {Import, "creator"}

(* A row knows its agent once it has begun to restore it. *)
CopyOK(r) ==
    /\ r.step # "" \/ r.state = "running" \/ r.restored => r.uid
    /\ r.step = "starting" => r.restored

(* What its goroutine and its create handler know of their copies. *)
WorkerStage(at, r) ==
    /\ at \in {"idle", "step", "token", "launch", "launched", "free", "freed"} \cup Finishing
    /\ at \in {"token", "launch", "launched", "free", "freed"} => r.state = "running"
    /\ at \in {"free", "freed"} => r.restored
    /\ at = "step" => r.state \in Active
    /\ IF at \in Finishing THEN r.finishing # "" ELSE at = "idle" \/ r.finishing = ""

CreatorStage(at, r) ==
    /\ at \in {"idle", "create", "record", "abandon", "abandoning"} \cup Finishing
    /\ at \in {"create", "record"} => r.state \in Active /\ r.finishing = ""
    /\ at = "record" => r.uid
    /\ at \in Finishing => r.finishing # ""

ImportStage(th, at, r) ==
    /\ IF th = Import THEN WorkerStage(at, r) ELSE CreatorStage(at, r)
    /\ CopyOK(r)

(* Nothing of an import exists before its handler creates the agent. *)
Uncreated ==
    /\ agent[Import] = NoAgent /\ volume = "none" /\ pod[Import] = "none"
    /\ ~row[Import].uid /\ \A th \in Importers : ~thread[th].row.uid
Early ==
    \/ row[Import].state = "none" \/ thread["creator"].at = "create"
    \/ thread["creator"].at = "abandon" /\ ~thread["creator"].row.uid

(* Nobody is at work on an import that was not asked for. *)
Unstarted ==
    row[Import].state = "none" =>
        /\ row[Import].finishing = ""
        /\ \A th \in Importers : thread[th].at = "idle" /\ ~thread[th].fresh

(* Whoever takes the volume for restored is right. *)
Restored ==
    \/ ~agent[Import].hold \/ agent[Import].pod \/ agent[Import].building
    \/ pod[Import] = "succeeded"
    \/ row[Import].restored \/ \E th \in Importers : thread[th].row.restored

VolumeInv ==
    /\ Early => Uncreated
    /\ ~agent[Import].exists => ~agent[Import].pod /\ ~agent[Import].building
    /\ agent[Import].exists /\ Restored => volume = "full"
    /\ CopyOK(row[Import])

Gone == ~agent[Import].exists /\ volume = "none"
Closing(r) == r.finishing # "" \/ r.state \in Ended
Discarded(r) == r.uid /\ ~r.restored => Gone

DiscardInv ==
    /\ \A th \in Importers :
          LET t == thread[th] IN
          /\ t.fresh => t.row.state = row[Import].state /\ t.row.finishing = row[Import].finishing
          /\ t.at \in Finishing => Closing(row[Import])
          /\ t.at \in {"erase", "end"} => Discarded(t.row)
    /\ row[Import].state \in Ended /\ row[Import].finishing = "" => Discarded(row[Import])

ImportInv ==
    /\ \A th \in Importers : ImportStage(th, thread[th].at, thread[th].row)
    /\ Unstarted
    /\ VolumeInv
    /\ DiscardInv

IInv == TypeOK /\ ExportInv /\ ImportInv

-----------------------------------------------------------------------------
(* Rows.                                                                   *)

SameImport(r, s) == r.uid = s.uid /\ r.restored = s.restored

\* What the steps' changes of a row leave alone.  First those that no stage
\* and no invariant tells apart.
LEMMA Marks ==
    ASSUME NEW r \in Rows, NEW s,
           \/ s = [r EXCEPT !.cancel = TRUE] \/ s = [r EXCEPT !.started = TRUE]
           \/ s = [r EXCEPT !.claimed = TRUE] \/ s = [r EXCEPT !.uploaded = TRUE]
           \/ s = [r EXCEPT !.verifyStarted = TRUE] \/ s = [r EXCEPT !.verified = TRUE]
           \/ s = r
    PROVE  /\ s \in Rows
           /\ SameStep(s, r) /\ SameHold(s, r) /\ SameImport(s, r) /\ s.finishing = r.finishing
BY DEF Rows, SameStep, SameHold, SameImport

LEMMA FinishRow ==
    ASSUME NEW r \in Rows, NEW o \in Ended
    PROVE  LET s == [r EXCEPT !.finishing = o] IN
           /\ s \in Rows /\ s.finishing = o
           /\ SameStep(s, r) /\ SameHold(s, r) /\ SameImport(s, r)
BY DEF Rows, SameStep, SameHold, SameImport

\* The second save of finish.
LEMMA EndRow ==
    ASSUME NEW r \in Rows, r.finishing # ""
    PROVE  LET s == [r EXCEPT !.state = r.finishing, !.finishing = ""] IN
           /\ s \in Rows /\ s.state \in Ended /\ s.finishing = "" /\ s.step = r.step
           /\ s.prior = r.prior /\ SameHold(s, r) /\ SameImport(s, r)
BY DEF Rows, SameHold, SameImport, Ended, Active, Terminal

LEMMA Intent ==
    ASSUME NEW a \in Agents
    PROVE  StandingIntent(a) \in {"Running", "Stopped"}
BY DEF StandingIntent, Agents

LEMMA BegunRow ==
    ASSUME NEW r \in Rows, NEW a \in Agents
    PROVE  LET s == Begun(r, a) IN
           /\ s \in Rows /\ s.state = "running" /\ s.step = "pausing" /\ s.hold
           /\ s.prior = StandingIntent(a) /\ s.finishing = r.finishing
<1>1. (StandingIntent(a) # "Stopped" /\ a.pod) \in BOOLEAN
  OBVIOUS
<1>2. PICK i \in {"Running", "Stopped"} : i = StandingIntent(a)
  BY Intent
<1>3. PICK p \in BOOLEAN : p = (StandingIntent(a) # "Stopped" /\ a.pod)
  BY <1>1
<1>. DEFINE s == [r EXCEPT !.state = "running", !.step = "pausing", !.hold = TRUE, !.prior = i,
                           !.paused = p]
<1>4. Begun(r, a) = s
  BY <1>2, <1>3 DEF Begun
<1>5. "running" \in {"none"} \cup Active \cup Terminal
  BY DEF Active
<1>6. /\ s \in Rows /\ s.state = "running" /\ s.step = "pausing" /\ s.hold
      /\ s.prior = i /\ s.finishing = r.finishing
  BY <1>5 DEF Rows
<1>. HIDE DEF s
<1>. QED
  BY <1>2, <1>4, <1>6

\* beginExport that fails on its pod keeps the hold it recorded.
LEMMA BegunInVain ==
    ASSUME NEW r \in Rows
    PROVE  LET s == [r EXCEPT !.paused = FALSE, !.finishing = "failed"] IN
           /\ s \in Rows /\ s.state = r.state /\ s.step = r.step /\ s.hold = r.hold
           /\ s.prior = r.prior /\ s.finishing = "failed"
BY DEF Rows, Ended

LEMMA FreedRow ==
    ASSUME NEW r \in Rows
    PROVE  /\ Freed(r) \in Rows /\ ~Freed(r).hold /\ SameStep(Freed(r), r)
           /\ SameImport(Freed(r), r) /\ Freed(r).finishing = r.finishing
           /\ LET s == [r EXCEPT !.hold = FALSE] IN
              /\ s \in Rows /\ ~s.hold /\ SameStep(s, r) /\ SameImport(s, r)
              /\ s.finishing = r.finishing
BY DEF Rows, Freed, SameStep, SameImport

LEMMA StepRow ==
    ASSUME NEW r \in Rows, NEW x \in {"archiving", "verifying"}
    PROVE  LET s == [r EXCEPT !.step = x] IN
           /\ s \in Rows /\ s.step = x /\ s.state = r.state /\ s.prior = r.prior
           /\ SameHold(s, r) /\ s.finishing = r.finishing
BY DEF Rows, SameHold

LEMMA StateRow ==
    ASSUME NEW r \in Rows
    PROVE  /\ LET s == [r EXCEPT !.state = "completed", !.step = ""] IN
              /\ s \in Rows /\ s.state = "completed" /\ s.step = "" /\ s.prior = r.prior
              /\ SameHold(s, r) /\ SameImport(s, r) /\ s.finishing = r.finishing
           /\ LET s == [r EXCEPT !.state = "expired"] IN
              /\ s \in Rows /\ s.state = "expired" /\ s.step = r.step
              /\ s.hold = r.hold /\ s.finishing = r.finishing
           /\ LET s == [r EXCEPT !.state = "running", !.step = "restoring"] IN
              /\ s \in Rows /\ s.state = "running" /\ s.step = "restoring"
              /\ SameImport(s, r) /\ s.finishing = r.finishing
BY DEF Rows, SameHold, SameImport, Active, Terminal

LEMMA ImportRow ==
    ASSUME NEW r \in Rows, NEW b \in BOOLEAN
    PROVE  /\ LET s == [r EXCEPT !.uid = b] IN
              /\ s \in Rows /\ s.uid = b /\ s.restored = r.restored
              /\ s.state = r.state /\ s.step = r.step /\ s.finishing = r.finishing
           /\ LET s == [r EXCEPT !.restored = TRUE, !.step = "starting"] IN
              /\ s \in Rows /\ s.restored /\ s.step = "starting" /\ s.uid = r.uid
              /\ s.state = r.state /\ s.finishing = r.finishing
BY DEF Rows

LEMMA NoRowFields ==
    /\ NoRow \in Rows /\ NoRow.state = "none" /\ NoRow.step = "" /\ NoRow.finishing = ""
    /\ ~NoRow.hold /\ ~NoRow.uid /\ ~NoRow.restored
    /\ CopyOK(NoRow)
BY DEF NoRow, Rows, CopyOK, Active

-----------------------------------------------------------------------------
(* Threads and saves.                                                      *)

LEMMA Names ==
    /\ Export # Import /\ Export \in Jobs /\ Import \in Jobs
    /\ JobOf(Export) = Export /\ JobOf(Import) = Import
    /\ JobOf("creator") = Import /\ JobOf("deleter") = Export
    /\ Threads = {Export, Import, "creator", "deleter"}
    /\ Importers = {Import, "creator"}
    /\ Export \notin Importers /\ "deleter" \notin Importers /\ Import # "creator"
    /\ Import # "deleter" /\ Export # "creator" /\ Export # "deleter"
BY DEF Export, Import, Jobs, Threads, JobOf, Importers

LEMMA NoAgentFields ==
    /\ NoAgent \in Agents /\ ~NoAgent.exists /\ ~NoAgent.pod /\ ~NoAgent.building
    /\ NoAgent.desired = "" /\ NoAgent.phase = "Creating" /\ ~NoAgent.hold
BY DEF NoAgent, Agents, Phases

Copies == [at: Stages, row: Rows, fresh: BOOLEAN, saw: Agents]

LEMMA IdleFields ==
    /\ Idle \in Copies /\ Idle.at = "idle" /\ Idle.row = NoRow /\ ~Idle.fresh
BY NoRowFields, NoAgentFields DEF Idle, Copies, Stages

(* A thread stays where it is; what it can still save is as it was. *)
Kept(th) ==
    /\ thread'[th].at = thread[th].at /\ thread'[th].row = thread[th].row
    /\ thread'[th].fresh => thread[th].fresh /\ row'[JobOf(th)] = row[JobOf(th)]

(* A thread comes to stage at with copy r; an idle one forgets its copy. *)
Comes(th, at, r) ==
    /\ thread'[th].at = at
    /\ thread'[th].row = IF at = "idle" THEN NoRow ELSE r
    /\ thread'[th].fresh => at # "idle" /\ thread[th].fresh

LEMMA MovedCopy ==
    ASSUME TypeOK, NEW th \in Threads, NEW at \in Stages, NEW r \in Rows
    PROVE  /\ Moved(th, at, r) \in Copies
           /\ Moved(th, at, r).at = at
           /\ Moved(th, at, r).row = IF at = "idle" THEN NoRow ELSE r
           /\ Moved(th, at, r).fresh => at # "idle" /\ thread[th].fresh
<1>1. thread[th] \in Copies /\ agent[Export] \in Agents
  BY Names DEF TypeOK, Copies
<1>. DEFINE w == IF at = "patch" THEN agent[Export] ELSE NoAgent
<1>2. w \in Agents
  BY <1>1, NoAgentFields
<1>3. CASE at = "idle"
  BY <1>3, IdleFields DEF Moved
<1>4. CASE at # "idle"
  <2>1. Moved(th, at, r) = [thread[th] EXCEPT !.at = at, !.row = r, !.saw = w]
    BY <1>4 DEF Moved
  <2>. HIDE DEF w
  <2>2. /\ Moved(th, at, r) \in Copies
        /\ Moved(th, at, r).at = at /\ Moved(th, at, r).row = r
        /\ Moved(th, at, r).fresh = thread[th].fresh
    BY <1>1, <1>2, <2>1 DEF Copies
  <2>. QED
    BY <1>4, <2>2
<1>. QED
  BY <1>3, <1>4

\* A thread that only moves on, with its copy or with a new one.
LEMMA Moves ==
    ASSUME TypeOK, NEW th \in Threads, NEW at \in Stages, NEW r \in Rows,
           thread' = [thread EXCEPT ![th] = Moved(th, at, r)], row' = row
    PROVE  /\ thread' \in [Threads -> Copies]
           /\ Comes(th, at, r)
           /\ \A t \in Threads \ {th} : Kept(t)
<1>1. thread \in [Threads -> Copies]
  BY DEF TypeOK, Copies
<1>2. thread'[th] = Moved(th, at, r) /\ \A t \in Threads \ {th} : thread'[t] = thread[t]
  BY <1>1
<1>3. thread' \in [Threads -> Copies]
  BY <1>1, MovedCopy
<1>. QED
  BY <1>2, <1>3, MovedCopy DEF Comes, Kept

\* Only th changes: GoTo keeps its copy.
LEMMA GoesTo ==
    ASSUME TypeOK, NEW th \in Threads, NEW at \in Stages, GoTo(th, at), row' = row
    PROVE  /\ thread' \in [Threads -> Copies]
           /\ Comes(th, at, thread[th].row)
           /\ \A t \in Threads \ {th} : Kept(t)
<1>1. thread[th].row \in Rows /\ thread \in [Threads -> Copies]
  BY DEF TypeOK, Copies
<1>2. thread' = [thread EXCEPT ![th] = Moved(th, at, thread[th].row)]
  BY <1>1 DEF GoTo
<1>. QED
  BY <1>1, <1>2, Moves

\* A save of job j makes every other copy of its row stale.
LEMMA OutdatedCopies ==
    ASSUME TypeOK, NEW j \in Jobs, NEW but
    PROVE  /\ Outdated(j, but) \in [Threads -> Copies]
           /\ \A t \in Threads :
                 /\ Outdated(j, but)[t].at = thread[t].at
                 /\ Outdated(j, but)[t].row = thread[t].row
                 /\ Outdated(j, but)[t].fresh => thread[t].fresh /\ (JobOf(t) = j => t = but)
<1>1. \A t \in Threads : thread[t] \in Copies
  BY DEF TypeOK, Copies
<1>2. \A c \in Copies :
         LET d == [c EXCEPT !.fresh = FALSE] IN
         d \in Copies /\ d.at = c.at /\ d.row = c.row /\ ~d.fresh
  BY DEF Copies
<1>3. ASSUME NEW t \in Threads
      PROVE  LET o == Outdated(j, but)[t] IN
             /\ o \in Copies /\ o.at = thread[t].at /\ o.row = thread[t].row
             /\ o.fresh => thread[t].fresh /\ (JobOf(t) = j => t = but)
  <2>1. CASE t # but /\ JobOf(t) = j
    <3>1. Outdated(j, but)[t] = [thread[t] EXCEPT !.fresh = FALSE]
      BY <2>1 DEF Outdated
    <3>. QED
      BY <1>1, <1>2, <3>1
  <2>2. CASE ~(t # but /\ JobOf(t) = j)
    <3>1. Outdated(j, but)[t] = thread[t]
      BY <2>2 DEF Outdated
    <3>. QED
      BY <1>1, <2>2, <3>1
  <2>. QED
    BY <2>1, <2>2
<1>4. Outdated(j, but) \in [Threads -> Copies]
  BY <1>3 DEF Outdated
<1>. QED
  BY <1>3, <1>4

UpTypes == [Uploads -> [at: {"none", "claim", "store", "record", "undo", "ok", "refused"},
                        fresh: BOOLEAN]]

LEMMA OutdatedUp ==
    ASSUME TypeOK, NEW j \in Jobs
    PROVE  OutdatedUploads(j) \in UpTypes
BY DEF TypeOK, OutdatedUploads, UpTypes

\* A save by thread th: of r if its copy was fresh, else it gives up.
LEMMA Saves ==
    ASSUME TypeOK, NEW th \in Threads, NEW r \in Rows, NEW next \in Stages, Update(th, r, next)
    PROVE  /\ row' \in [Jobs -> Rows] /\ thread' \in [Threads -> Copies] /\ up' \in UpTypes
           /\ late' \subseteq Jobs /\ lapsed' \in BOOLEAN /\ asked' = asked
           /\ \A j \in Jobs : j # JobOf(th) => row'[j] = row[j]
           /\ \A t \in Threads \ {th} : Kept(t)
           /\ \/ thread[th].fresh /\ row'[JobOf(th)] = r /\ Comes(th, next, r)
              \/ row' = row /\ Comes(th, "idle", r)
<1>1. JobOf(th) \in Jobs
  BY Names
<1>2. asked' = asked /\ lapsed' \in BOOLEAN
  BY DEF TypeOK, Update
<1>. DEFINE j == JobOf(th)
            m == Moved(th, next, r)
<1>3. CASE thread[th].fresh
  <2>1. /\ row' = [row EXCEPT ![j] = r]
        /\ thread' = [Outdated(j, th) EXCEPT ![th] = m]
        /\ up' = OutdatedUploads(j) /\ late' \subseteq late
    BY <1>3 DEF Update
  <2>2. row' \in [Jobs -> Rows] /\ row'[j] = r /\ \A i \in Jobs : i # j => row'[i] = row[i]
    BY <1>1, <2>1 DEF TypeOK
  <2>3. /\ m \in Copies /\ m.at = next /\ m.row = IF next = "idle" THEN NoRow ELSE r
        /\ m.fresh => next # "idle" /\ thread[th].fresh
    BY MovedCopy
  <2>. HIDE DEF m
  <2>4. /\ thread' \in [Threads -> Copies] /\ thread'[th] = m
        /\ \A t \in Threads \ {th} : thread'[t] = Outdated(j, th)[t]
    BY <1>1, <2>1, <2>3, OutdatedCopies
  <2>5. Comes(th, next, r)
    BY <2>3, <2>4 DEF Comes
  <2>6. ASSUME NEW t \in Threads \ {th}
        PROVE  Kept(t)
    <3>1. /\ thread'[t].at = thread[t].at /\ thread'[t].row = thread[t].row
          /\ thread'[t].fresh => thread[t].fresh /\ JobOf(t) # j
      BY <1>1, <2>4, OutdatedCopies
    <3>2. JobOf(t) \in Jobs
      BY Names
    <3>. QED
      BY <2>2, <3>1, <3>2 DEF Kept
  <2>7. late' \subseteq Jobs /\ up' \in UpTypes
    BY <1>1, <2>1, OutdatedUp DEF TypeOK
  <2>. QED
    BY <1>2, <1>3, <2>2, <2>4, <2>5, <2>6, <2>7
<1>4. CASE ~thread[th].fresh
  <2>1. GoTo(th, "idle") /\ row' = row /\ up' = up /\ late' = late
    BY <1>4 DEF Update
  <2>2. /\ thread' \in [Threads -> Copies] /\ Comes(th, "idle", thread[th].row)
        /\ \A t \in Threads \ {th} : Kept(t)
    BY <2>1, GoesTo DEF Stages
  <2>3. Comes(th, "idle", r)
    BY <2>2 DEF Comes
  <2>. QED
    BY <1>2, <2>1, <2>2, <2>3 DEF TypeOK, UpTypes
<1>. QED
  BY <1>3, <1>4

\* Another writer's save of r as the row of j.
LEMMA Writes ==
    ASSUME TypeOK, NEW j \in Jobs, NEW r \in Rows, WriteRow(j, r)
    PROVE  /\ row' \in [Jobs -> Rows] /\ thread' \in [Threads -> Copies]
           /\ row'[j] = r /\ \A i \in Jobs : i # j => row'[i] = row[i]
           /\ \A t \in Threads : Kept(t)
<1>1. row' \in [Jobs -> Rows] /\ row'[j] = r /\ \A i \in Jobs : i # j => row'[i] = row[i]
  BY DEF TypeOK, WriteRow
<1>. DEFINE nobody == ""
<1>2. thread' = Outdated(j, nobody) /\ \A t \in Threads : t # nobody
  BY Names DEF WriteRow, Export, Import
<1>. HIDE DEF nobody
<1>3. thread' \in [Threads -> Copies]
  BY <1>2, OutdatedCopies
<1>4. ASSUME NEW t \in Threads PROVE Kept(t)
  <2>1. JobOf(t) \in Jobs
    BY Names
  <2>2. /\ thread'[t].at = thread[t].at /\ thread'[t].row = thread[t].row
        /\ thread'[t].fresh => thread[t].fresh /\ JobOf(t) # j
    BY <1>2, OutdatedCopies
  <2>. QED
    BY <1>1, <2>1, <2>2 DEF Kept
<1>. QED
  BY <1>1, <1>3, <1>4

-----------------------------------------------------------------------------
(* What keeps the export's half of the invariant.                          *)

(* A save that marks the row of job j. *)
RowMarked(j) ==
    /\ SameStep(row'[j], row[j]) /\ SameHold(row'[j], row[j]) /\ SameImport(row'[j], row[j])
    /\ row'[j].finishing = row[j].finishing

(* What the source agent is meant to do stays what it was. *)
AgentKept ==
    /\ ~row[Export].hold \/ thread[Export].at \in Late => (GivenBack => GivenBack')
    /\ row[Export].hold => (Held(row[Export]) => Held(row[Export])')
    /\ (agent[Export].desired = "" => agent[Export].phase # "Stopped")'

LEMMA SameAgent ==
    ASSUME ExportInv, agent'[Export] = agent[Export], asked' = asked,
           row'[Export] = row[Export] \/ RowMarked(Export)
    PROVE  AgentKept
BY DEF ExportInv, HoldInv, AgentKept, GivenBack, Held, RowMarked, SameStep, SameHold

\* Others mark the row, or the agent goes its own way.
LEMMA ExportKept ==
    ASSUME ExportInv, Kept(Export), Kept("deleter"), AgentKept,
           row'[Export] = row[Export] \/ RowMarked(Export)
    PROVE  ExportInv'
<1>1. /\ SameStep(row'[Export], row[Export]) /\ SameHold(row'[Export], row[Export])
      /\ row'[Export].finishing = row[Export].finishing
  BY DEF RowMarked, SameStep, SameHold
<1>2. ExportStage(thread[Export].at, thread[Export].row)'
  BY DEF ExportInv, Kept
<1>3. DeleterStage(thread["deleter"].at, thread["deleter"].row)'
  BY DEF ExportInv, Kept
<1>4. ExportCopies'
  BY <1>1, Names DEF ExportInv, ExportCopies, Kept, SameStep, SameHold
<1>5. HoldInv'
  <2>1. HoldOK(row[Export])'
    BY <1>1 DEF ExportInv, HoldInv, HoldOK, AgentKept, SameStep, SameHold
  <2>. QED
    BY <2>1 DEF ExportInv, HoldInv, AgentKept, Kept
<1>. QED
  BY <1>2, <1>3, <1>4, <1>5 DEF ExportInv

\* The goroutine comes to stage at with copy r, and saves nothing.
LEMMA ExportMoves ==
    ASSUME ExportInv, NEW at, NEW r, thread'[Export].at = at, thread'[Export].row = r,
           Kept("deleter"), row' = row, AgentKept,
           ExportStage(at, r),
           r.state \in Active => /\ SameStep(r, row[Export])
                                 /\ at \notin Late => SameHold(r, row[Export]),
           thread'[Export].fresh /\ r.state = "completed" => r = row[Export],
           at \in Late => GivenBack'
    PROVE  ExportInv'
<1>1. ExportStage(thread[Export].at, thread[Export].row)'
  OBVIOUS
<1>2. DeleterStage(thread["deleter"].at, thread["deleter"].row)'
  BY DEF ExportInv, Kept
<1>3. ExportCopies'
  BY Names DEF ExportInv, ExportCopies, Kept
<1>4. HoldInv'
  BY DEF ExportInv, HoldInv, HoldOK, AgentKept
<1>. QED
  BY <1>1, <1>2, <1>3, <1>4 DEF ExportInv

LEMMA IdleStages ==
    /\ ExportStage("idle", NoRow)
    /\ \A th \in Importers : ImportStage(th, "idle", NoRow)
BY Names, NoRowFields
   DEF ExportStage, ImportStage, WorkerStage, CreatorStage, Finishing, Late

\* It only moves on with the copy it has.
LEMMA ExportGoes ==
    ASSUME TypeOK, ExportInv, NEW at \in Stages, GoTo(Export, at), row' = row, AgentKept,
           at = "idle" \/ ExportStage(at, thread[Export].row),
           at \in Late => thread[Export].at \in Late,
           thread[Export].at \in Late => at = "idle" \/ at \in Late
    PROVE  ExportInv'
<1>1. Comes(Export, at, thread[Export].row) /\ Kept("deleter")
  BY Names, GoesTo
<1>2. CASE at = "idle"
  <2>1. thread'[Export].at = "idle" /\ thread'[Export].row = NoRow
    BY <1>1, <1>2 DEF Comes
  <2>. QED
    BY <1>1, <2>1, ExportMoves, IdleStages, NoRowFields DEF Active, Late
<1>3. CASE at # "idle"
  <2>. DEFINE r == thread[Export].row
  <2>1. thread'[Export].at = at /\ thread'[Export].row = r /\ ExportStage(at, r)
    BY <1>1, <1>3 DEF Comes
  <2>2. r.state \in Active => /\ SameStep(r, row[Export])
                              /\ at \notin Late => SameHold(r, row[Export])
    BY <1>3 DEF ExportInv, ExportCopies
  <2>3. thread'[Export].fresh /\ r.state = "completed" => r = row[Export]
    BY <1>1 DEF ExportInv, ExportCopies, Comes
  <2>4. at \in Late => GivenBack'
    BY DEF ExportInv, HoldInv, AgentKept
  <2>. HIDE DEF r
  <2>. QED
    BY <1>1, <2>1, <2>2, <2>3, <2>4, ExportMoves
<1>. QED
  BY <1>2, <1>3

\* It saves r and goes to the next stage, or finds its copy stale.
LEMMA ExportSaves ==
    ASSUME TypeOK, ExportInv, NEW r \in Rows, NEW next \in Stages, Update(Export, r, next),
           agent'[Export] = agent[Export],
           next = "idle" \/ ExportStage(next, r),
           thread[Export].fresh => HoldOK(r), next \in Late => GivenBack
    PROVE  ExportInv'
<1>1. /\ asked' = asked /\ Kept("deleter")
      /\ \/ thread[Export].fresh /\ row'[Export] = r /\ Comes(Export, next, r)
         \/ row' = row /\ Comes(Export, "idle", r)
  BY Names, Saves
<1>2. (agent[Export].desired = "" => agent[Export].phase # "Stopped")'
  BY DEF ExportInv, HoldInv
<1>3. CASE thread[Export].fresh /\ row'[Export] = r /\ Comes(Export, next, r)
  <2>1. ExportStage(thread[Export].at, thread[Export].row)'
    BY <1>3, IdleStages DEF Comes
  <2>2. DeleterStage(thread["deleter"].at, thread["deleter"].row)'
    BY <1>1 DEF ExportInv, Kept
  <2>3. ExportCopies'
    <3>1. ~(NoRow.state \in Active) /\ NoRow.state # "completed"
      BY NoRowFields DEF Active
    <3>. QED
      BY <1>1, <1>3, <3>1, Names DEF ExportInv, ExportCopies, Kept, Comes, SameStep, SameHold
  <2>4. HoldOK(row[Export])'
    BY <1>1, <1>3 DEF HoldOK, Held, GivenBack
  <2>5. thread'[Export].at \in Late => GivenBack'
    BY <1>1, <1>3 DEF Comes, GivenBack
  <2>. QED
    BY <1>2, <2>1, <2>2, <2>3, <2>4, <2>5 DEF ExportInv, HoldInv
<1>4. CASE row' = row /\ Comes(Export, "idle", r)
  <2>1. thread'[Export].at = "idle" /\ thread'[Export].row = NoRow
    BY <1>4 DEF Comes
  <2>2. AgentKept
    BY <1>1, <1>4, SameAgent
  <2>. QED
    BY <1>1, <1>4, <2>1, <2>2, ExportMoves, IdleStages, NoRowFields DEF Active, Late
<1>. QED
  BY <1>1, <1>3, <1>4

\* What a row at the same step may say of the agent.
LEMMA SameHolds ==
    ASSUME ExportInv, thread[Export].row.state \in Active, NEW r,
           SameStep(r, thread[Export].row), r.finishing = "" \/ r.state \in Active,
           \/ thread[Export].at \notin Late /\ SameHold(r, thread[Export].row)
    PROVE  HoldOK(r)
<1>1. SameStep(r, row[Export]) /\ SameHold(r, row[Export])
  BY DEF ExportInv, ExportCopies, SameStep, SameHold
<1>. QED
  BY <1>1 DEF ExportInv, HoldInv, HoldOK, Held, SameStep, SameHold

\* The first save of finish keeps the invariant wherever the goroutine is.
LEMMA ExportFails ==
    ASSUME TypeOK, ExportInv, NEW o \in Ended, Finish(Export, o), agent'[Export] = agent[Export],
           thread[Export].row.state \in Active, thread[Export].at \notin Late
    PROVE  ExportInv'
<1>. DEFINE r == [thread[Export].row EXCEPT !.finishing = o]
<1>1. thread[Export].row \in Rows
  BY Names DEF TypeOK
<1>2. /\ r \in Rows /\ r.finishing = o
      /\ SameStep(r, thread[Export].row) /\ SameHold(r, thread[Export].row)
  BY <1>1, FinishRow
<1>3. Update(Export, r, "clean")
  BY DEF Finish
<1>. HIDE DEF r
<1>4. HoldOK(r)
  BY <1>2, SameHolds DEF SameStep
<1>5. ExportStage("clean", r)
  BY <1>2 DEF ExportStage, Finishing, Late, SameStep, Ended
<1>6. "clean" \in Stages /\ "clean" \notin Late
  BY DEF Stages, Late
<1>. QED
  BY <1>2, <1>3, <1>4, <1>5, <1>6, ExportSaves

-----------------------------------------------------------------------------
(* What keeps the import's half.                                           *)

(* The agent and its volume stay as good as they were. *)
VolumeKept ==
    /\ ~agent'[Import].exists => ~agent'[Import].pod /\ ~agent'[Import].building
    /\ agent'[Import].exists /\ Restored' => volume' = "full"
    /\ Closing(row[Import]) /\ Gone => Gone'

SameImportRow ==
    /\ row'[Import].state = row[Import].state /\ row'[Import].step = row[Import].step
    /\ SameImport(row'[Import], row[Import])
    /\ row'[Import].finishing = row[Import].finishing

\* Others mark the row, or the agent and the pods go their own way.
LEMMA ImportKept ==
    ASSUME ImportInv, \A th \in Importers : Kept(th), VolumeKept,
           row'[Import] = row[Import] \/ SameImportRow,
           Uncreated => /\ agent'[Import] = NoAgent /\ volume' = "none"
                        /\ pod'[Import] = "none"
    PROVE  ImportInv'
<1>1. SameImportRow
  BY DEF SameImportRow, SameImport
<1>2. \A th \in Importers : ImportStage(th, thread[th].at, thread[th].row)'
  BY DEF ImportInv, Kept
<1>3. VolumeInv'
  <2>1. Early' => Uncreated'
    BY <1>1, Names DEF ImportInv, VolumeInv, Early, Uncreated, Kept, SameImportRow, SameImport
  <2>2. CopyOK(row[Import])'
    BY <1>1 DEF ImportInv, VolumeInv, CopyOK, SameImportRow, SameImport
  <2>. QED
    BY <2>1, <2>2 DEF VolumeInv, VolumeKept
<1>4. DiscardInv'
  <2>1. Closing(row[Import])' <=> Closing(row[Import])
    BY <1>1 DEF Closing, SameImportRow
  <2>2. ASSUME NEW th \in Importers
        PROVE  /\ thread'[th].fresh => /\ thread'[th].row.state = row'[Import].state
                                       /\ thread'[th].row.finishing = row'[Import].finishing
               /\ thread'[th].at \in Finishing => Closing(row[Import])'
               /\ thread'[th].at \in {"erase", "end"} => Discarded(thread[th].row)'
    <3>1. /\ thread[th].fresh => /\ thread[th].row.state = row[Import].state
                                 /\ thread[th].row.finishing = row[Import].finishing
          /\ thread[th].at \in Finishing => Closing(row[Import])
          /\ thread[th].at \in {"erase", "end"} => Discarded(thread[th].row)
          /\ Kept(th)
      BY DEF ImportInv, DiscardInv
    <3>. QED
      BY <1>1, <2>1, <3>1 DEF Kept, SameImportRow, VolumeKept, Discarded, Finishing
  <2>3. (row[Import].state \in Ended /\ row[Import].finishing = "" => Discarded(row[Import]))'
    BY <1>1 DEF ImportInv, DiscardInv, SameImportRow, SameImport, VolumeKept, Discarded, Closing
  <2>. QED
    BY <2>2, <2>3 DEF DiscardInv
<1>5. Unstarted'
  BY <1>1 DEF ImportInv, Unstarted, Kept, SameImportRow
<1>. QED
  BY <1>2, <1>3, <1>4, <1>5 DEF ImportInv

\* Thread th comes to stage at with copy r, and saves nothing.
LEMMA ImportMoves ==
    ASSUME ImportInv, NEW th \in Importers, NEW at, NEW r,
           thread'[th].at = at, thread'[th].row = r,
           thread'[th].fresh => /\ r.state = row[Import].state
                                /\ r.finishing = row[Import].finishing,
           \A t \in Importers \ {th} : Kept(t), row'[Import] = row[Import], VolumeKept,
           ImportStage(th, at, r),
           Early' => Uncreated',
           at \in Finishing => Closing(row[Import]),
           at \in {"erase", "end"} => Discarded(r)',
           row[Import].state # "none"
    PROVE  ImportInv'
<1>1. \A t \in Importers : ImportStage(t, thread[t].at, thread[t].row)'
  BY DEF ImportInv, Kept
<1>2. VolumeInv'
  BY DEF ImportInv, VolumeInv, VolumeKept
<1>3. DiscardInv'
  <2>2. ASSUME NEW t \in Importers
        PROVE  /\ thread'[t].fresh => /\ thread'[t].row.state = row'[Import].state
                                      /\ thread'[t].row.finishing = row'[Import].finishing
               /\ thread'[t].at \in Finishing => Closing(row[Import])'
               /\ thread'[t].at \in {"erase", "end"} => Discarded(thread[t].row)'
    <3>1. CASE t = th
      BY <3>1 DEF Discarded
    <3>2. CASE t # th
      <4>1. /\ thread[t].fresh => /\ thread[t].row.state = row[Import].state
                                  /\ thread[t].row.finishing = row[Import].finishing
            /\ thread[t].at \in Finishing => Closing(row[Import])
            /\ thread[t].at \in {"erase", "end"} => Discarded(thread[t].row)
            /\ Kept(t)
        BY <3>2 DEF ImportInv, DiscardInv
      <4>. QED
        BY <4>1 DEF Kept, VolumeKept, Discarded, Finishing
    <3>. QED
      BY <3>1, <3>2
  <2>3. (row[Import].state \in Ended /\ row[Import].finishing = "" => Discarded(row[Import]))'
    BY DEF ImportInv, DiscardInv, VolumeKept, Discarded, Closing
  <2>. QED
    BY <2>2, <2>3 DEF DiscardInv
<1>4. Unstarted'
  BY DEF Unstarted
<1>. QED
  BY <1>1, <1>2, <1>3, <1>4 DEF ImportInv

\* What it takes for volume and agent to be as good as they were, where no
\* thread and no row learns that the volume was restored.
LEMMA SameVolume ==
    ASSUME ImportInv, agent'[Import] = agent[Import], volume' = volume,
           pod'[Import] = "succeeded" => pod[Import] = "succeeded",
           row'[Import].restored => row[Import].restored,
           \A t \in Importers :
              thread'[t].row.restored => thread[t].row.restored \/ row[Import].restored
    PROVE  VolumeKept
BY DEF ImportInv, VolumeInv, VolumeKept, Restored, Gone

\* It only moves on with the copy it has; pods come and go.
LEMMA ImportGoes ==
    ASSUME TypeOK, ImportInv, NEW th \in Importers, NEW at \in Stages, GoTo(th, at), row' = row,
           agent'[Import] = agent[Import], volume' = volume,
           pod'[Import] = "succeeded" => pod[Import] = "succeeded",
           Uncreated => pod'[Import] = "none",
           at = "idle" \/ ImportStage(th, at, thread[th].row),
           at # "create", at = "abandon" => thread[th].at = "create",
           at \in Finishing => thread[th].at \in Finishing,
           at \in {"erase", "end"} => Discarded(thread[th].row),
           thread[th].at # "idle"
    PROVE  ImportInv'
<1>1. Comes(th, at, thread[th].row) /\ \A t \in Importers \ {th} : Kept(t)
  BY Names, GoesTo
<1>0. row[Import].state # "none"
  BY DEF ImportInv, Unstarted
<1>2. thread'[th].row = NoRow \/ thread'[th].row = thread[th].row
  BY <1>1 DEF Comes
<1>3. VolumeKept
  <2>1. ASSUME NEW t \in Importers PROVE thread'[t].row.restored => thread[t].row.restored
    BY <1>1, <1>2, NoRowFields DEF Kept
  <2>. QED
    BY <2>1, SameVolume
<1>4. Early' => Uncreated'
  <2>1. Early' => Early
    BY <1>1, Names DEF Early, Comes, Kept
  <2>2. Uncreated => Uncreated'
    BY <1>1, <1>2, NoRowFields DEF Uncreated, Kept
  <2>. QED
    BY <2>1, <2>2 DEF ImportInv, VolumeInv
<1>5. CASE at = "idle"
  <2>1. thread'[th].at = "idle" /\ thread'[th].row = NoRow /\ ~thread'[th].fresh
    BY <1>1, <1>5 DEF Comes
  <2>2. ImportStage(th, "idle", NoRow)
    BY IdleStages
  <2>. QED
    BY <1>0, <1>1, <1>3, <1>4, <2>1, <2>2, ImportMoves DEF Finishing
<1>6. CASE at # "idle"
  <2>0. PICK r : r = thread[th].row
    OBVIOUS
  <2>1. thread'[th].at = at /\ thread'[th].row = r /\ ImportStage(th, at, r)
    BY <1>1, <1>6, <2>0 DEF Comes
  <2>2. /\ thread'[th].fresh => r.state = row[Import].state /\ r.finishing = row[Import].finishing
        /\ at \in Finishing => Closing(row[Import])
    BY <1>1, <2>0 DEF ImportInv, DiscardInv, Comes
  <2>3. at \in {"erase", "end"} => Discarded(r)'
    BY <2>0 DEF Discarded, Gone
  <2>. QED
    BY <1>0, <1>1, <1>3, <1>4, <2>1, <2>2, <2>3, ImportMoves
<1>. QED
  BY <1>5, <1>6

\* It saves r and goes to the next stage, or finds its copy stale.  A claim may
\* have made the new agent's volume meanwhile.
LEMMA ImportSaves ==
    ASSUME TypeOK, ImportInv, NEW th \in Importers, NEW r \in Rows, NEW next \in Stages,
           Update(th, r, next), agent'[Import] = agent[Import], pod'[Import] = pod[Import],
           volume' = volume \/ (agent[Import].exists /\ volume = "none"),
           next = "idle" \/ ImportStage(th, next, r), CopyOK(r),
           next \notin {"create", "abandon", "erase", "end"},
           Uncreated => ~r.uid,
           r.state = "none" => thread[th].row.state = "none",
           agent[Import].exists /\ r.restored => volume = "full",
           (thread[th].fresh /\ Closing(row[Import])) \/ next \in Finishing => Closing(r),
           r.state \in Ended /\ r.finishing = "" => Discarded(r),
           thread[th].at # "idle"
    PROVE  ImportInv'
<1>1. /\ \A t \in Importers \ {th} : Kept(t)
      /\ \/ thread[th].fresh /\ row'[Import] = r /\ Comes(th, next, r)
         \/ row' = row /\ Comes(th, "idle", r)
  BY Names, Saves
<1>2. agent[Import].exists => ~Uncreated /\ ~Gone
  BY NoAgentFields DEF Uncreated, Gone
<1>3. VolumeInv'
  <2>1. Early' => Early
    <3>1. row'[Import].state = "none" => row[Import].state = "none"
      BY <1>1 DEF ImportInv, DiscardInv
    <3>2. thread'[th].at \notin {"create", "abandon"}
      BY <1>1 DEF Comes
    <3>. QED
      BY <1>1, <3>1, <3>2, Names DEF Early, Kept
  <2>2. Uncreated /\ volume' = volume => Uncreated'
    <3>1. thread'[th].row = NoRow \/ thread'[th].row = r
      BY <1>1 DEF Comes
    <3>2. row'[Import] = r \/ row'[Import] = row[Import]
      BY <1>1
    <3>. QED
      BY <1>1, <3>1, <3>2, NoRowFields DEF Uncreated, Kept
  <2>3. Early' => Uncreated'
    BY <1>2, <2>1, <2>2 DEF ImportInv, VolumeInv
  <2>4. agent'[Import].exists /\ Restored' => volume' = "full"
    <3>1. ASSUME agent[Import].exists, Restored' PROVE volume = "full"
      <4>1. \A t \in Importers : thread'[t].row.restored => thread[t].row.restored \/ r.restored
        BY <1>1, NoRowFields DEF Comes, Kept
      <4>2. row'[Import].restored => row[Import].restored \/ r.restored
        BY <1>1
      <4>3. CASE r.restored
        BY <3>1, <4>3
      <4>4. CASE ~r.restored
        <5>1. Restored
          BY <3>1, <4>1, <4>2, <4>4 DEF Restored
        <5>. QED
          BY <3>1, <5>1 DEF ImportInv, VolumeInv
      <4>. QED
        BY <4>3, <4>4
    <3>. QED
      BY <3>1
  <2>5. CopyOK(row[Import])'
    BY <1>1 DEF ImportInv, VolumeInv
  <2>. QED
    BY <2>3, <2>4, <2>5 DEF ImportInv, VolumeInv
<1>4. \A t \in Importers : ImportStage(t, thread[t].at, thread[t].row)'
  BY <1>1, IdleStages DEF ImportInv, Kept, Comes
<1>5. DiscardInv'
  <2>1. Gone => Gone'
    BY <1>2 DEF Gone
  <2>2. Closing(row[Import]) => Closing(row[Import])'
    BY <1>1 DEF Closing
  <2>3. ASSUME NEW t \in Importers
        PROVE  /\ thread'[t].fresh => /\ thread'[t].row.state = row'[Import].state
                                      /\ thread'[t].row.finishing = row'[Import].finishing
               /\ thread'[t].at \in Finishing => Closing(row[Import])'
               /\ thread'[t].at \in {"erase", "end"} => Discarded(thread[t].row)'
    <3>1. CASE t = th
      BY <1>1, <3>1 DEF Comes, Finishing
    <3>2. CASE t # th
      <4>1. /\ thread[t].fresh => /\ thread[t].row.state = row[Import].state
                                  /\ thread[t].row.finishing = row[Import].finishing
            /\ thread[t].at \in Finishing => Closing(row[Import])
            /\ thread[t].at \in {"erase", "end"} => Discarded(thread[t].row)
            /\ Kept(t) /\ JobOf(t) = Import
        BY <1>1, <3>2, Names DEF ImportInv, DiscardInv
      <4>. QED
        BY <2>1, <2>2, <4>1 DEF Kept, Discarded
    <3>. QED
      BY <3>1, <3>2
  <2>4. (row[Import].state \in Ended /\ row[Import].finishing = "" => Discarded(row[Import]))'
    BY <1>1, <2>1 DEF ImportInv, DiscardInv, Discarded
  <2>. QED
    BY <2>3, <2>4 DEF DiscardInv
<1>6. Unstarted'
  BY <1>1 DEF ImportInv, Unstarted, DiscardInv
<1>. QED
  BY <1>3, <1>4, <1>5, <1>6 DEF ImportInv

-----------------------------------------------------------------------------
(* Types, and the half of the invariant that a step leaves alone.          *)

Pods == {"none", "running", "writing", "succeeded", "failed"}
SpentOK == spent \in [faults: 0..MaxFaults, commands: 0..MaxCommands]
WorldOK ==
    /\ agent \in [Jobs -> Agents] /\ pod \in [Jobs \cup {"verify"} -> Pods]
    /\ object \in BOOLEAN /\ volume \in {"none", "empty", "partial", "full"}
    /\ SpentOK

LEMMA Typed ==
    ASSUME TypeOK
    PROVE  /\ WorldOK /\ row \in [Jobs -> Rows] /\ thread \in [Threads -> Copies]
           /\ \A th \in Threads : thread[th].row \in Rows
           /\ row[Export] \in Rows /\ row[Import] \in Rows
           /\ agent[Export] \in Agents /\ agent[Import] \in Agents
           /\ up \in UpTypes
           /\ asked \in [intent: {"Running", "Stopped"}, verb: {"", "Running", "Stopped"},
                         deletion: BOOLEAN, importing: BOOLEAN]
BY Names DEF TypeOK, WorldOK, SpentOK, Pods, Copies, UpTypes

\* The budgets are never overdrawn.
LEMMA Spending ==
    ASSUME TypeOK, Fault \/ Command \/ UNCHANGED spent
    PROVE  SpentOK'
<1>1. /\ spent \in [faults: 0..MaxFaults, commands: 0..MaxCommands]
      /\ MaxFaults \in Nat /\ MaxCommands \in Nat
  BY BoundsAssumption DEF TypeOK
<1>2. CASE Fault
  BY <1>1, <1>2 DEF Fault, SpentOK
<1>3. CASE Command
  BY <1>1, <1>3 DEF Command, SpentOK
<1>4. CASE UNCHANGED spent
  BY <1>1, <1>4 DEF SpentOK
<1>. QED
  BY <1>2, <1>3, <1>4

LEMMA SameWorld ==
    ASSUME TypeOK, UNCHANGED <<cluster, object>>, SpentOK'
    PROVE  WorldOK'
BY Typed DEF WorldOK, cluster

LEMMA SaveTypes ==
    ASSUME TypeOK, NEW th \in Threads, NEW r \in Rows, NEW next \in Stages, Update(th, r, next),
           WorldOK'
    PROVE  TypeOK'
<1>1. /\ row' \in [Jobs -> Rows] /\ thread' \in [Threads -> Copies] /\ up' \in UpTypes
      /\ late' \subseteq Jobs /\ lapsed' \in BOOLEAN /\ asked' = asked
  BY Saves
<1>. QED
  BY <1>1 DEF TypeOK, WorldOK, SpentOK, Pods, Copies, UpTypes

LEMMA MoveTypes ==
    ASSUME TypeOK, thread' \in [Threads -> Copies], row' \in [Jobs -> Rows], up' \in UpTypes,
           UNCHANGED <<lapsed, late, asked>>, WorldOK'
    PROVE  TypeOK'
BY DEF TypeOK, WorldOK, SpentOK, Pods, Copies, UpTypes

\* Steps beside the export, and beside the import.
LEMMA BesideExport ==
    ASSUME ExportInv, Kept(Export), Kept("deleter"), row'[Export] = row[Export],
           agent'[Export] = agent[Export], asked' = asked
    PROVE  ExportInv'
BY SameAgent, ExportKept

LEMMA BesideImport ==
    ASSUME ImportInv, \A th \in Importers : Kept(th), row'[Import] = row[Import],
           agent'[Import] = agent[Import], volume' = volume, pod'[Import] = pod[Import]
    PROVE  ImportInv'
<1>1. VolumeKept
  BY SameVolume DEF Kept
<1>2. Uncreated => agent'[Import] = NoAgent /\ volume' = "none" /\ pod'[Import] = "none"
  BY DEF Uncreated
<1>. QED
  BY <1>1, <1>2, ImportKept

\* A save of the export's row by its goroutine or by a deletion.
LEMMA ExportSaveBeside ==
    ASSUME IInv, NEW th \in {Export, "deleter"}, NEW r \in Rows, NEW next \in Stages,
           Update(th, r, next), UNCHANGED <<cluster, object>>, SpentOK'
    PROVE  TypeOK' /\ ImportInv'
<1>1. TypeOK /\ ImportInv /\ th \in Threads /\ JobOf(th) = Export
  BY Names DEF IInv
<1>2. TypeOK'
  BY <1>1, SameWorld, SaveTypes
<1>3. row'[Import] = row[Import] /\ \A t \in Importers : Kept(t)
  BY <1>1, Names, Saves
<1>. QED
  BY <1>1, <1>2, <1>3, BesideImport DEF cluster

\* A save of the import's row by its goroutine or its create handler.
LEMMA ImportSaveBeside ==
    ASSUME IInv, NEW th \in Importers, NEW r \in Rows, NEW next \in Stages,
           Update(th, r, next), agent'[Export] = agent[Export], WorldOK'
    PROVE  TypeOK' /\ ExportInv'
<1>1. TypeOK /\ ExportInv /\ th \in Threads /\ JobOf(th) = Import
  BY Names DEF IInv
<1>2. TypeOK'
  BY <1>1, SaveTypes
<1>3. row'[Export] = row[Export] /\ asked' = asked /\ Kept(Export) /\ Kept("deleter")
  BY <1>1, Names, Saves
<1>. QED
  BY <1>1, <1>2, <1>3, BesideExport

\* A thread moves on and saves nothing.
LEMMA MoveBeside ==
    ASSUME IInv, NEW th \in Threads, NEW at \in Stages, NEW r \in Rows,
           thread' = [thread EXCEPT ![th] = Moved(th, at, r)],
           UNCHANGED <<row, up, lapsed, late, asked>>, WorldOK'
    PROVE  /\ TypeOK'
           /\ Comes(th, at, r) /\ \A t \in Threads \ {th} : Kept(t)
           /\ th \in Importers /\ agent'[Export] = agent[Export] => ExportInv'
           /\ th \in {Export, "deleter"} /\ agent'[Import] = agent[Import] /\ volume' = volume
                 /\ pod'[Import] = pod[Import] => ImportInv'
<1>1. TypeOK /\ ExportInv /\ ImportInv /\ row' = row /\ asked' = asked
  BY DEF IInv
<1>2. /\ thread' \in [Threads -> Copies] /\ Comes(th, at, r)
      /\ \A t \in Threads \ {th} : Kept(t)
  BY <1>1, Moves
<1>3. TypeOK'
  BY <1>1, <1>2, MoveTypes, Typed
<1>4. ASSUME th \in Importers, agent'[Export] = agent[Export] PROVE ExportInv'
  BY <1>1, <1>2, <1>4, Names, BesideExport
<1>5. ASSUME th \in {Export, "deleter"}, agent'[Import] = agent[Import], volume' = volume,
             pod'[Import] = pod[Import]
      PROVE  ImportInv'
  BY <1>1, <1>2, <1>5, Names, BesideImport
<1>. QED
  BY <1>2, <1>3, <1>4, <1>5

LEMMA GoBeside ==
    ASSUME IInv, NEW th \in Threads, NEW at \in Stages, Proceed(th, at), WorldOK'
    PROVE  /\ TypeOK'
           /\ th \in Importers /\ agent'[Export] = agent[Export] => ExportInv'
           /\ th \in {Export, "deleter"} /\ agent'[Import] = agent[Import] /\ volume' = volume
                 /\ pod'[Import] = pod[Import] => ImportInv'
<1>1. TypeOK /\ thread \in [Threads -> Copies] /\ thread[th].row \in Rows
  BY Typed DEF IInv
<1>2. thread' = [thread EXCEPT ![th] = Moved(th, at, thread[th].row)]
  BY <1>1 DEF Proceed, GoTo
<1>. QED
  BY <1>1, <1>2, MoveBeside DEF Proceed

-----------------------------------------------------------------------------
(* Giving up: a step waits for its next turn, or fails its job.             *)

LEMMA ExportGivesUp ==
    ASSUME IInv, thread[Export].row.state \in Active, thread[Export].at \notin Late,
           WaitOrFail(Export) \/ \E o \in Ended : Finish(Export, o),
           UNCHANGED <<cluster, object>>, SpentOK'
    PROVE  IInv'
<1>1. TypeOK /\ ExportInv /\ ImportInv /\ thread[Export].row \in Rows
  BY Typed, Names DEF IInv
<1>2. {"idle", "clean"} \subseteq Stages /\ "failed" \in Ended
  BY DEF Stages, Ended
<1>3. CASE GoTo(Export, "idle") /\ UNCHANGED <<row, up, lapsed, late, asked>>
  <2>1. TypeOK' /\ ImportInv'
    BY <1>1, <1>2, <1>3, Names, SameWorld, GoBeside DEF Proceed, cluster
  <2>2. AgentKept
    BY <1>1, <1>3, SameAgent DEF cluster
  <2>3. ExportInv'
    BY <1>1, <1>2, <1>3, <2>2, ExportGoes DEF Late
  <2>. QED
    BY <2>1, <2>3 DEF IInv
<1>4. ASSUME NEW o \in Ended, Finish(Export, o) PROVE IInv'
  <2>1. ExportInv'
    BY <1>1, <1>4, ExportFails DEF cluster
  <2>2. [thread[Export].row EXCEPT !.finishing = o] \in Rows
    BY <1>1, FinishRow
  <2>3. TypeOK' /\ ImportInv'
    BY <1>2, <1>4, <2>2, Names, ExportSaveBeside DEF Finish
  <2>. QED
    BY <2>1, <2>3 DEF IInv
<1>. QED
  BY <1>2, <1>3, <1>4 DEF WaitOrFail, Fail

\* The first save of finish, by an import's goroutine or its create handler.
LEMMA ImportFails ==
    ASSUME TypeOK, ImportInv, NEW th \in Importers, NEW o \in Ended, Finish(th, o),
           thread[th].at # "idle",
           agent'[Import] = agent[Import], pod'[Import] = pod[Import], volume' = volume
    PROVE  ImportInv'
<1>0. th \in Threads /\ thread[th].row \in Rows
  BY Names, Typed
<1>. DEFINE r == [thread[th].row EXCEPT !.finishing = o]
<1>1. /\ r \in Rows /\ r.finishing = o
      /\ SameStep(r, thread[th].row) /\ SameImport(r, thread[th].row)
  BY <1>0, FinishRow
<1>2. Update(th, r, "clean") /\ "clean" \in Stages
  BY DEF Finish, Stages
<1>. HIDE DEF r
<1>3. CopyOK(r) /\ r.state = thread[th].row.state /\ r.finishing # ""
  BY <1>1 DEF ImportInv, ImportStage, CopyOK, SameStep, SameImport, Ended
<1>4. ImportStage(th, "clean", r)
  BY <1>1, <1>3, Names DEF ImportStage, WorkerStage, CreatorStage, Finishing
<1>5. Uncreated => ~r.uid
  BY <1>1 DEF Uncreated, SameImport
<1>6. agent[Import].exists /\ r.restored => volume = "full"
  BY <1>1 DEF ImportInv, VolumeInv, Restored, SameImport
<1>. QED
  BY <1>1, <1>2, <1>3, <1>4, <1>5, <1>6, ImportSaves DEF Closing

LEMMA ImportGivesUp ==
    ASSUME IInv, NEW th \in Importers, thread[th].at # "idle",
           WaitOrFail(th) \/ \E o \in Ended : Finish(th, o),
           UNCHANGED <<cluster, object>>, SpentOK'
    PROVE  IInv'
<1>1. TypeOK /\ ImportInv /\ th \in Threads /\ thread[th].row \in Rows /\ WorldOK'
  BY Typed, Names, SameWorld DEF IInv
<1>2. {"idle", "clean"} \subseteq Stages /\ "failed" \in Ended
  BY DEF Stages, Ended
<1>3. CASE GoTo(th, "idle") /\ UNCHANGED <<row, up, lapsed, late, asked>>
  <2>1. TypeOK' /\ ExportInv'
    BY <1>1, <1>2, <1>3, GoBeside DEF Proceed, cluster
  <2>2. Uncreated => pod'[Import] = "none"
    BY DEF Uncreated, cluster
  <2>3. ImportInv'
    BY <1>1, <1>2, <1>3, <2>2, ImportGoes DEF cluster, Finishing
  <2>. QED
    BY <2>1, <2>3 DEF IInv
<1>4. ASSUME NEW o \in Ended, Finish(th, o) PROVE IInv'
  <2>1. ImportInv'
    BY <1>1, <1>4, ImportFails DEF cluster
  <2>2. [thread[th].row EXCEPT !.finishing = o] \in Rows
    BY <1>1, FinishRow
  <2>3. TypeOK' /\ ExportInv'
    BY <1>1, <1>2, <1>4, <2>2, ImportSaveBeside DEF Finish, cluster
  <2>. QED
    BY <2>1, <2>3 DEF IInv
<1>. QED
  BY <1>2, <1>3, <1>4 DEF WaitOrFail, Fail

-----------------------------------------------------------------------------
(* The export's goroutine.                                                 *)

\* A thread that starts reads its row.
LEMMA Reads ==
    ASSUME TypeOK, NEW th \in Threads, NEW at \in Stages, NEW r \in Rows,
           thread' = [thread EXCEPT ![th] = [Idle EXCEPT !.at = at, !.row = r, !.fresh = TRUE]]
    PROVE  /\ thread' \in [Threads -> Copies]
           /\ thread'[th].at = at /\ thread'[th].row = r
           /\ \A t \in Threads \ {th} : thread'[t] = thread[t]
<1>. DEFINE c == [Idle EXCEPT !.at = at, !.row = r, !.fresh = TRUE]
<1>1. c \in Copies /\ c.at = at /\ c.row = r
  BY IdleFields DEF Copies
<1>2. thread \in [Threads -> Copies] /\ thread' = [thread EXCEPT ![th] = c]
  BY Typed
<1>. HIDE DEF c
<1>. QED
  BY <1>1, <1>2

LEMMA DispatchReads ==
    ASSUME TypeOK, NEW j \in Jobs, Dispatch(j)
    PROVE  \E at \in {"clean", "step"} :
              /\ at = "clean" <=> row[j].finishing # ""
              /\ Listed(j) /\ thread' \in [Threads -> Copies]
              /\ thread'[j].at = at /\ thread'[j].row = row[j]
              /\ \A t \in Threads \ {j} : thread'[t] = thread[t]
<1>1. PICK at \in {"clean", "step"} : at = IF row[j].finishing # "" THEN "clean" ELSE "step"
  OBVIOUS
<1>2. j \in Threads /\ row[j] \in Rows /\ at \in Stages
  BY Names, Typed DEF Stages, Jobs
<1>3. /\ Listed(j)
      /\ thread' = [thread EXCEPT ![j] = [Idle EXCEPT !.at = at, !.row = row[j], !.fresh = TRUE]]
  BY <1>1 DEF Dispatch
<1>4. /\ thread' \in [Threads -> Copies]
      /\ thread'[j].at = at /\ thread'[j].row = row[j]
      /\ \A t \in Threads \ {j} : thread'[t] = thread[t]
  BY <1>2, <1>3, Reads
<1>5. at = "clean" <=> row[j].finishing # ""
  BY <1>1
<1>. QED
  BY <1>3, <1>4, <1>5

LEMMA DispatchExport ==
    ASSUME IInv, Dispatch(Export)
    PROVE  IInv'
<1>1. TypeOK /\ ExportInv /\ ImportInv
  BY DEF IInv
<1>2. UNCHANGED <<row, up, lapsed, late, asked, cluster, object, spent>>
  BY DEF Dispatch, time
<1>3. PICK at \in {"clean", "step"} :
         /\ at = "clean" <=> row[Export].finishing # ""
         /\ Listed(Export) /\ thread' \in [Threads -> Copies]
         /\ thread'[Export].at = at /\ thread'[Export].row = row[Export]
         /\ \A t \in Threads \ {Export} : thread'[t] = thread[t]
  BY <1>1, Names, DispatchReads
<1>4. \A t \in Threads \ {Export} : Kept(t)
  BY <1>2, <1>3 DEF Kept
<1>5. TypeOK'
  BY <1>1, <1>2, <1>3, MoveTypes, SameWorld, Spending, Typed
<1>6. ImportInv'
  BY <1>1, <1>2, <1>4, Names, BesideImport DEF cluster
<1>7. ExportStage(at, row[Export])
  <2>1. row[Export].state \in Active \cup {"completed"}
    BY <1>3 DEF Listed
  <2>2. row[Export].finishing # "" => row[Export].state \in Active
    BY <1>1 DEF ExportInv, HoldInv, HoldOK
  <2>. QED
    BY <1>3, <2>1, <2>2 DEF ExportStage, Finishing, Late
<1>8. AgentKept
  BY <1>1, <1>2, SameAgent DEF cluster
<1>. DEFINE r == row[Export]
<1>9. /\ SameStep(r, row[Export]) /\ SameHold(r, row[Export]) /\ r = row[Export]
      /\ ExportStage(at, r) /\ thread'[Export].row = r
  BY <1>3, <1>7 DEF SameStep, SameHold
<1>. HIDE DEF r
<1>10. ExportInv'
  BY <1>1, <1>2, <1>3, <1>4, <1>8, <1>9, Names, ExportMoves DEF Late
<1>. QED
  BY <1>5, <1>6, <1>10 DEF IInv

LEMMA CutShortExport ==
    ASSUME IInv, CutShort(Export)
    PROVE  IInv'
<1>1. /\ thread[Export].at \notin Late /\ thread[Export].row.state \in Active
      /\ \E o \in Ended : Finish(Export, o)
      /\ UNCHANGED <<cluster, object, spent>>
  BY DEF CutShort, Late, Ended
<1>. QED
  BY <1>1, ExportGivesUp, Spending DEF IInv

LEMMA AgentLostKeeps ==
    ASSUME IInv, AgentLost
    PROVE  IInv'
<1>1. /\ thread[Export].at \notin Late /\ thread[Export].row.state \in Active
      /\ \E o \in Ended : Finish(Export, o)
      /\ UNCHANGED <<cluster, object, spent>>
  BY DEF AgentLost, Stepping, Fail, Active, Late, Ended
<1>. QED
  BY <1>1, ExportGivesUp, Spending DEF IInv

LEMMA BeginExportKeeps ==
    ASSUME IInv, BeginExport
    PROVE  IInv'
<1>. DEFINE a == agent[Export]
            t == thread[Export]
            b == Begun(t.row, a)
            f == [b EXCEPT !.paused = FALSE, !.finishing = "failed"]
<1>6. Fail(Export) \/ Update(Export, b, "patch") \/ Update(Export, f, "clean")
  BY DEF BeginExport
<1>. HIDE DEF b, f
<1>1. /\ TypeOK /\ ExportInv /\ t.row \in Rows /\ a \in Agents
  BY Typed, Names DEF IInv
<1>2. /\ t.at = "step" /\ t.row.state = "queued" /\ a.exists
      /\ UNCHANGED <<cluster, object>> /\ SpentOK'
  BY <1>1, Spending DEF BeginExport, Stepping
<1>3. /\ t.row.finishing = "" /\ GivenBack
  BY <1>2 DEF IInv, ExportInv, ExportStage, ExportCopies, HoldInv, HoldOK, SameStep, Finishing,
              Active
<1>4. ASSUME NEW r \in Rows, r.state = "running", r.step = "pausing", r.hold,
             r.prior = StandingIntent(a)
      PROVE  HoldOK(r)
  BY <1>3, <1>4 DEF HoldOK, Held, GivenBack, Active, Terminal, Ended
<1>5. /\ b \in Rows /\ b.state = "running" /\ b.step = "pausing" /\ b.hold
      /\ b.prior = StandingIntent(a) /\ b.finishing = ""
      /\ f \in Rows /\ f.state = "running" /\ f.step = "pausing" /\ f.hold
      /\ f.prior = StandingIntent(a) /\ f.finishing = "failed"
  <2>1. /\ b \in Rows /\ b.state = "running" /\ b.step = "pausing" /\ b.hold
        /\ b.prior = StandingIntent(a) /\ b.finishing = ""
    BY <1>1, <1>3, BegunRow DEF b
  <2>2. /\ f \in Rows /\ f.state = b.state /\ f.step = b.step /\ f.hold = b.hold
        /\ f.prior = b.prior /\ f.finishing = "failed"
    BY <2>1, BegunInVain DEF f
  <2>. QED
    BY <2>1, <2>2
<1>7. CASE Fail(Export)
  BY <1>2, <1>7, ExportGivesUp DEF Fail, Late, Active, Ended
<1>8. ASSUME NEW r \in {b, f}, NEW next \in {"patch", "clean"}, Update(Export, r, next),
             r.finishing = "" <=> next = "patch"
      PROVE  IInv'
  <2>1. r \in Rows /\ HoldOK(r) /\ next \in Stages /\ next \notin Late
    BY <1>4, <1>5 DEF Stages, Late
  <2>2. ExportStage(next, r)
    BY <1>5, <1>8 DEF ExportStage, Finishing, Late, Active
  <2>3. ExportInv'
    BY <1>1, <1>2, <1>8, <2>1, <2>2, ExportSaves DEF cluster
  <2>4. TypeOK' /\ ImportInv'
    BY <1>2, <1>8, <2>1, ExportSaveBeside
  <2>. QED
    BY <2>3, <2>4 DEF IInv
<1>. QED
  BY <1>5, <1>6, <1>7, <1>8

LEMMA PausedAgent ==
    ASSUME NEW a \in Agents, NEW r
    PROVE  LET p == Paused(a, r) IN
           /\ p \in Agents /\ p.exists = a.exists /\ p.phase = a.phase
           /\ r.paused => p.mark /\ p.desired = "Stopped"
           /\ ~r.paused => p.mark = a.mark /\ p.desired = a.desired
BY DEF Paused, Agents

\* The hold is only put on an agent whose row knows of it.
LEMMA HoldKeeps ==
    ASSUME TypeOK, ExportInv, row[Export].hold, thread[Export].at \notin Late,
           \/ agent' = agent
           \/ SetAgent(Export, Paused(agent[Export], thread[Export].row)),
           thread[Export].row.paused = row[Export].paused,
           row' = row, asked' = asked
    PROVE  AgentKept /\ agent' \in [Jobs -> Agents] /\ agent'[Import] = agent[Import]
<1>1. agent \in [Jobs -> Agents] /\ agent[Export] \in Agents
  BY Typed DEF WorldOK
<1>2. CASE agent' = agent
  BY <1>1, <1>2, SameAgent
<1>3. CASE SetAgent(Export, Paused(agent[Export], thread[Export].row))
  <2>. DEFINE a == agent[Export]
              p == Paused(agent[Export], thread[Export].row)
  <2>1. /\ p \in Agents /\ p.exists = a.exists /\ p.phase = a.phase
        /\ row[Export].paused => p.mark /\ p.desired = "Stopped"
        /\ ~row[Export].paused => p.mark = a.mark /\ p.desired = a.desired
    BY <1>1, PausedAgent
  <2>2. /\ agent' \in [Jobs -> Agents] /\ agent'[Export] = p /\ agent'[Import] = agent[Import]
    BY <1>1, <1>3, <2>1, Names DEF SetAgent
  <2>. HIDE DEF p
  <2>3. (agent[Export].desired = "" => agent[Export].phase # "Stopped")'
    BY <2>1, <2>2 DEF ExportInv, HoldInv
  <2>4. Held(row[Export]) => Held(row[Export])'
    BY <2>1, <2>2 DEF Held, StandingIntent
  <2>. QED
    BY <2>2, <2>3, <2>4 DEF AgentKept
<1>. QED
  BY <1>2, <1>3

LEMMA PatchHoldKeeps ==
    ASSUME IInv, PatchHold \/ ReapplyHold
    PROVE  IInv'
<1>1. TypeOK /\ ExportInv /\ ImportInv
  BY DEF IInv
<1>2. /\ thread[Export].at \in {"patch", "step"}
      /\ thread[Export].row.state = "running" /\ thread[Export].row.step = "pausing"
      /\ Proceed(Export, "idle") /\ UNCHANGED <<pod, volume, object, spent>>
      /\ \/ agent' = agent
         \/ SetAgent(Export, Paused(agent[Export], thread[Export].row))
  <2>1. CASE PatchHold
    BY <1>1, <2>1 DEF PatchHold, ExportInv, ExportStage
  <2>2. CASE ReapplyHold
    BY <2>2 DEF ReapplyHold, Stepping
  <2>. QED
    BY <2>1, <2>2
<1>3. row[Export].hold /\ thread[Export].row.paused = row[Export].paused
  BY <1>1, <1>2 DEF ExportInv, ExportCopies, HoldInv, HoldOK, SameStep, SameHold, Active, Late
<1>4. row' = row /\ asked' = asked /\ GoTo(Export, "idle") /\ "idle" \in Stages
  BY <1>2 DEF Proceed, Stages
<1>5. AgentKept /\ agent' \in [Jobs -> Agents] /\ agent'[Import] = agent[Import]
  BY <1>1, <1>2, <1>3, <1>4, HoldKeeps DEF Late
<1>6. WorldOK'
  BY <1>1, <1>2, <1>5, Spending, Typed DEF WorldOK
<1>7. TypeOK' /\ ImportInv'
  BY <1>1, <1>2, <1>4, <1>5, <1>6, Names, GoBeside
<1>8. ExportInv'
  BY <1>1, <1>4, <1>5, ExportGoes DEF Late
<1>. QED
  BY <1>7, <1>8 DEF IInv

\* A save that keeps the row at the same step, or advances it.
LEMMA ExportAdvances ==
    ASSUME IInv, NEW r \in Rows, NEW next \in Stages, Update(Export, r, next),
           next = "idle" \/ ExportStage(next, r), next \notin Late,
           thread[Export].fresh => HoldOK(r), UNCHANGED <<cluster, object>>, SpentOK'
    PROVE  IInv'
<1>1. TypeOK /\ ExportInv /\ agent'[Export] = agent[Export]
  BY DEF IInv, cluster
<1>2. ExportInv'
  BY <1>1, ExportSaves
<1>3. TypeOK' /\ ImportInv'
  BY ExportSaveBeside
<1>. QED
  BY <1>2, <1>3 DEF IInv

LEMMA WaitForPauseKeeps ==
    ASSUME IInv, WaitForPause
    PROVE  IInv'
<1>. DEFINE t == thread[Export]
            r == [t.row EXCEPT !.step = "archiving"]
<1>1. TypeOK /\ ExportInv /\ t.row \in Rows
  BY Typed, Names DEF IInv
<1>2. /\ t.at = "step" /\ t.row.state = "running" /\ t.row.step = "pausing"
      /\ UNCHANGED <<cluster, object>> /\ SpentOK'
  BY <1>1, Spending DEF WaitForPause, Stepping
<1>3. WaitOrFail(Export) \/ Fail(Export) \/ Update(Export, r, "token")
  BY DEF WaitForPause
<1>4. CASE WaitOrFail(Export) \/ Fail(Export)
  BY <1>2, <1>4, ExportGivesUp DEF Fail, Late, Active, Ended
<1>5. CASE Update(Export, r, "token")
  <2>1. /\ r \in Rows /\ r.step = "archiving" /\ r.state = t.row.state /\ r.prior = t.row.prior
        /\ SameHold(r, t.row) /\ r.finishing = t.row.finishing
    BY <1>1, StepRow
  <2>. HIDE DEF r
  <2>2. /\ t.row.finishing = "" /\ SameHold(t.row, row[Export]) /\ SameStep(t.row, row[Export])
        /\ HoldOK(row[Export])
    BY <1>1, <1>2 DEF ExportInv, ExportStage, ExportCopies, HoldInv, Finishing, Late, Active
  <2>3. HoldOK(r)
    BY <1>2, <2>1, <2>2 DEF HoldOK, Held, SameStep, SameHold, Active, Terminal, Ended
  <2>4. ExportStage("token", r)
    BY <1>2, <2>1, <2>2 DEF ExportStage, Finishing, Late
  <2>5. "token" \in Stages /\ "token" \notin Late
    BY DEF Stages, Late
  <2>. QED
    BY <1>2, <1>5, <2>1, <2>3, <2>4, <2>5, ExportAdvances
<1>. QED
  BY <1>3, <1>4, <1>5

\* It saves its row as it is, or with a mark.
LEMMA ExportMarks ==
    ASSUME IInv, NEW r \in Rows, NEW next \in Stages, Update(Export, r, next),
           thread[Export].row.state = "running", thread[Export].row.finishing = "",
           thread[Export].at \notin Late, next = "idle" \/ ExportStage(next, r),
           next \notin Late, SameStep(r, thread[Export].row), SameHold(r, thread[Export].row),
           r.finishing = "", UNCHANGED <<cluster, object, spent>>
    PROVE  IInv'
<1>1. TypeOK /\ ExportInv /\ thread[Export].row.state \in Active
  BY DEF IInv, Active
<1>2. HoldOK(r)
  BY <1>1, SameHolds
<1>. QED
  BY <1>1, <1>2, ExportAdvances, Spending

LEMMA IssueTokenExport ==
    ASSUME IInv, IssueToken(Export)
    PROVE  IInv'
<1>. DEFINE t == thread[Export]
            r == thread[Export].row
<1>1. /\ t.at = "token" /\ Update(Export, r, "launch") /\ UNCHANGED <<cluster, object, spent>>
  BY DEF IssueToken
<1>2. r \in Rows /\ SameStep(r, t.row) /\ SameHold(r, t.row)
  BY Typed, Names DEF IInv, SameStep, SameHold
<1>3. r.state = "running" /\ r.finishing = "" /\ ExportStage("launch", r)
  BY <1>1 DEF IInv, ExportInv, ExportStage, Finishing, Late
<1>4. "launch" \in Stages /\ {"launch", t.at} \cap Late = {}
  BY <1>1 DEF Stages, Late
<1>. QED
  BY <1>1, <1>2, <1>3, <1>4, ExportMarks

\* It moves on with its copy, and the source agent is left alone.
LEMMA ExportProceeds ==
    ASSUME IInv, NEW at \in Stages, Proceed(Export, at),
           at = "idle" \/ ExportStage(at, thread[Export].row),
           at \in Late => thread[Export].at \in Late,
           thread[Export].at \in Late => at = "idle" \/ at \in Late,
           agent' = agent, volume' = volume, object' \in BOOLEAN, SpentOK',
           pod' \in [Jobs \cup {"verify"} -> Pods], pod'[Import] = pod[Import]
    PROVE  IInv'
<1>1. TypeOK /\ ExportInv /\ WorldOK'
  BY Typed DEF IInv, WorldOK
<1>2. row' = row /\ asked' = asked /\ GoTo(Export, at)
  BY DEF Proceed
<1>3. AgentKept
  BY <1>1, <1>2, SameAgent
<1>4. ExportInv'
  BY <1>1, <1>2, <1>3, ExportGoes
<1>5. TypeOK' /\ ImportInv'
  BY <1>1, Names, GoBeside
<1>. QED
  BY <1>4, <1>5 DEF IInv

LEMMA PodSet ==
    ASSUME TypeOK, NEW p \in {Export, Import, "verify"}, NEW s \in Pods, SetPod(p, s)
    PROVE  /\ pod' \in [Jobs \cup {"verify"} -> Pods] /\ pod'[p] = s
           /\ p # Import => pod'[Import] = pod[Import]
<1>1. pod \in [Jobs \cup {"verify"} -> Pods]
  BY Typed DEF WorldOK
<1>2. {Export, Import, "verify"} = Jobs \cup {"verify"}
  BY DEF Jobs
<1>. QED
  BY <1>1, <1>2 DEF SetPod

\* Of either job: what a new pod changes.
LEMMA PodMade ==
    ASSUME TypeOK, NEW j \in Jobs,
           pod' = [pod EXCEPT ![PodFor(j)] = IF @ = "none" THEN "running" ELSE @]
    PROVE  /\ pod' \in [Jobs \cup {"verify"} -> Pods]
           /\ pod'[Import] = pod[Import] \/ (j = Import /\ pod'[Import] = "running")
<1>1. pod \in [Jobs \cup {"verify"} -> Pods]
  BY Typed DEF WorldOK
<1>2. PodFor(j) \in {j, "verify"} /\ PodFor(j) \in Jobs \cup {"verify"}
  BY DEF PodFor
<1>. DEFINE p == PodFor(j)
            s == IF pod[p] = "none" THEN "running" ELSE pod[p]
<1>3. s \in Pods /\ pod' = [pod EXCEPT ![p] = s]
  BY <1>1, <1>2 DEF Pods
<1>4. p = Import => j = Import
  BY <1>2, Names DEF Import
<1>5. s = pod[p] \/ s = "running"
  OBVIOUS
<1>6. Import \in Jobs \cup {"verify"}
  BY Names
<1>. HIDE DEF p, s
<1>7. pod' \in [Jobs \cup {"verify"} -> Pods]
  BY <1>1, <1>3
<1>8. pod'[Import] = IF p = Import THEN s ELSE pod[Import]
  BY <1>1, <1>3, <1>6
<1>. QED
  BY <1>4, <1>5, <1>7, <1>8

LEMMA CreateArchivePodExport ==
    ASSUME IInv, CreateArchivePod(Export)
    PROVE  IInv'
<1>. DEFINE t == thread[Export]
<1>1. TypeOK /\ t.at = "launch" /\ UNCHANGED <<agent, volume, object>>
  BY DEF CreateArchivePod, IInv
<1>2. t.row.state = "running" /\ t.at \notin Late /\ ExportStage("launched", t.row)
  BY <1>1 DEF IInv, ExportInv, ExportStage, Finishing, Late
<1>3. \/ Proceed(Export, "launched") /\ UNCHANGED spent
         /\ pod' = [pod EXCEPT ![PodFor(Export)] = IF @ = "none" THEN "running" ELSE @]
      \/ Fault /\ Fail(Export) /\ UNCHANGED pod
  BY DEF CreateArchivePod
<1>4. SpentOK'
  BY <1>1, <1>3, Spending
<1>5. CASE Fail(Export) /\ UNCHANGED pod
  BY <1>1, <1>2, <1>4, <1>5, ExportGivesUp DEF Fail, Active, Ended, cluster
<1>6. CASE /\ Proceed(Export, "launched")
           /\ pod' = [pod EXCEPT ![PodFor(Export)] = IF @ = "none" THEN "running" ELSE @]
  <2>1. pod' \in [Jobs \cup {"verify"} -> Pods] /\ pod'[Import] = pod[Import]
    BY <1>1, <1>6, Names, PodMade
  <2>2. object' \in BOOLEAN /\ "launched" \in Stages /\ "launched" \notin Late
    BY <1>1, Typed DEF WorldOK, Stages, Late
  <2>. QED
    BY <1>1, <1>2, <1>4, <1>6, <2>1, <2>2, ExportProceeds
<1>. QED
  BY <1>3, <1>5, <1>6

LEMMA PodCreatedExport ==
    ASSUME IInv, PodCreated(Export)
    PROVE  IInv'
<1>. DEFINE t == thread[Export]
<1>1. PICK r : /\ r = IF PodFor(Export) = "verify" THEN [t.row EXCEPT !.verifyStarted = TRUE]
                      ELSE [t.row EXCEPT !.started = TRUE]
               /\ Update(Export, r, "idle")
  BY DEF PodCreated
<1>2. t.at = "launched" /\ UNCHANGED <<cluster, object, spent>>
  BY DEF PodCreated
<1>3. t.row \in Rows
  BY Typed, Names DEF IInv
<1>4. /\ r \in Rows /\ SameStep(r, t.row) /\ SameHold(r, t.row) /\ r.finishing = t.row.finishing
  BY <1>1, <1>3, Marks
<1>5. t.row.state = "running" /\ t.row.finishing = ""
  BY <1>2 DEF IInv, ExportInv, ExportStage, Finishing
<1>6. "idle" \in Stages /\ {"idle", t.at} \cap Late = {}
  BY <1>2 DEF Stages, Late
<1>. QED
  BY <1>1, <1>2, <1>4, <1>5, <1>6, ExportMarks

LEMMA NoPodsLeft ==
    ASSUME TypeOK, NEW j \in Jobs
    PROVE  /\ NoPods(j) \in [Jobs \cup {"verify"} -> Pods]
           /\ j = Export => NoPods(j)[Import] = pod[Import]
           /\ NoPods(Import)[Import] = "none"
<1>1. pod \in [Jobs \cup {"verify"} -> Pods] /\ DOMAIN pod = Jobs \cup {"verify"}
  BY Typed DEF WorldOK
<1>. QED
  BY <1>1, Names DEF NoPods, Pods, Import

LEMMA WatchExportPodKeeps ==
    ASSUME IInv, WatchExportPod
    PROVE  IInv'
<1>. DEFINE t == thread[Export]
<1>1. /\ TypeOK /\ t.at = "step" /\ t.row.state = "running" /\ t.row.step = "archiving"
      /\ UNCHANGED <<agent, volume, object, spent>>
  BY DEF WatchExportPod, Stepping, IInv
<1>2. SpentOK' /\ object' \in BOOLEAN /\ pod \in [Jobs \cup {"verify"} -> Pods]
  BY <1>1, Spending, Typed DEF WorldOK
<1>3. ExportStage("token", t.row) /\ ExportStage("free", t.row)
  BY <1>1 DEF IInv, ExportInv, ExportStage, Finishing, Late
<1>4. {"token", "free"} \subseteq Stages /\ {"token", "free", t.at} \cap Late = {}
  BY <1>1 DEF Stages, Late
<1>5. \/ AfterUpload
      \/ pod' = pod /\ Proceed(Export, "token")
      \/ pod' = pod /\ (WaitOrFail(Export) \/ Fail(Export))
  BY DEF WatchExportPod
<1>6. CASE AfterUpload
  <2>1. Proceed(Export, "free") /\ SetPod(Export, "none")
    BY <1>6 DEF AfterUpload, SetPod
  <2>2. "none" \in Pods
    BY DEF Pods
  <2>3. pod' \in [Jobs \cup {"verify"} -> Pods] /\ pod'[Import] = pod[Import]
    BY <1>1, <2>1, <2>2, Names, PodSet
  <2>. QED
    BY <1>1, <1>2, <1>3, <1>4, <2>1, <2>3, ExportProceeds
<1>7. CASE pod' = pod /\ Proceed(Export, "token")
  BY <1>1, <1>2, <1>3, <1>4, <1>7, ExportProceeds
<1>8. CASE pod' = pod /\ (WaitOrFail(Export) \/ Fail(Export))
  BY <1>1, <1>2, <1>4, <1>8, ExportGivesUp DEF Fail, Active, Ended, cluster
<1>. QED
  BY <1>5, <1>6, <1>7, <1>8

LEMMA VerifyStoredKeeps ==
    ASSUME IInv, VerifyStored
    PROVE  IInv'
<1>. DEFINE t == thread[Export]
<1>1. /\ TypeOK /\ t.at = "step" /\ t.row.state = "running" /\ t.row.step = "verifying"
      /\ UNCHANGED <<agent, volume, object, spent>>
  BY DEF VerifyStored, Stepping, IInv
<1>2. SpentOK' /\ object' \in BOOLEAN /\ pod \in [Jobs \cup {"verify"} -> Pods]
  BY <1>1, Spending, Typed DEF WorldOK
<1>3. ExportStage("token", t.row) /\ ExportStage("verified", t.row)
  BY <1>1 DEF IInv, ExportInv, ExportStage, Finishing, Late
<1>4. {"token", "verified"} \subseteq Stages /\ {"token", "verified", t.at} \cap Late = {}
  BY <1>1 DEF Stages, Late
<1>5. \/ pod' = NoPods(Export) /\ Proceed(Export, "verified")
      \/ pod' = pod /\ Proceed(Export, "token")
      \/ pod' = pod /\ (WaitOrFail(Export) \/ Fail(Export))
  BY DEF VerifyStored
<1>6. CASE pod' = NoPods(Export) /\ Proceed(Export, "verified")
  <2>1. pod' \in [Jobs \cup {"verify"} -> Pods] /\ pod'[Import] = pod[Import]
    BY <1>1, <1>6, Names, NoPodsLeft
  <2>. QED
    BY <1>1, <1>2, <1>3, <1>4, <1>6, <2>1, ExportProceeds
<1>7. CASE pod' = pod /\ Proceed(Export, "token")
  BY <1>1, <1>2, <1>3, <1>4, <1>7, ExportProceeds
<1>8. CASE pod' = pod /\ (WaitOrFail(Export) \/ Fail(Export))
  BY <1>1, <1>2, <1>4, <1>8, ExportGivesUp DEF Fail, Active, Ended, cluster
<1>. QED
  BY <1>5, <1>6, <1>7, <1>8

LEMMA ReleasedAgent ==
    ASSUME NEW a \in Agents, NEW r \in Rows
    PROVE  LET b == Released(a, r) IN
           /\ b \in Agents /\ b.exists = a.exists /\ b.phase = a.phase
           /\ b.pod = a.pod /\ b.building = a.building
           /\ ~r.hold \/ ~a.exists => b = a
           /\ r.hold /\ a.exists =>
                 /\ ~b.hold /\ ~b.mark
                 /\ b.desired = IF a.mark /\ r.paused /\ a.desired = "Stopped" /\ r.prior # ""
                                THEN r.prior ELSE a.desired
<1>. DEFINE d == IF a.mark /\ r.paused /\ a.desired = "Stopped" /\ r.prior # ""
                 THEN r.prior ELSE a.desired
            c == [a EXCEPT !.hold = FALSE, !.mark = FALSE, !.desired = d]
<1>1. d \in {"", "Running", "Stopped"}
  BY DEF Agents, Rows
<1>2. Released(a, r) = IF ~r.hold \/ ~a.exists THEN a ELSE c
  BY DEF Released
<1>. HIDE DEF d
<1>3. /\ c \in Agents /\ c.exists = a.exists /\ c.phase = a.phase /\ c.pod = a.pod
      /\ c.building = a.building /\ ~c.hold /\ ~c.mark /\ c.desired = d
  BY <1>1 DEF Agents
<1>. HIDE DEF c
<1>. QED
  BY <1>2, <1>3 DEF d

\* releaseAgent gives the source agent back, and may be repeated.
LEMMA ReleaseKeeps ==
    ASSUME TypeOK, ExportInv, thread[Export].row.state \in Active, thread[Export].at \notin Late,
           SetAgent(Export, Released(agent[Export], thread[Export].row)), asked' = asked, row' = row
    PROVE  /\ AgentKept /\ GivenBack'
           /\ agent' \in [Jobs -> Agents] /\ agent'[Import] = agent[Import]
<1>. DEFINE a == agent[Export]
            r == thread[Export].row
            b == Released(a, r)
<1>1. /\ agent \in [Jobs -> Agents] /\ a \in Agents /\ r \in Rows
      /\ asked.intent \in {"Running", "Stopped"}
  BY Typed, Names DEF WorldOK
<1>2. SameHold(r, row[Export]) /\ SameStep(r, row[Export])
  BY DEF ExportInv, ExportCopies
<1>3. IF r.hold THEN Held(row[Export]) ELSE GivenBack
  BY <1>2 DEF ExportInv, HoldInv, HoldOK, SameHold
<1>4. /\ b \in Agents /\ b.exists = a.exists /\ b.phase = a.phase
      /\ ~r.hold \/ ~a.exists => b = a
      /\ r.hold /\ a.exists =>
            /\ ~b.hold /\ ~b.mark
            /\ b.desired = IF a.mark /\ r.paused /\ a.desired = "Stopped" /\ r.prior # ""
                           THEN r.prior ELSE a.desired
  BY <1>1, ReleasedAgent
<1>5. agent' = [agent EXCEPT ![Export] = b]
  BY DEF SetAgent
<1>. HIDE DEF b
<1>6. agent' \in [Jobs -> Agents] /\ agent'[Export] = b /\ agent'[Import] = agent[Import]
  BY <1>1, <1>4, <1>5, Names
<1>7. ASSUME r.hold, a.exists
      PROVE  /\ asked.verb = "" => /\ row[Export].prior = asked.intent
                                   /\ StandingIntent(b) = asked.intent
             /\ b.desired = "" => b.phase # "Stopped"
  <2>1. /\ a.mark => row[Export].paused /\ a.desired = "Stopped"
        /\ asked.verb = "" => /\ row[Export].prior = asked.intent
                              /\ ~a.mark => StandingIntent(a) = asked.intent
        /\ a.desired = "" => a.phase # "Stopped"
    BY <1>3, <1>7 DEF Held, ExportInv, HoldInv
  <2>2. row[Export].prior = r.prior /\ row[Export].paused = r.paused
    BY <1>2 DEF SameHold, SameStep
  <2>3. CASE a.mark
    BY <1>1, <1>4, <1>7, <2>1, <2>2, <2>3 DEF StandingIntent
  <2>4. CASE ~a.mark
    BY <1>4, <1>7, <2>1, <2>4 DEF StandingIntent
  <2>. QED
    BY <2>3, <2>4
<1>8. GivenBack'
  <2>1. CASE r.hold /\ a.exists
    BY <1>4, <1>6, <1>7, <2>1 DEF GivenBack
  <2>2. CASE ~r.hold
    BY <1>3, <1>4, <1>6, <2>2 DEF GivenBack
  <2>3. CASE ~a.exists
    BY <1>4, <1>6, <2>3 DEF GivenBack
  <2>. QED
    BY <2>1, <2>2, <2>3
<1>9. row[Export].hold => Held(row[Export])'
  <2>1. row[Export].hold = r.hold
    BY <1>2 DEF SameHold
  <2>. QED
    BY <1>4, <1>6, <1>7, <2>1 DEF Held
<1>10. (agent[Export].desired = "" => agent[Export].phase # "Stopped")'
  <2>1. a.desired = "" => a.phase # "Stopped"
    BY DEF ExportInv, HoldInv
  <2>2. b = a \/ (r.hold /\ a.exists)
    BY <1>4
  <2>. QED
    BY <1>6, <1>7, <2>1, <2>2
<1>. QED
  BY <1>6, <1>8, <1>9, <1>10 DEF AgentKept

\* releaseAgent and what it notes on the copy, as a step of the work or of finish.
LEMMA ExportReleases ==
    ASSUME IInv, NEW at \in {"freed", "erase"},
           thread[Export].row.state \in Active, thread[Export].at \notin Late,
           ExportStage(at, Freed(thread[Export].row)),
           SetAgent(Export, Released(agent[Export], thread[Export].row)),
           WithRow(Export, at, Freed(thread[Export].row)),
           UNCHANGED <<pod, volume, object, spent>>
    PROVE  IInv'
<1>. DEFINE t == thread[Export]
            f == Freed(t.row)
<1>1. TypeOK /\ ExportInv /\ t.row \in Rows /\ at \in Stages /\ at # "idle"
  BY Typed, Names DEF IInv, Stages
<1>2. /\ f \in Rows /\ ~f.hold /\ SameStep(f, t.row) /\ f.finishing = t.row.finishing
  BY <1>1, FreedRow
<1>3. /\ UNCHANGED <<row, up, lapsed, late, asked>>
      /\ thread' = [thread EXCEPT ![Export] = Moved(Export, at, f)]
  BY DEF WithRow
<1>4. /\ AgentKept /\ GivenBack'
      /\ agent' \in [Jobs -> Agents] /\ agent'[Import] = agent[Import]
  BY <1>1, <1>3, ReleaseKeeps
<1>5. WorldOK'
  BY <1>1, <1>4, Typed, Spending DEF WorldOK
<1>. HIDE DEF f
<1>6. /\ TypeOK' /\ ImportInv' /\ Comes(Export, at, f) /\ Kept("deleter")
  BY <1>1, <1>2, <1>3, <1>4, <1>5, Names, MoveBeside
<1>7. thread'[Export].at = at /\ thread'[Export].row = f
  BY <1>1, <1>6 DEF Comes
<1>8. SameStep(f, row[Export]) /\ at \in Late /\ f.state # "completed"
  BY <1>2 DEF IInv, ExportInv, ExportCopies, SameStep, Late, Active
<1>9. ExportStage(at, f)
  BY DEF f
<1>10. ExportInv'
  BY <1>1, <1>3, <1>4, <1>6, <1>7, <1>8, <1>9, ExportMoves
<1>. QED
  BY <1>6, <1>10 DEF IInv

LEMMA ReleaseAgentExport ==
    ASSUME IInv, ReleaseAgent(Export)
    PROVE  IInv'
<1>. DEFINE t == thread[Export]
<1>1. /\ t.at = "free" /\ SetAgent(Export, Released(agent[Export], t.row))
      /\ WithRow(Export, "freed", Freed(t.row))
      /\ UNCHANGED <<pod, volume, object, spent>>
  BY DEF ReleaseAgent
<1>2. t.row.state = "running" /\ t.row.step = "archiving" /\ t.row.finishing = "" /\ t.row \in Rows
  BY <1>1, Typed, Names DEF IInv, ExportInv, ExportStage, Finishing
<1>3. ExportStage("freed", Freed(t.row))
  BY <1>2, FreedRow DEF ExportStage, SameStep, Finishing, Late
<1>4. t.row.state \in Active /\ t.at \notin Late
  BY <1>1, <1>2 DEF Active, Late
<1>. QED
  BY <1>1, <1>3, <1>4, ExportReleases

LEMMA AgentReleasedExport ==
    ASSUME IInv, AgentReleased(Export)
    PROVE  IInv'
<1>. DEFINE t == thread[Export]
            r == [t.row EXCEPT !.step = "verifying"]
<1>1. t.at = "freed" /\ Update(Export, r, "idle") /\ UNCHANGED <<cluster, object, spent>>
  BY DEF AgentReleased
<1>2. /\ TypeOK /\ t.row \in Rows /\ t.row.state = "running" /\ t.row.finishing = ""
      /\ ~t.row.hold /\ GivenBack
  BY <1>1, Typed, Names DEF IInv, ExportInv, ExportStage, HoldInv, Finishing, Late
<1>3. /\ r \in Rows /\ r.step = "verifying" /\ r.state = "running" /\ ~r.hold /\ r.finishing = ""
  BY <1>2, StepRow DEF SameHold
<1>. HIDE DEF r
<1>4. HoldOK(r)
  BY <1>2, <1>3 DEF HoldOK
<1>5. "idle" \in Stages /\ "idle" \notin Late
  BY DEF Stages, Late
<1>. QED
  BY <1>1, <1>2, <1>3, <1>4, <1>5, ExportAdvances, Spending

LEMMA VerifiedKeeps ==
    ASSUME IInv, Verified
    PROVE  IInv'
<1>. DEFINE t == thread[Export]
            r == [t.row EXCEPT !.state = "completed", !.step = ""]
<1>1. t.at = "verified" /\ Update(Export, r, "idle") /\ UNCHANGED <<cluster, object, spent>>
  BY DEF Verified
<1>2. /\ TypeOK /\ t.row \in Rows /\ t.row.state = "running" /\ t.row.step = "verifying"
      /\ t.row.finishing = ""
  BY <1>1, Typed, Names DEF IInv, ExportInv, ExportStage, Finishing
<1>3. ~row[Export].hold /\ ~t.row.hold /\ GivenBack
  BY <1>1, <1>2 DEF IInv, ExportInv, ExportCopies, HoldInv, HoldOK, SameStep, SameHold, Active, Late
<1>4. /\ r \in Rows /\ r.step = "" /\ r.state = "completed" /\ ~r.hold /\ r.finishing = ""
  BY <1>2, <1>3, StateRow DEF SameHold
<1>. HIDE DEF r
<1>5. HoldOK(r)
  BY <1>3, <1>4 DEF HoldOK
<1>6. "idle" \in Stages /\ "idle" \notin Late
  BY DEF Stages, Late
<1>. QED
  BY <1>1, <1>2, <1>4, <1>5, <1>6, ExportAdvances, Spending

\* The bytes of a completed archive go, and then the row says so.
LEMMA ExpiredRow ==
    ASSUME TypeOK, ExportInv, NEW th \in {Export, "deleter"}, thread[th].row.state = "completed"
    PROVE  LET r == [thread[th].row EXCEPT !.state = "expired"] IN
           /\ r \in Rows /\ r.state = "expired"
           /\ thread[th].fresh => HoldOK(r) /\ row[Export].state = "completed"
<1>. DEFINE c == thread[th].row
            r == [c EXCEPT !.state = "expired"]
<1>1. c \in Rows /\ th \in Threads
  BY Typed, Names
<1>2. /\ r \in Rows /\ r.state = "expired" /\ r.step = c.step /\ r.hold = c.hold
      /\ r.finishing = c.finishing
  BY <1>1, StateRow
<1>. HIDE DEF r
<1>3. ASSUME thread[th].fresh PROVE HoldOK(r) /\ row[Export].state = "completed"
  <2>1. c = row[Export]
    BY <1>3 DEF ExportInv, ExportCopies
  <2>2. ~c.hold /\ c.finishing = "" /\ GivenBack
    BY <2>1 DEF ExportInv, HoldInv, HoldOK, Terminal, Active
  <2>. QED
    BY <1>2, <2>1, <2>2 DEF HoldOK
<1>. QED
  BY <1>2, <1>3 DEF r

LEMMA ShredExport ==
    ASSUME IInv, Shred(Export) \/ Shredded(Export)
    PROVE  IInv'
<1>. DEFINE t == thread[Export]
<1>1. CASE Shred(Export)
  <2>1. t.at = "step" /\ t.row.state = "completed" /\ Proceed(Export, "shredded")
        /\ object' \in BOOLEAN /\ UNCHANGED <<cluster, spent>>
    BY <1>1 DEF Shred
  <2>2. ExportStage("shredded", t.row)
    BY <2>1 DEF IInv, ExportInv, ExportStage, Finishing, Late
  <2>3. pod' \in [Jobs \cup {"verify"} -> Pods] /\ pod'[Import] = pod[Import] /\ SpentOK'
    BY <2>1, Typed, Spending DEF IInv, WorldOK, cluster
  <2>4. "shredded" \in Stages /\ {"shredded", t.at} \cap Late = {}
    BY <2>1 DEF Stages, Late
  <2>. QED
    BY <2>1, <2>2, <2>3, <2>4, ExportProceeds DEF cluster
<1>2. CASE Shredded(Export)
  <2>. DEFINE r == [t.row EXCEPT !.state = "expired"]
  <2>1. t.at = "shredded" /\ Update(Export, r, "idle") /\ UNCHANGED <<cluster, object, spent>>
    BY <1>2 DEF Shredded
  <2>2. t.row.state = "completed" /\ TypeOK /\ ExportInv
    BY <2>1 DEF IInv, ExportInv, ExportStage
  <2>3. r \in Rows /\ (t.fresh => HoldOK(r))
    BY <2>2, ExpiredRow
  <2>. HIDE DEF r
  <2>4. "idle" \in Stages /\ "idle" \notin Late
    BY DEF Stages, Late
  <2>. QED
    BY <2>1, <2>2, <2>3, <2>4, ExportAdvances, Spending
<1>. QED
  BY <1>1, <1>2

LEMMA CleanupExport ==
    ASSUME IInv, CleanupPods(Export) \/ EraseBytes(Export)
    PROVE  IInv'
<1>. DEFINE t == thread[Export]
<1>1. TypeOK /\ SpentOK' /\ agent' = agent /\ volume' = volume
  BY Spending DEF IInv, CleanupPods, EraseBytes, cluster
<1>2. /\ object' \in BOOLEAN /\ pod' \in [Jobs \cup {"verify"} -> Pods]
      /\ pod'[Import] = pod[Import]
  <2>1. CASE CleanupPods(Export)
    BY <1>1, <2>1, Names, Typed, NoPodsLeft DEF CleanupPods, WorldOK
  <2>2. CASE EraseBytes(Export)
    <3>1. object' = (object /\ JobOf(Export) # Export) /\ pod' = pod
      BY <2>2 DEF EraseBytes, cluster
    <3>2. pod \in [Jobs \cup {"verify"} -> Pods]
      BY <1>1, Typed DEF WorldOK
    <3>. QED
      BY <3>1, <3>2
  <2>. QED
    BY <2>1, <2>2
<1>3. CASE CleanupPods(Export)
  <2>1. t.at = "clean" /\ Proceed(Export, "letgo")
    BY <1>3 DEF CleanupPods
  <2>2. ExportStage("letgo", t.row)
    BY <2>1 DEF IInv, ExportInv, ExportStage, Finishing, Late
  <2>3. "letgo" \in Stages /\ {"letgo", t.at} \cap Late = {}
    BY <2>1 DEF Stages, Late
  <2>. QED
    BY <1>1, <1>2, <2>1, <2>2, <2>3, ExportProceeds
<1>4. CASE EraseBytes(Export)
  <2>1. t.at = "erase" /\ Proceed(Export, "end")
    BY <1>4 DEF EraseBytes
  <2>2. ExportStage("end", t.row)
    BY <2>1 DEF IInv, ExportInv, ExportStage, Finishing, Late
  <2>3. "end" \in Stages /\ {"end", t.at} \subseteq Late
    BY <2>1 DEF Stages, Late
  <2>. QED
    BY <1>1, <1>2, <2>1, <2>2, <2>3, ExportProceeds
<1>. QED
  BY <1>3, <1>4

LEMMA LetGoExport ==
    ASSUME IInv, LetGo(Export)
    PROVE  IInv'
<1>. DEFINE t == thread[Export]
<1>1. /\ t.at = "letgo" /\ SetAgent(Export, Released(agent[Export], t.row))
      /\ WithRow(Export, "erase", Freed(t.row))
      /\ UNCHANGED <<pod, volume, object, spent>>
  BY Names DEF LetGo
<1>2. t.row.state \in Active /\ t.row.finishing # "" /\ t.row \in Rows /\ t.at \notin Late
  BY <1>1, Typed, Names DEF IInv, ExportInv, ExportStage, Finishing, Late
<1>3. ExportStage("erase", Freed(t.row))
  BY <1>2, FreedRow DEF ExportStage, SameStep, Finishing, Late
<1>. QED
  BY <1>1, <1>2, <1>3, ExportReleases

LEMMA EndExport ==
    ASSUME IInv, End(Export)
    PROVE  IInv'
<1>. DEFINE t == thread[Export]
            r == [t.row EXCEPT !.state = t.row.finishing, !.finishing = ""]
<1>1. t.at = "end" /\ Update(Export, r, "idle") /\ UNCHANGED <<cluster, object, spent>>
  BY DEF End
<1>2. TypeOK /\ t.row \in Rows /\ t.row.finishing # "" /\ ~t.row.hold /\ GivenBack
  BY <1>1, Typed, Names DEF IInv, ExportInv, ExportStage, HoldInv, Finishing, Late
<1>3. r \in Rows /\ r.state \in Ended /\ ~r.hold /\ r.finishing = ""
  BY <1>2, EndRow DEF SameHold
<1>. HIDE DEF r
<1>4. HoldOK(r)
  BY <1>2, <1>3 DEF HoldOK, Ended
<1>5. "idle" \in Stages /\ "idle" \notin Late
  BY DEF Stages, Late
<1>. QED
  BY <1>1, <1>2, <1>3, <1>4, <1>5, ExportAdvances, Spending

-----------------------------------------------------------------------------
(* The deletion of an archive.                                             *)

\* The deletion moves to stage at with copy r, and saves nothing.
LEMMA DeleterMoves ==
    ASSUME ExportInv, NEW at, NEW r, thread'["deleter"].at = at, thread'["deleter"].row = r,
           Kept(Export), row' = row, agent'[Export] = agent[Export],
           (asked'.verb = asked.verb /\ asked'.intent = asked.intent),
           DeleterStage(at, r),
           thread'["deleter"].fresh /\ r.state = "completed" => r = row[Export]
    PROVE  ExportInv'
<1>1. ExportStage(thread[Export].at, thread[Export].row)'
  BY DEF ExportInv, Kept
<1>2. ExportCopies'
  BY Names DEF ExportInv, ExportCopies, Kept
<1>3. HoldInv'
  <2>1. (GivenBack <=> GivenBack') /\ (Held(row[Export]) <=> Held(row[Export])')
    BY DEF GivenBack, Held
  <2>. QED
    BY <2>1 DEF ExportInv, HoldInv, HoldOK, Kept
<1>. QED
  BY <1>1, <1>2, <1>3 DEF ExportInv

LEMMA DeleterGoes ==
    ASSUME IInv, NEW at \in {"idle", "shredded"}, Proceed("deleter", at),
           at = "idle" \/ thread["deleter"].at # "idle",
           UNCHANGED cluster, object' \in BOOLEAN, SpentOK'
    PROVE  IInv'
<1>1. TypeOK /\ ExportInv /\ at \in Stages /\ WorldOK'
  BY Typed DEF IInv, WorldOK, cluster, Stages
<1>2. TypeOK' /\ ImportInv'
  BY <1>1, Names, GoBeside DEF cluster
<1>3. Comes("deleter", at, thread["deleter"].row) /\ Kept(Export) /\ row' = row /\ asked' = asked
  BY <1>1, Names, GoesTo DEF Proceed
<1>4. PICK r : r = IF at = "idle" THEN NoRow ELSE thread["deleter"].row
  OBVIOUS
<1>5. thread'["deleter"].at = at /\ thread'["deleter"].row = r
  BY <1>3, <1>4 DEF Comes
<1>6. DeleterStage(at, r)
  BY <1>1, <1>4 DEF ExportInv, DeleterStage
<1>7. thread'["deleter"].fresh /\ r.state = "completed" => r = row[Export]
  BY <1>1, <1>3, <1>4 DEF ExportInv, ExportCopies, Comes
<1>8. ExportInv'
  BY <1>1, <1>3, <1>5, <1>6, <1>7, DeleterMoves DEF cluster
<1>. QED
  BY <1>2, <1>8 DEF IInv

LEMMA ShredDeleter ==
    ASSUME IInv, Shred("deleter")
    PROVE  IInv'
<1>1. /\ thread["deleter"].at = "step" /\ Proceed("deleter", "shredded")
      /\ object' \in BOOLEAN /\ UNCHANGED <<cluster, spent>>
  BY DEF Shred
<1>. QED
  BY <1>1, DeleterGoes, Spending DEF IInv

LEMMA ShreddedDeleter ==
    ASSUME IInv, Shredded("deleter")
    PROVE  IInv'
<1>. DEFINE t == thread["deleter"]
            r == [t.row EXCEPT !.state = "expired"]
<1>1. t.at = "shredded" /\ Update("deleter", r, "idle") /\ UNCHANGED <<cluster, object, spent>>
  BY DEF Shredded
<1>2. TypeOK /\ ExportInv /\ t.row.state = "completed"
  BY <1>1 DEF IInv, ExportInv, DeleterStage
<1>3. r \in Rows /\ r.state = "expired" /\ (t.fresh => HoldOK(r) /\ row[Export].state = "completed")
  BY <1>2, ExpiredRow
<1>. HIDE DEF r
<1>4. "idle" \in Stages
  BY DEF Stages
<1>5. TypeOK' /\ ImportInv'
  BY <1>1, <1>2, <1>3, <1>4, ExportSaveBeside, Spending
<1>6. /\ asked' = asked /\ Kept(Export)
      /\ thread'["deleter"].at = "idle" /\ thread'["deleter"].row = NoRow
      /\ row'[Export] = row[Export] \/ (t.fresh /\ row'[Export] = r)
  BY <1>1, <1>2, <1>3, <1>4, Names, Saves DEF Comes
<1>7. DeleterStage("idle", NoRow)
  BY DEF DeleterStage
<1>8. ExportCopies'
  <2>1. thread[Export].row.state \in Active => row[Export].state \in Active
    BY <1>2 DEF ExportInv, ExportCopies, SameStep
  <2>2. CASE row'[Export] = row[Export]
    BY <1>2, <1>6, <2>2, Names, NoRowFields DEF ExportInv, ExportCopies, Kept
  <2>3. CASE t.fresh /\ row'[Export] = r
    <3>1. thread[Export].row.state \notin Active /\ row'[Export] # row[Export]
      BY <1>3, <2>1, <2>3 DEF Active
    <3>. QED
      BY <1>6, <3>1, Names, NoRowFields DEF ExportCopies, Kept
  <2>. QED
    BY <1>6, <2>2, <2>3
<1>9. HoldInv'
  <2>1. agent'[Export] = agent[Export]
    BY <1>1 DEF cluster
  <2>2. (GivenBack <=> GivenBack') /\ (Held(row[Export])' <=> Held(row'[Export]))
    BY <1>6, <2>1 DEF GivenBack, Held
  <2>3. HoldOK(row'[Export])
    BY <1>2, <1>3, <1>6 DEF ExportInv, HoldInv
  <2>4. HoldOK(row[Export])'
    BY <2>2, <2>3 DEF HoldOK
  <2>. QED
    BY <1>2, <1>6, <2>1, <2>2, <2>4 DEF ExportInv, HoldInv, Kept
<1>10. ExportStage(thread[Export].at, thread[Export].row)'
  BY <1>2, <1>6 DEF ExportInv, Kept
<1>. QED
  BY <1>5, <1>6, <1>7, <1>8, <1>9, <1>10 DEF IInv, ExportInv

LEMMA DeleteArchiveKeeps ==
    ASSUME IInv, DeleteArchive
    PROVE  IInv'
<1>1. /\ TypeOK /\ ExportInv /\ ImportInv /\ row[Export] \in Rows /\ "step" \in Stages
  BY Typed DEF IInv, Stages
<1>2. /\ row[Export].state = "completed"
      /\ thread' = [thread EXCEPT !["deleter"] =
                      [Idle EXCEPT !.at = "step", !.row = row[Export], !.fresh = TRUE]]
      /\ UNCHANGED <<row, up, cluster, object, late, lapsed>>
      /\ asked' = [asked EXCEPT !.deletion = TRUE] /\ SpentOK'
  BY <1>1, Spending DEF DeleteArchive, time
<1>3. /\ thread' \in [Threads -> Copies]
      /\ thread'["deleter"].at = "step" /\ thread'["deleter"].row = row[Export]
      /\ \A t \in Threads \ {"deleter"} : thread'[t] = thread[t]
  BY <1>1, <1>2, Names, Reads
<1>4. \A t \in Threads \ {"deleter"} : Kept(t)
  BY <1>2, <1>3 DEF Kept
<1>5. /\ asked' \in [intent: {"Running", "Stopped"}, verb: {"", "Running", "Stopped"},
                     deletion: BOOLEAN, importing: BOOLEAN]
      /\ asked'.verb = asked.verb /\ asked'.intent = asked.intent
  BY <1>1, <1>2, Typed
<1>6. TypeOK'
  BY <1>1, <1>2, <1>3, <1>5, SameWorld DEF TypeOK, WorldOK, SpentOK, Pods, Copies
<1>7. ImportInv'
  BY <1>1, <1>2, <1>4, Names, BesideImport DEF cluster
<1>8. DeleterStage("step", row[Export])
  BY <1>1, <1>2 DEF ExportInv, HoldInv, HoldOK, DeleterStage, Active
<1>9. ExportInv'
  <2>1. PICK r : r = row[Export]
    OBVIOUS
  <2>. QED
    BY <1>1, <1>2, <1>3, <1>4, <1>5, <1>8, <2>1, Names, DeleterMoves DEF cluster
<1>. QED
  BY <1>6, <1>7, <1>9 DEF IInv


-----------------------------------------------------------------------------
(* The import's goroutine, and the end of its job by it or by its handler.  *)

\* A save, of an agent and pods that stay as they are.
LEMMA ImportAdvances ==
    ASSUME IInv, NEW th \in Importers, NEW r \in Rows, NEW next \in Stages,
           Update(th, r, next), UNCHANGED <<agent, pod, object>>, SpentOK',
           thread[th].at # "idle",
           volume' = volume \/ (agent[Import].exists /\ volume = "none" /\ volume' = "empty"),
           next = "idle" \/ ImportStage(th, next, r), CopyOK(r),
           next \notin {"create", "abandon", "erase", "end"},
           Uncreated => ~r.uid,
           r.state = "none" => thread[th].row.state = "none",
           agent[Import].exists /\ r.restored => volume = "full",
           (thread[th].fresh /\ Closing(row[Import])) \/ next \in Finishing => Closing(r),
           r.state \in Ended /\ r.finishing = "" => Discarded(r)
    PROVE  IInv'
<1>1. TypeOK /\ ImportInv
  BY DEF IInv
<1>2. WorldOK'
  BY <1>1, Typed DEF WorldOK
<1>3. ImportInv'
  BY <1>1, ImportSaves
<1>4. TypeOK' /\ ExportInv'
  BY <1>2, ImportSaveBeside
<1>. QED
  BY <1>3, <1>4 DEF IInv

\* It moves on with its copy; pods come and go.
LEMMA ImportProceeds ==
    ASSUME IInv, NEW th \in Importers, NEW at \in Stages, Proceed(th, at),
           agent' = agent, volume' = volume, object' \in BOOLEAN, SpentOK',
           thread[th].at # "idle",
           pod' \in [Jobs \cup {"verify"} -> Pods],
           pod'[Import] = "succeeded" => pod[Import] = "succeeded",
           Uncreated => pod'[Import] = "none",
           at = "idle" \/ ImportStage(th, at, thread[th].row),
           at # "create", at = "abandon" => thread[th].at = "create",
           at \in Finishing => thread[th].at \in Finishing,
           at \in {"erase", "end"} => Discarded(thread[th].row)
    PROVE  IInv'
<1>1. TypeOK /\ ImportInv /\ th \in Threads /\ WorldOK' /\ GoTo(th, at) /\ row' = row
  BY Typed, Names DEF IInv, WorldOK, Proceed
<1>2. ImportInv'
  BY <1>1, ImportGoes
<1>3. TypeOK' /\ ExportInv'
  BY <1>1, GoBeside
<1>. QED
  BY <1>2, <1>3 DEF IInv

LEMMA DispatchImport ==
    ASSUME IInv, Dispatch(Import)
    PROVE  IInv'
<1>1. TypeOK /\ ExportInv /\ ImportInv
  BY DEF IInv
<1>2. UNCHANGED <<row, up, lapsed, late, asked, cluster, object, spent>>
  BY DEF Dispatch, time
<1>3. PICK at \in {"clean", "step"} :
         /\ at = "clean" <=> row[Import].finishing # ""
         /\ Listed(Import) /\ thread' \in [Threads -> Copies]
         /\ thread'[Import].at = at /\ thread'[Import].row = row[Import]
         /\ \A t \in Threads \ {Import} : thread'[t] = thread[t]
  BY <1>1, Names, DispatchReads
<1>4. \A t \in Threads \ {Import} : Kept(t)
  BY <1>2, <1>3 DEF Kept
<1>5. TypeOK'
  BY <1>1, <1>2, <1>3, MoveTypes, SameWorld, Spending, Typed
<1>6. ExportInv'
  BY <1>1, <1>2, <1>4, Names, BesideExport DEF cluster
<1>7. ImportStage(Import, at, row[Import])
  <2>1. row[Import].state \in Active /\ CopyOK(row[Import])
    BY <1>1, <1>3, Names DEF Listed, ImportInv, VolumeInv
  <2>. QED
    BY <1>3, <2>1 DEF ImportStage, WorkerStage, Finishing
<1>8. VolumeKept
  BY <1>1, <1>2, <1>3, <1>4, Names, SameVolume DEF cluster, Kept
<1>9. Early' => Uncreated'
  <2>1. thread'["creator"] = thread["creator"] /\ (Early' => Early)
    BY <1>2, <1>3, Names DEF Early
  <2>2. Uncreated => Uncreated'
    BY <1>2, <1>3, <2>1, Names DEF Uncreated, cluster
  <2>. QED
    BY <1>1, <2>1, <2>2 DEF ImportInv, VolumeInv
<1>10. at \in Finishing => Closing(row[Import])
  BY <1>3 DEF Finishing, Closing
<1>. DEFINE r == row[Import]
<1>0. row[Import].state # "none"
  BY <1>3, Names DEF Listed, Active
<1>11. /\ r.state = row[Import].state /\ r.finishing = row[Import].finishing
       /\ ImportStage(Import, at, r) /\ thread'[Import].row = r
  BY <1>3, <1>7
<1>. HIDE DEF r
<1>12. ImportInv'
  BY <1>0, <1>1, <1>2, <1>3, <1>4, <1>8, <1>9, <1>10, <1>11, Names, ImportMoves
<1>. QED
  BY <1>5, <1>6, <1>12 DEF IInv

LEMMA CutShortImport ==
    ASSUME IInv, CutShort(Import)
    PROVE  IInv'
<1>1. /\ thread[Import].at # "idle" /\ \E o \in Ended : Finish(Import, o)
      /\ UNCHANGED <<cluster, object, spent>>
  BY DEF CutShort, Ended
<1>. QED
  BY <1>1, Names, ImportGivesUp, Spending DEF IInv

\* What a step of the import may rely on.
LEMMA ImportKnows ==
    ASSUME ImportInv, NEW th \in Importers
    PROVE  LET r == thread[th].row IN
           /\ CopyOK(r)
           /\ agent[Import].exists => ~Uncreated
           /\ r.uid => ~Uncreated /\ ~Early
           /\ agent[Import].exists /\ r.restored => volume = "full"
           /\ thread[th].fresh => (Closing(r) <=> Closing(row[Import]))
           /\ th = Import /\ thread[th].at = "step" => r.finishing = "" /\ r.state \in Active
<1>1. ImportStage(th, thread[th].at, thread[th].row) /\ VolumeInv
  BY DEF ImportInv
<1>2. CopyOK(thread[th].row)
  BY <1>1 DEF ImportStage
<1>3. agent[Import].exists => ~Uncreated
  BY NoAgentFields DEF Uncreated
<1>4. thread[th].row.uid => ~Uncreated /\ ~Early
  BY <1>1 DEF VolumeInv, Uncreated
<1>5. agent[Import].exists /\ thread[th].row.restored => volume = "full"
  BY <1>1 DEF VolumeInv, Restored
<1>6. thread[th].fresh => (Closing(thread[th].row) <=> Closing(row[Import]))
  BY DEF ImportInv, DiscardInv, Closing
<1>7. th = Import /\ thread[th].at = "step"
         => thread[th].row.finishing = "" /\ thread[th].row.state \in Active
  BY <1>1 DEF ImportStage, WorkerStage, Finishing
<1>. QED
  BY <1>2, <1>3, <1>4, <1>5, <1>6, <1>7

LEMMA AdoptAgentKeeps ==
    ASSUME IInv, AdoptAgent
    PROVE  IInv'
<1>. DEFINE t == thread[Import]
            r == [t.row EXCEPT !.uid = TRUE]
<1>1. /\ TypeOK /\ ImportInv /\ t.at = "step" /\ t.row.state = "queued" /\ t.row \in Rows
      /\ UNCHANGED <<agent, pod, volume, object>> /\ SpentOK'
  BY Typed, Names, Spending DEF IInv, AdoptAgent, Stepping, cluster
<1>2. /\ r \in Rows /\ r.uid /\ r.restored = t.row.restored
      /\ r.state = t.row.state /\ r.step = t.row.step /\ r.finishing = t.row.finishing
  BY <1>1, ImportRow
<1>3. WaitOrFail(Import) \/ (agent[Import].exists /\ Update(Import, r, "idle"))
  BY DEF AdoptAgent
<1>. HIDE DEF r
<1>4. CASE WaitOrFail(Import)
  BY <1>1, <1>4, Names, ImportGivesUp DEF cluster
<1>5. CASE agent[Import].exists /\ Update(Import, r, "idle")
  <2>1. /\ CopyOK(t.row) /\ ~Uncreated
        /\ agent[Import].exists /\ t.row.restored => volume = "full"
        /\ t.fresh => (Closing(t.row) <=> Closing(row[Import]))
    BY <1>1, <1>5, Names, ImportKnows
  <2>2. CopyOK(r) /\ (Closing(r) <=> Closing(t.row)) /\ r.state \notin Ended
    BY <1>1, <1>2, <2>1 DEF CopyOK, Closing, Ended
  <2>3. "idle" \in Stages /\ "idle" \notin Finishing
    BY DEF Stages, Finishing
  <2>. QED
    BY <1>1, <1>2, <1>5, <2>1, <2>2, <2>3, Names, ImportAdvances
<1>. QED
  BY <1>3, <1>4, <1>5

LEMMA NewAgentLostKeeps ==
    ASSUME IInv, NewAgentLost
    PROVE  IInv'
<1>1. thread[Import].at # "idle" /\ WaitOrFail(Import) /\ UNCHANGED <<cluster, object, spent>>
  BY DEF NewAgentLost, Stepping
<1>. QED
  BY <1>1, Names, ImportGivesUp, Spending DEF IInv

\* The goroutine stays within what it knows: it saves a row that is no more
\* closing or restored than its copy.
LEMMA ImportWorks ==
    ASSUME IInv, NEW r \in Rows, NEW next \in Stages, Update(Import, r, next),
           next = "idle" \/ ImportStage(Import, next, r), CopyOK(r),
           next \notin {"create", "abandon"} \cup Finishing,
           thread[Import].at # "idle", thread[Import].row.uid,
           r.restored => thread[Import].row.restored \/ pod[Import] = "succeeded",
           r.state \in Active \cup {"completed"},
           thread[Import].fresh => ~Closing(row[Import]) \/ Closing(r),
           UNCHANGED <<agent, pod, object, spent>>,
           volume' = volume \/ (agent[Import].exists /\ volume = "none" /\ volume' = "empty")
    PROVE  IInv'
<1>1. TypeOK /\ ImportInv
  BY DEF IInv
<1>2. ~Uncreated
  BY <1>1, Names, ImportKnows
<1>3. agent[Import].exists /\ r.restored => volume = "full"
  <2>1. r.restored => Restored
    BY Names DEF Restored
  <2>. QED
    BY <1>1, <2>1 DEF ImportInv, VolumeInv
<1>4. r.state \notin Ended /\ r.state # "none"
  BY DEF Active, Ended
<1>5. next \notin {"create", "abandon", "erase", "end"}
  BY DEF Finishing
<1>. QED
  BY <1>1, <1>2, <1>3, <1>4, <1>5, Names, ImportAdvances, Spending

LEMMA BeginRestoreKeeps ==
    ASSUME IInv, BeginRestore
    PROVE  IInv'
<1>. DEFINE t == thread[Import]
            r == [t.row EXCEPT !.state = "running", !.step = "restoring"]
<1>1. /\ TypeOK /\ ImportInv /\ t.row \in Rows
      /\ t.at = "step" /\ t.row.state = "queued" /\ t.row.uid /\ agent[Import].exists
      /\ UNCHANGED <<agent, pod, object>> /\ SpentOK'
  BY Typed, Names, Spending DEF IInv, BeginRestore, Stepping
<1>2. \/ volume' = volume /\ (Fail(Import) \/ Proceed(Import, "idle"))
      \/ /\ volume' = IF volume = "none" THEN "empty" ELSE volume
         /\ Update(Import, r, "token") /\ UNCHANGED spent
  BY DEF BeginRestore
<1>3. CASE volume' = volume /\ (Fail(Import) \/ Proceed(Import, "idle"))
  <2>1. UNCHANGED <<cluster, object>>
    BY <1>1, <1>3 DEF cluster
  <2>. QED
    BY <1>1, <1>3, <2>1, Names, ImportGivesUp DEF WaitOrFail, Proceed, Fail, Ended
<1>4. CASE /\ volume' = IF volume = "none" THEN "empty" ELSE volume
           /\ Update(Import, r, "token") /\ UNCHANGED spent
  <2>1. /\ r \in Rows /\ r.state = "running" /\ r.step = "restoring"
        /\ r.uid = t.row.uid /\ r.restored = t.row.restored /\ r.finishing = t.row.finishing
    BY <1>1, StateRow DEF SameImport
  <2>. HIDE DEF r
  <2>2. t.row.finishing = "" /\ (t.fresh => (Closing(t.row) <=> Closing(row[Import])))
    BY <1>1, Names, ImportKnows
  <2>3. CopyOK(r) /\ ImportStage(Import, "token", r)
    BY <1>1, <2>1, <2>2 DEF CopyOK, ImportStage, WorkerStage, Finishing
  <2>4. ~Closing(t.row) /\ r.state \in Active
    BY <1>1, <2>1, <2>2 DEF Closing, Active, Ended
  <2>5. "token" \in Stages /\ "token" \notin {"create", "abandon"} \cup Finishing
    BY DEF Stages, Finishing
  <2>. QED
    BY <1>1, <1>4, <2>1, <2>2, <2>3, <2>4, <2>5, ImportWorks
<1>. QED
  BY <1>2, <1>3, <1>4

\* In a stage of the restore its copy is of a running job that knows its agent.
LEMMA RestoreKnows ==
    ASSUME IInv, \/ thread[Import].at \in {"token", "launch", "launched", "free", "freed"}
                 \/ thread[Import].at = "step" /\ thread[Import].row.state = "running"
    PROVE  LET t == thread[Import] IN
           /\ TypeOK /\ ImportInv /\ t.row \in Rows /\ t.row.state = "running"
           /\ t.row.finishing = "" /\ t.row.uid /\ CopyOK(t.row) /\ ~Uncreated /\ ~Closing(t.row)
           /\ t.fresh => ~Closing(row[Import])
           /\ \A at \in {"token", "launch", "launched"} : ImportStage(Import, at, t.row)
           /\ t.row.restored => ImportStage(Import, "free", t.row)
                                   /\ ImportStage(Import, "freed", t.row)
<1>. DEFINE t == thread[Import]
<1>1. TypeOK /\ ImportInv /\ t.row \in Rows /\ ImportStage(Import, t.at, t.row)
  BY Typed, Names DEF IInv, ImportInv
<1>2. t.row.state = "running" /\ t.row.finishing = "" /\ CopyOK(t.row)
  BY <1>1 DEF ImportStage, WorkerStage, Finishing
<1>3. t.row.uid
  BY <1>2 DEF CopyOK
<1>4. ~Uncreated /\ (t.fresh => (Closing(t.row) <=> Closing(row[Import])))
  BY <1>1, <1>3, Names, ImportKnows
<1>5. ~Closing(t.row)
  BY <1>2 DEF Closing, Ended
<1>6. \A at \in {"token", "launch", "launched"} : ImportStage(Import, at, t.row)
  BY <1>2 DEF ImportStage, WorkerStage, Finishing
<1>7. t.row.restored => ImportStage(Import, "free", t.row) /\ ImportStage(Import, "freed", t.row)
  BY <1>2 DEF ImportStage, WorkerStage, Finishing
<1>. QED
  BY <1>1, <1>2, <1>3, <1>4, <1>5, <1>6, <1>7

\* A save of a running import that ends nothing.
LEMMA RestoreSaves ==
    ASSUME IInv, NEW r \in Rows, NEW next \in {"idle", "launch"}, Update(Import, r, next),
           \/ thread[Import].at \in {"token", "launch", "launched", "free", "freed"}
           \/ thread[Import].at = "step" /\ thread[Import].row.state = "running",
           next = "idle" \/ ImportStage(Import, next, r), CopyOK(r),
           r.state \in {"running", "completed"},
           r.restored => thread[Import].row.restored \/ pod[Import] = "succeeded",
           UNCHANGED <<cluster, object, spent>>
    PROVE  IInv'
<1>1. thread[Import].row.uid /\ (thread[Import].fresh => ~Closing(row[Import]))
  BY RestoreKnows
<1>2. next \in Stages /\ next \notin {"create", "abandon"} \cup Finishing
  BY DEF Stages, Finishing
<1>3. r.state \in Active \cup {"completed"} /\ UNCHANGED <<agent, pod, object, spent>>
      /\ volume' = volume
  BY DEF Active, cluster
<1>. QED
  BY <1>1, <1>2, <1>3, ImportWorks

LEMMA IssueTokenImport ==
    ASSUME IInv, IssueToken(Import)
    PROVE  IInv'
<1>. DEFINE t == thread[Import]
            r == t.row
<1>1. t.at = "token" /\ Update(Import, r, "launch") /\ UNCHANGED <<cluster, object, spent>>
  BY DEF IssueToken
<1>2. r \in Rows /\ r.state = "running" /\ CopyOK(r) /\ ImportStage(Import, "launch", r)
  BY <1>1, RestoreKnows
<1>. QED
  BY <1>1, <1>2, RestoreSaves

LEMMA CreateArchivePodImport ==
    ASSUME IInv, CreateArchivePod(Import)
    PROVE  IInv'
<1>. DEFINE t == thread[Import]
<1>1. t.at = "launch" /\ UNCHANGED <<agent, volume, object>>
  BY DEF CreateArchivePod
<1>2. /\ TypeOK /\ ImportInv /\ ~Uncreated /\ ImportStage(Import, "launched", t.row)
  BY <1>1, RestoreKnows
<1>3. \/ Proceed(Import, "launched") /\ UNCHANGED spent
         /\ pod' = [pod EXCEPT ![PodFor(Import)] = IF @ = "none" THEN "running" ELSE @]
      \/ Fault /\ Fail(Import) /\ UNCHANGED pod
  BY DEF CreateArchivePod
<1>4. SpentOK' /\ object' \in BOOLEAN
  BY <1>1, <1>2, <1>3, Spending, Typed DEF WorldOK
<1>5. CASE Fail(Import) /\ UNCHANGED pod
  BY <1>1, <1>4, <1>5, Names, ImportGivesUp DEF Fail, Ended, cluster
<1>6. CASE /\ Proceed(Import, "launched")
           /\ pod' = [pod EXCEPT ![PodFor(Import)] = IF @ = "none" THEN "running" ELSE @]
  <2>1. /\ pod' \in [Jobs \cup {"verify"} -> Pods]
        /\ pod'[Import] = pod[Import] \/ pod'[Import] = "running"
    BY <1>2, <1>6, Names, PodMade
  <2>2. "launched" \in Stages /\ "launched" \notin Finishing
    BY DEF Stages, Finishing
  <2>. QED
    BY <1>1, <1>2, <1>4, <1>6, <2>1, <2>2, Names, ImportProceeds
<1>. QED
  BY <1>3, <1>5, <1>6

LEMMA PodCreatedImport ==
    ASSUME IInv, PodCreated(Import)
    PROVE  IInv'
<1>. DEFINE t == thread[Import]
<1>1. PICK r : /\ r = IF PodFor(Import) = "verify" THEN [t.row EXCEPT !.verifyStarted = TRUE]
                      ELSE [t.row EXCEPT !.started = TRUE]
               /\ Update(Import, r, "idle")
  BY DEF PodCreated
<1>2. t.at = "launched" /\ UNCHANGED <<cluster, object, spent>>
  BY DEF PodCreated
<1>3. t.row \in Rows /\ t.row.state = "running" /\ CopyOK(t.row)
  BY <1>2, RestoreKnows
<1>4. r \in Rows /\ SameStep(r, t.row) /\ SameImport(r, t.row)
  BY <1>1, <1>3, Marks
<1>5. r.state = "running" /\ CopyOK(r) /\ (r.restored => t.row.restored)
  BY <1>3, <1>4 DEF CopyOK, SameStep, SameImport
<1>. QED
  BY <1>1, <1>2, <1>4, <1>5, RestoreSaves

LEMMA WatchRestorePodKeeps ==
    ASSUME IInv, WatchRestorePod
    PROVE  IInv'
<1>. DEFINE t == thread[Import]
            r == [t.row EXCEPT !.restored = TRUE, !.step = "starting"]
<1>1. t.at = "step" /\ t.row.state = "running" /\ UNCHANGED <<cluster, object, spent>>
  BY DEF WatchRestorePod, Stepping
<1>2. /\ TypeOK /\ ImportInv /\ t.row \in Rows /\ t.row.uid /\ ~Uncreated
      /\ ImportStage(Import, "token", t.row)
  BY <1>1, RestoreKnows
<1>3. \/ WaitOrFail(Import) \/ Fail(Import) \/ Proceed(Import, "token")
      \/ pod[Import] = "succeeded" /\ Update(Import, r, "idle")
  BY DEF WatchRestorePod
<1>4. SpentOK'
  BY <1>1, <1>2, Spending
<1>5. CASE WaitOrFail(Import) \/ Fail(Import)
  BY <1>1, <1>4, <1>5, Names, ImportGivesUp DEF Fail, Ended
<1>6. CASE Proceed(Import, "token")
  <2>1. "token" \in Stages /\ "token" \notin Finishing
    BY DEF Stages, Finishing
  <2>2. /\ agent' = agent /\ volume' = volume /\ object' \in BOOLEAN /\ pod' = pod
        /\ pod' \in [Jobs \cup {"verify"} -> Pods]
    BY <1>1, <1>2, Typed DEF cluster, WorldOK
  <2>. QED
    BY <1>1, <1>2, <1>4, <1>6, <2>1, <2>2, Names, ImportProceeds
<1>7. CASE pod[Import] = "succeeded" /\ Update(Import, r, "idle")
  <2>1. /\ r \in Rows /\ r.restored /\ r.uid = t.row.uid /\ r.state = t.row.state
    BY <1>2, ImportRow
  <2>. HIDE DEF r
  <2>2. CopyOK(r)
    BY <1>2, <2>1 DEF CopyOK
  <2>. QED
    BY <1>1, <1>7, <2>1, <2>2, RestoreSaves
<1>. QED
  BY <1>3, <1>5, <1>6, <1>7

LEMMA WatchFirstBootKeeps ==
    ASSUME IInv, WatchFirstBoot
    PROVE  IInv'
<1>. DEFINE t == thread[Import]
            r == [t.row EXCEPT !.state = "completed", !.step = ""]
<1>1. /\ t.at = "step" /\ t.row.state = "running" /\ t.row.step = "starting"
      /\ UNCHANGED <<agent, volume, object, spent>>
  BY DEF WatchFirstBoot, Stepping
<1>2. /\ TypeOK /\ ImportInv /\ t.row \in Rows /\ t.row.uid /\ CopyOK(t.row) /\ ~Uncreated
      /\ t.row.restored => ImportStage(Import, "free", t.row)
  BY <1>1, RestoreKnows
<1>3. t.row.restored
  BY <1>1, <1>2 DEF CopyOK
<1>4. \/ pod' = NoPods(Import) /\ Proceed(Import, "free")
      \/ /\ UNCHANGED pod
         /\ Update(Import, r, "idle") \/ Fail(Import) \/ WaitOrFail(Import)
  BY DEF WatchFirstBoot
<1>5. SpentOK'
  BY <1>1, <1>2, Spending
<1>6. CASE pod' = NoPods(Import) /\ Proceed(Import, "free")
  <2>1. pod' \in [Jobs \cup {"verify"} -> Pods] /\ pod'[Import] = "none"
    BY <1>2, <1>6, Names, NoPodsLeft
  <2>2. object' \in BOOLEAN /\ "free" \in Stages /\ "free" \notin Finishing
    BY <1>1, <1>2, Typed DEF WorldOK, Stages, Finishing
  <2>. QED
    BY <1>1, <1>2, <1>3, <1>5, <1>6, <2>1, <2>2, Names, ImportProceeds
<1>7. CASE UNCHANGED pod /\ (Fail(Import) \/ WaitOrFail(Import))
  BY <1>1, <1>5, <1>7, Names, ImportGivesUp DEF Fail, Ended, cluster
<1>8. CASE UNCHANGED pod /\ Update(Import, r, "idle")
  <2>1. /\ r \in Rows /\ r.state = "completed" /\ r.step = "" /\ SameImport(r, t.row)
    BY <1>2, StateRow
  <2>. HIDE DEF r
  <2>2. CopyOK(r)
    BY <1>2, <2>1 DEF CopyOK, SameImport
  <2>. QED
    BY <1>1, <1>3, <1>8, <2>1, <2>2, RestoreSaves DEF cluster
<1>. QED
  BY <1>4, <1>6, <1>7, <1>8

\* releaseAgent of a restored agent, as a step of the work or of finish.
LEMMA ImportReleases ==
    ASSUME IInv, NEW th \in Importers, NEW at \in {"freed", "erase"},
           thread[th].row.restored,
           ImportStage(th, at, Freed(thread[th].row)),
           at = "erase" => thread[th].at \in Finishing,
           SetAgent(Import, Released(agent[Import], thread[th].row)),
           WithRow(th, at, Freed(thread[th].row)),
           UNCHANGED <<pod, volume, object, spent>>
    PROVE  IInv'
<1>. DEFINE t == thread[th]
            b == Released(agent[Import], t.row)
<1>1. /\ TypeOK /\ ImportInv /\ t.row \in Rows /\ agent[Import] \in Agents
      /\ at \in Stages /\ at # "idle" /\ th \in Threads
      /\ agent \in [Jobs -> Agents]
  BY Typed, Names DEF IInv, Stages, WorldOK
<1>0. PICK f : f = Freed(t.row)
  OBVIOUS
<1>2. f \in Rows /\ SameStep(f, t.row) /\ SameImport(f, t.row) /\ f.finishing = t.row.finishing
  BY <1>0, <1>1, FreedRow
<1>3. b \in Agents /\ b.exists = agent[Import].exists /\ b.pod = agent[Import].pod
      /\ b.building = agent[Import].building
  BY <1>1, ReleasedAgent
<1>4. /\ UNCHANGED <<row, up, lapsed, late, asked>>
      /\ thread' = [thread EXCEPT ![th] = Moved(th, at, f)]
      /\ agent' = [agent EXCEPT ![Import] = b]
  BY <1>0 DEF WithRow, SetAgent
<1>. HIDE DEF b
<1>5. agent' \in [Jobs -> Agents] /\ agent'[Import] = b /\ agent'[Export] = agent[Export]
  BY <1>1, <1>3, <1>4, Names
<1>6. WorldOK'
  BY <1>1, <1>5, Typed, Spending DEF WorldOK
<1>7. /\ TypeOK' /\ ExportInv' /\ Comes(th, at, f) /\ \A u \in Importers \ {th} : Kept(u)
  BY <1>1, <1>2, <1>4, <1>5, <1>6, Names, MoveBeside
<1>8. /\ thread'[th].at = at /\ thread'[th].row = f /\ (thread'[th].fresh => t.fresh)
  BY <1>1, <1>7 DEF Comes
<1>9. Restored
  BY DEF Restored
<1>10. VolumeKept
  BY <1>1, <1>3, <1>5, <1>9 DEF ImportInv, VolumeInv, VolumeKept, Gone
<1>11. t.row.uid /\ ~Early
  BY <1>1, ImportKnows DEF CopyOK
<1>12. ~Early'
  BY <1>4, <1>7, <1>8, <1>11, Names DEF Early, Kept
<1>13. /\ thread'[th].fresh => f.state = row[Import].state /\ f.finishing = row[Import].finishing
       /\ at \in Finishing => Closing(row[Import])
  BY <1>1, <1>2, <1>8 DEF ImportInv, DiscardInv, SameStep, Finishing
<1>14. Discarded(f)'
  BY <1>0, <1>2 DEF Discarded, SameImport
<1>15. ImportStage(th, at, f)
  BY <1>0
<1>16. row'[Import] = row[Import] /\ row[Import].state # "none"
  BY <1>4, <1>11 DEF Early
<1>17. ImportInv'
  BY <1>1, <1>7, <1>8, <1>10, <1>12, <1>13, <1>14, <1>15, <1>16, ImportMoves
<1>. QED
  BY <1>7, <1>17 DEF IInv

LEMMA ReleaseAgentImport ==
    ASSUME IInv, ReleaseAgent(Import)
    PROVE  IInv'
<1>. DEFINE t == thread[Import]
<1>1. /\ t.at = "free" /\ SetAgent(Import, Released(agent[Import], t.row))
      /\ WithRow(Import, "freed", Freed(t.row))
      /\ UNCHANGED <<pod, volume, object, spent>>
  BY DEF ReleaseAgent
<1>2. t.row \in Rows /\ t.row.restored /\ ImportStage(Import, "freed", t.row)
  BY <1>1, RestoreKnows, Names DEF IInv, ImportInv, ImportStage, WorkerStage
<1>3. /\ SameStep(Freed(t.row), t.row) /\ SameImport(Freed(t.row), t.row)
      /\ Freed(t.row).finishing = t.row.finishing
  BY <1>2, FreedRow
<1>4. ImportStage(Import, "freed", Freed(t.row))
  BY <1>2, <1>3 DEF ImportStage, WorkerStage, CopyOK, SameStep, SameImport, Finishing
<1>. QED
  BY <1>1, <1>2, <1>4, Names, ImportReleases

LEMMA AgentReleasedImport ==
    ASSUME IInv, AgentReleased(Import)
    PROVE  IInv'
<1>. DEFINE t == thread[Import]
            r == t.row
<1>1. t.at = "freed" /\ Update(Import, r, "idle") /\ UNCHANGED <<cluster, object, spent>>
  BY Names DEF AgentReleased
<1>2. r \in Rows /\ r.state = "running" /\ CopyOK(r)
  BY <1>1, RestoreKnows
<1>. QED
  BY <1>1, <1>2, RestoreSaves

\* Every thread that finishes an import may go on to the next stage of finish.
LEMMA FinishKnows ==
    ASSUME IInv, NEW th \in Importers, thread[th].at \in Finishing
    PROVE  LET r == thread[th].row IN
           /\ TypeOK /\ ImportInv /\ th \in Threads /\ r \in Rows /\ r.finishing # "" /\ CopyOK(r)
           /\ JobOf(th) = Import /\ Closing(row[Import])
           /\ \A at \in Finishing : ImportStage(th, at, r) /\ at \in Stages
<1>1. /\ TypeOK /\ ImportInv /\ th \in Threads /\ thread[th].row \in Rows
      /\ JobOf(th) = Import
      /\ ImportStage(th, thread[th].at, thread[th].row)
  BY Typed, Names DEF IInv, ImportInv
<1>2. thread[th].row.finishing # "" /\ CopyOK(thread[th].row)
  BY <1>1 DEF ImportStage, WorkerStage, CreatorStage
<1>3. \A at \in Finishing : ImportStage(th, at, thread[th].row) /\ at \in Stages
  BY <1>2 DEF ImportStage, WorkerStage, CreatorStage, Finishing, Stages
<1>4. Closing(row[Import])
  BY <1>1 DEF ImportInv, DiscardInv
<1>. QED
  BY <1>1, <1>2, <1>3, <1>4

LEMMA CleanupImport ==
    ASSUME IInv, NEW th \in Importers, CleanupPods(th) \/ EraseBytes(th)
    PROVE  IInv'
<1>. DEFINE t == thread[th]
<1>1. t.at \in {"clean", "erase"} /\ agent' = agent /\ volume' = volume /\ UNCHANGED spent
  BY DEF CleanupPods, EraseBytes, cluster
<1>2. /\ TypeOK /\ ImportInv /\ JobOf(th) = Import
      /\ \A at \in Finishing : ImportStage(th, at, t.row) /\ at \in Stages
  BY <1>1, FinishKnows DEF Finishing
<1>3. SpentOK'
  BY <1>1, <1>2, Spending
<1>4. CASE CleanupPods(th)
  <2>1. t.at = "clean" /\ pod' = NoPods(Import) /\ Proceed(th, "letgo") /\ object' = object
    BY <1>2, <1>4 DEF CleanupPods
  <2>2. pod' \in [Jobs \cup {"verify"} -> Pods] /\ pod'[Import] = "none"
    BY <1>2, <2>1, Names, NoPodsLeft
  <2>3. object' \in BOOLEAN /\ "letgo" \in Finishing
    BY <1>2, <2>1, Typed DEF WorldOK, Finishing
  <2>4. t.at \in Finishing
    BY <2>1 DEF Finishing
  <2>. QED
    BY <1>1, <1>2, <1>3, <2>1, <2>2, <2>3, <2>4, ImportProceeds
<1>5. CASE EraseBytes(th)
  <2>1. t.at = "erase" /\ pod' = pod /\ Proceed(th, "end")
    BY <1>5 DEF EraseBytes, cluster
  <2>2. object' = (object /\ JobOf(th) # Export)
    BY <1>5 DEF EraseBytes
  <2>3. object' \in BOOLEAN /\ pod' \in [Jobs \cup {"verify"} -> Pods]
    BY <1>2, <2>1, <2>2, Typed DEF WorldOK
  <2>4. t.at \in Finishing /\ "end" \in Finishing /\ Discarded(t.row)
    BY <1>2, <2>1 DEF Finishing, ImportInv, DiscardInv
  <2>5. Uncreated => pod'[Import] = "none"
    BY <2>1 DEF Uncreated
  <2>. QED
    BY <1>1, <1>2, <1>3, <2>1, <2>3, <2>4, <2>5, ImportProceeds
<1>. QED
  BY <1>4, <1>5

\* discardImportDestination removes the agent its copy knows of.
LEMMA ImportDiscards ==
    ASSUME IInv, NEW th \in Importers, thread[th].at = "letgo", thread[th].row.uid,
           SetAgent(Import, NoAgent), volume' = "none",
           WithRow(th, "erase", [thread[th].row EXCEPT !.hold = FALSE]),
           UNCHANGED <<pod, object, spent>>
    PROVE  IInv'
<1>. DEFINE t == thread[th]
            at == "erase"
<1>1. /\ TypeOK /\ ImportInv /\ t.row \in Rows /\ th \in Threads /\ CopyOK(t.row)
      /\ Closing(row[Import]) /\ ImportStage(th, at, t.row) /\ at \in Stages
      /\ agent \in [Jobs -> Agents]
  BY FinishKnows, Typed DEF Finishing, WorldOK
<1>0. PICK f : f = [t.row EXCEPT !.hold = FALSE]
  OBVIOUS
<1>2. f \in Rows /\ SameStep(f, t.row) /\ SameImport(f, t.row) /\ f.finishing = t.row.finishing
  BY <1>0, <1>1, FreedRow
<1>3. /\ UNCHANGED <<row, up, lapsed, late, asked>>
      /\ thread' = [thread EXCEPT ![th] = Moved(th, at, f)]
      /\ agent' = [agent EXCEPT ![Import] = NoAgent]
  BY <1>0 DEF WithRow, SetAgent
<1>4. agent' \in [Jobs -> Agents] /\ agent'[Import] = NoAgent /\ agent'[Export] = agent[Export]
  BY <1>1, <1>3, Names, NoAgentFields
<1>5. WorldOK'
  BY <1>1, <1>4, Typed, Spending DEF WorldOK
<1>6. TypeOK' /\ ExportInv' /\ Comes(th, at, f) /\ \A u \in Importers \ {th} : Kept(u)
  BY <1>1, <1>2, <1>3, <1>4, <1>5, Names, MoveBeside
<1>7. thread'[th].at = at /\ thread'[th].row = f /\ (thread'[th].fresh => t.fresh)
  BY <1>6 DEF Comes
<1>8. Gone'
  BY <1>4, NoAgentFields DEF Gone
<1>9. VolumeKept
  BY <1>4, <1>8, NoAgentFields DEF VolumeKept
<1>10. ~Early
  BY <1>1, ImportKnows
<1>11. ~Early'
  BY <1>3, <1>6, <1>7, <1>10, Names DEF Early, Kept
<1>12. thread'[th].fresh => f.state = row[Import].state /\ f.finishing = row[Import].finishing
  BY <1>1, <1>2, <1>7 DEF ImportInv, DiscardInv, SameStep
<1>13. Discarded(f)'
  BY <1>8 DEF Discarded
<1>14. ImportStage(th, at, f)
  BY <1>1, <1>2 DEF ImportStage, WorkerStage, CreatorStage, CopyOK, SameStep, SameImport, Finishing
<1>15. row'[Import] = row[Import] /\ row[Import].state # "none"
  BY <1>3, <1>10 DEF Early
<1>. HIDE DEF at
<1>16. ImportInv'
  BY <1>1, <1>6, <1>7, <1>9, <1>11, <1>12, <1>13, <1>14, <1>15, ImportMoves
<1>. QED
  BY <1>6, <1>16 DEF IInv

LEMMA LetGoImport ==
    ASSUME IInv, NEW th \in Importers, LetGo(th)
    PROVE  IInv'
<1>. DEFINE t == thread[th]
            r == thread[th].row
<1>1. t.at = "letgo" /\ t.at \in Finishing /\ UNCHANGED <<pod, object, spent>>
  BY DEF LetGo, Finishing
<1>2. /\ TypeOK /\ ImportInv /\ r \in Rows /\ JobOf(th) = Import /\ Import # Export
      /\ ImportStage(th, "erase", r) /\ "erase" \in Stages
  BY <1>1, FinishKnows, Names DEF Finishing
<1>3. \/ /\ r.restored /\ SetAgent(Import, Released(agent[Import], r)) /\ UNCHANGED volume
         /\ WithRow(th, "erase", Freed(r))
      \/ /\ r.uid /\ SetAgent(Import, NoAgent) /\ volume' = "none"
         /\ WithRow(th, "erase", [r EXCEPT !.hold = FALSE])
      \/ ~r.uid /\ Proceed(th, "erase") /\ UNCHANGED <<agent, volume>>
  BY <1>2 DEF LetGo
<1>4. CASE /\ r.restored /\ SetAgent(Import, Released(agent[Import], r)) /\ UNCHANGED volume
           /\ WithRow(th, "erase", Freed(r))
  <2>1. SameStep(Freed(r), r) /\ SameImport(Freed(r), r) /\ Freed(r).finishing = r.finishing
    BY <1>2, FreedRow
  <2>2. ImportStage(th, "erase", Freed(r))
    BY <1>2, <2>1
       DEF ImportStage, WorkerStage, CreatorStage, CopyOK, SameStep, SameImport, Finishing
  <2>. QED
    BY <1>1, <1>4, <2>2, ImportReleases
<1>5. CASE /\ r.uid /\ SetAgent(Import, NoAgent) /\ volume' = "none"
           /\ WithRow(th, "erase", [r EXCEPT !.hold = FALSE])
  BY <1>1, <1>5, ImportDiscards
<1>6. CASE ~r.uid /\ Proceed(th, "erase") /\ UNCHANGED <<agent, volume>>
  <2>1. Discarded(r)
    BY <1>6 DEF Discarded
  <2>2. SpentOK' /\ object' \in BOOLEAN /\ pod' \in [Jobs \cup {"verify"} -> Pods]
    BY <1>1, <1>2, Spending, Typed DEF WorldOK
  <2>3. Uncreated => pod'[Import] = "none"
    BY <1>1 DEF Uncreated
  <2>. QED
    BY <1>1, <1>2, <1>6, <2>1, <2>2, <2>3, ImportProceeds
<1>. QED
  BY <1>3, <1>4, <1>5, <1>6

LEMMA EndImport ==
    ASSUME IInv, NEW th \in Importers, End(th)
    PROVE  IInv'
<1>. DEFINE t == thread[th]
            r == [t.row EXCEPT !.state = t.row.finishing, !.finishing = ""]
<1>1. t.at = "end" /\ Update(th, r, "idle") /\ UNCHANGED <<cluster, object, spent>>
  BY DEF End
<1>2. /\ TypeOK /\ ImportInv /\ t.row \in Rows /\ t.row.finishing # "" /\ CopyOK(t.row)
      /\ Discarded(t.row)
  BY <1>1, FinishKnows DEF Finishing, ImportInv, DiscardInv
<1>3. /\ r \in Rows /\ r.state \in Ended /\ r.finishing = ""
      /\ r.step = t.row.step /\ SameImport(r, t.row)
  BY <1>2, EndRow
<1>. HIDE DEF r
<1>4. CopyOK(r) /\ Closing(r) /\ Discarded(r) /\ r.state # "none"
  BY <1>2, <1>3 DEF CopyOK, Closing, Discarded, SameImport, Ended
<1>5. Uncreated => ~r.uid
  BY <1>3 DEF Uncreated, SameImport
<1>6. agent[Import].exists /\ r.restored => volume = "full"
  BY <1>2, <1>3, ImportKnows DEF SameImport
<1>7. "idle" \in Stages
  BY DEF Stages
<1>8. UNCHANGED <<agent, pod, object>> /\ volume' = volume /\ SpentOK'
  BY <1>1, <1>2, Spending DEF cluster
<1>. QED
  BY <1>1, <1>3, <1>4, <1>5, <1>6, <1>7, <1>8, ImportAdvances

-----------------------------------------------------------------------------
(* The import's create handler.                                            *)

LEMMA StartImportKeeps ==
    ASSUME IInv, StartImport
    PROVE  IInv'
<1>1. /\ TypeOK /\ ExportInv /\ ImportInv /\ row \in [Jobs -> Rows] /\ row[Import] \in Rows
      /\ thread \in [Threads -> Copies] /\ "create" \in Stages
  BY Typed DEF IInv, Stages
<1>. DEFINE s == [row[Import] EXCEPT !.state = "queued", !.hold = TRUE]
<1>2. /\ row[Import].state = "none"
      /\ row' = [row EXCEPT ![Import].state = "queued", ![Import].hold = TRUE]
      /\ UNCHANGED <<up, cluster, object, late, lapsed, asked, spent>>
  BY DEF StartImport, time
<1>3. row' = [row EXCEPT ![Import] = s]
  BY <1>1, <1>2
<1>4. /\ s \in Rows /\ s.state = "queued" /\ s.step = row[Import].step
      /\ s.finishing = row[Import].finishing /\ SameImport(s, row[Import])
  BY <1>1 DEF Rows, SameImport, Active
<1>. HIDE DEF s
<1>5. row' \in [Jobs -> Rows] /\ row'[Import] = s /\ row'[Export] = row[Export]
  BY <1>1, <1>3, <1>4, Names
<1>6. thread' = [thread EXCEPT !["creator"] =
                    [Idle EXCEPT !.at = "create", !.row = row'[Import], !.fresh = TRUE]]
  BY DEF StartImport
<1>7. PICK r : r = s
  OBVIOUS
<1>8. thread' = [thread EXCEPT !["creator"] =
                    [Idle EXCEPT !.at = "create", !.row = r, !.fresh = TRUE]]
  BY <1>5, <1>6, <1>7
<1>9. /\ thread' \in [Threads -> Copies]
      /\ thread'["creator"].at = "create" /\ thread'["creator"].row = r
      /\ \A t \in Threads \ {"creator"} : thread'[t] = thread[t]
  <2>1. r \in Rows /\ "creator" \in Threads
    BY <1>4, <1>7, Names
  <2>. QED
    BY <1>1, <1>8, <2>1, Reads
<1>10. TypeOK'
  BY <1>1, <1>2, <1>5, <1>9, MoveTypes, SameWorld, Spending, Typed
<1>11. ExportInv'
  BY <1>1, <1>2, <1>5, <1>9, Names, BesideExport DEF cluster, Kept
<1>12. /\ Uncreated /\ row[Import].finishing = ""
       /\ \A t \in Importers : thread[t].at = "idle" /\ ~thread[t].fresh
  BY <1>1, <1>2 DEF ImportInv, VolumeInv, Early, Unstarted
<1>13. /\ r = row'[Import] /\ r.state = "queued" /\ r.finishing = "" /\ ~r.uid
       /\ r.step = row[Import].step /\ r.restored = row[Import].restored
  BY <1>4, <1>5, <1>7, <1>12 DEF Uncreated, SameImport
<1>14. CopyOK(r) /\ ~r.restored
  BY <1>1, <1>12, <1>13 DEF ImportInv, VolumeInv, CopyOK, Uncreated
<1>15. /\ thread'[Import].at = "idle" /\ ~thread'[Import].fresh
       /\ thread'[Import].row = thread[Import].row /\ ~thread[Import].row.uid
  BY <1>9, <1>12, Names DEF Uncreated
<1>16. \A t \in Importers : ImportStage(t, thread[t].at, thread[t].row)'
  <2>1. ImportStage("creator", "create", r)
    BY <1>13, <1>14, Names DEF ImportStage, CreatorStage, Finishing, Active
  <2>2. ImportStage(Import, thread[Import].at, thread[Import].row)'
    BY <1>1, <1>9, Names DEF ImportInv
  <2>. QED
    BY <1>9, <2>1, <2>2, Names
<1>17. Uncreated'
  BY <1>2, <1>9, <1>12, <1>13, <1>15, Names DEF Uncreated, cluster
<1>18. VolumeInv'
  <2>1. ~agent'[Import].exists /\ ~agent'[Import].pod /\ ~agent'[Import].building
    BY <1>17, NoAgentFields DEF Uncreated
  <2>2. CopyOK(row[Import])'
    BY <1>13, <1>14
  <2>. QED
    BY <1>17, <2>1, <2>2 DEF VolumeInv
<1>19. DiscardInv'
  <2>1. /\ thread'["creator"].at = "create" /\ thread'["creator"].row = row'[Import]
        /\ row'[Import].state \notin Ended
    BY <1>9, <1>13 DEF Ended
  <2>. QED
    BY <1>15, <2>1, Names DEF DiscardInv, Finishing
<1>20. Unstarted'
  BY <1>13 DEF Unstarted
<1>. QED
  BY <1>10, <1>11, <1>16, <1>18, <1>19, <1>20 DEF IInv, ImportInv

\* The agent is born under the job's hold, with nothing before it.
LEMMA AgentBorn ==
    ASSUME IInv, thread["creator"].at = "create",
           SetAgent(Import, [NoAgent EXCEPT !.exists = TRUE, !.hold = TRUE, !.desired = "Running"]),
           WithRow("creator", "record", [thread["creator"].row EXCEPT !.uid = TRUE]),
           UNCHANGED <<pod, volume, object, spent>>
    PROVE  IInv'
<1>. DEFINE t == thread["creator"]
            b == [NoAgent EXCEPT !.exists = TRUE, !.hold = TRUE, !.desired = "Running"]
            record == "record"
<1>1. /\ TypeOK /\ ImportInv /\ t.row \in Rows /\ agent \in [Jobs -> Agents]
      /\ ImportStage("creator", "create", t.row) /\ record \in Stages
  BY Typed, Names DEF IInv, WorldOK, ImportInv, Stages
<1>2. PICK r : r = [t.row EXCEPT !.uid = TRUE]
  OBVIOUS
<1>3. /\ r \in Rows /\ r.uid /\ r.restored = t.row.restored
      /\ r.state = t.row.state /\ r.step = t.row.step /\ r.finishing = t.row.finishing
  BY <1>1, <1>2, ImportRow
<1>4. /\ UNCHANGED <<row, up, lapsed, late, asked>>
      /\ thread' = [thread EXCEPT !["creator"] = Moved("creator", record, r)]
      /\ agent' = [agent EXCEPT ![Import] = b]
  BY <1>2 DEF WithRow, SetAgent
<1>5. b \in Agents /\ b.exists /\ b.hold /\ ~b.pod /\ ~b.building
  BY NoAgentFields DEF Agents
<1>. HIDE DEF b, record
<1>6. agent' \in [Jobs -> Agents] /\ agent'[Import] = b /\ agent'[Export] = agent[Export]
  BY <1>1, <1>4, <1>5, Names
<1>7. WorldOK'
  BY <1>1, <1>6, Typed, Spending DEF WorldOK
<1>8. /\ TypeOK' /\ ExportInv' /\ Comes("creator", record, r)
      /\ \A u \in Importers \ {"creator"} : Kept(u)
  BY <1>1, <1>3, <1>4, <1>6, <1>7, Names, MoveBeside
<1>9. /\ thread'["creator"].at = "record" /\ thread'["creator"].row = r
      /\ thread'["creator"].fresh => t.fresh
  BY <1>8 DEF Comes, record
<1>10. /\ Uncreated /\ row[Import].state # "none"
  BY <1>1, Names DEF ImportInv, VolumeInv, Early, Unstarted
<1>11. /\ ~row[Import].uid /\ ~t.row.uid /\ ~thread[Import].row.uid /\ pod[Import] = "none"
       /\ CopyOK(row[Import]) /\ CopyOK(t.row) /\ CopyOK(thread[Import].row)
  BY <1>1, <1>10, Names DEF Uncreated, ImportInv, VolumeInv, ImportStage
<1>12. ~row[Import].restored /\ ~r.restored /\ ~thread[Import].row.restored
  BY <1>3, <1>11 DEF CopyOK
<1>13. Kept(Import) /\ row' = row /\ pod' = pod
  BY <1>4, <1>8, Names
<1>14. \A u \in Importers : ImportStage(u, thread[u].at, thread[u].row)'
  <2>1. ImportStage("creator", "record", r)
    BY <1>1, <1>3, Names DEF ImportStage, CreatorStage, CopyOK, Finishing
  <2>2. ImportStage(Import, thread[Import].at, thread[Import].row)'
    BY <1>1, <1>13, Names DEF ImportInv, Kept
  <2>. QED
    BY <1>9, <2>1, <2>2, Names
<1>15. VolumeInv'
  <2>1. ~Early'
    BY <1>9, <1>10, <1>13 DEF Early
  <2>2. ~Restored'
    BY <1>5, <1>6, <1>9, <1>11, <1>12, <1>13, Names DEF Restored, Kept
  <2>. QED
    BY <1>5, <1>6, <1>11, <1>13, <2>1, <2>2 DEF VolumeInv
<1>16. DiscardInv'
  <2>1. ASSUME NEW u \in Importers
        PROVE  /\ thread'[u].fresh => /\ thread'[u].row.state = row'[Import].state
                                      /\ thread'[u].row.finishing = row'[Import].finishing
               /\ thread'[u].at \in Finishing => Closing(row[Import])'
               /\ thread'[u].at \in {"erase", "end"} => Discarded(thread[u].row)'
    <3>1. CASE u = "creator"
      BY <1>1, <1>3, <1>9, <1>13, <3>1, Names DEF ImportInv, DiscardInv, Finishing
    <3>2. CASE u = Import
      BY <1>1, <1>11, <1>13, <3>2, Names DEF ImportInv, DiscardInv, Kept, Closing, Discarded
    <3>. QED
      BY <3>1, <3>2, Names
  <2>2. (row[Import].state \in Ended /\ row[Import].finishing = "" => Discarded(row[Import]))'
    BY <1>11, <1>13 DEF Discarded
  <2>. QED
    BY <2>1, <2>2 DEF DiscardInv
<1>17. Unstarted'
  BY <1>10, <1>13 DEF Unstarted
<1>. QED
  BY <1>8, <1>14, <1>15, <1>16, <1>17 DEF IInv, ImportInv

LEMMA CreateAgentKeeps ==
    ASSUME IInv, CreateAgent
    PROVE  IInv'
<1>. DEFINE t == thread["creator"]
<1>1. t.at = "create" /\ UNCHANGED <<pod, volume, object>>
  BY DEF CreateAgent
<1>2. TypeOK /\ ImportInv
  BY DEF IInv
<1>3. \/ /\ SetAgent(Import, [NoAgent EXCEPT !.exists = TRUE, !.hold = TRUE, !.desired = "Running"])
         /\ WithRow("creator", "record", [t.row EXCEPT !.uid = TRUE])
         /\ UNCHANGED spent
      \/ Fault /\ Proceed("creator", "abandon") /\ UNCHANGED agent
  BY DEF CreateAgent
<1>4. CASE Fault /\ Proceed("creator", "abandon") /\ UNCHANGED agent
  <2>1. SpentOK' /\ object' \in BOOLEAN /\ pod' \in [Jobs \cup {"verify"} -> Pods]
    BY <1>1, <1>2, <1>4, Spending, Typed DEF WorldOK
  <2>2. ImportStage("creator", "abandon", t.row)
    BY <1>1, <1>2, Names DEF ImportInv, ImportStage, CreatorStage, Finishing
  <2>3. Uncreated => pod'[Import] = "none"
    BY <1>1 DEF Uncreated
  <2>4. "abandon" \in Stages /\ "abandon" \notin Finishing
    BY DEF Stages, Finishing
  <2>. QED
    BY <1>1, <1>2, <1>4, <2>1, <2>2, <2>3, <2>4, Names, ImportProceeds
<1>. QED
  BY <1>1, <1>3, <1>4, AgentBorn

\* The handler reads the row again, after a conflict or to abandon the job.
LEMMA CreatorReads ==
    ASSUME IInv, NEW c \in Copies, thread' = [thread EXCEPT !["creator"] = c],
           ImportStage("creator", c.at, c.row), thread["creator"].at # "idle",
           c.fresh => c.row.state = row[Import].state /\ c.row.finishing = row[Import].finishing,
           c.at # "create", c.at = "abandon" => c.row.uid,
           c.row.uid => ~Uncreated,
           c.row.restored => thread["creator"].row.restored \/ row[Import].restored,
           c.at \in Finishing => Closing(row[Import]), c.at \notin {"erase", "end"},
           UNCHANGED <<row, up, late, lapsed, asked, cluster, object, spent>>
    PROVE  IInv'
<1>1. /\ TypeOK /\ ExportInv /\ ImportInv /\ thread \in [Threads -> Copies]
  BY Typed DEF IInv
<1>2. PICK r, at : r = c.row /\ at = c.at
  OBVIOUS
<1>3. /\ thread' \in [Threads -> Copies] /\ thread'["creator"] = c
      /\ \A u \in Threads \ {"creator"} : thread'[u] = thread[u]
  BY <1>1, Names
<1>4. \A u \in Threads \ {"creator"} : Kept(u)
  BY <1>3 DEF Kept
<1>5. TypeOK'
  BY <1>1, <1>3, MoveTypes, SameWorld, Spending, Typed
<1>6. ExportInv'
  BY <1>1, <1>4, Names, BesideExport DEF cluster
<1>7. row[Import].state # "none"
  BY <1>1, Names DEF ImportInv, Unstarted
<1>8. VolumeKept
  BY <1>1, <1>3, Names, SameVolume DEF cluster
<1>9. Early' => Uncreated'
  <2>1. Early' => thread'["creator"].at = "abandon" /\ ~thread'["creator"].row.uid
    BY <1>3, <1>7 DEF Early
  <2>. QED
    BY <1>3, <2>1
<1>10. /\ thread'["creator"].at = at /\ thread'["creator"].row = r
       /\ thread'["creator"].fresh => r.state = row[Import].state
                                      /\ r.finishing = row[Import].finishing
       /\ ImportStage("creator", at, r)
       /\ at \in Finishing => Closing(row[Import])
       /\ at \notin {"erase", "end"}
  BY <1>2, <1>3
<1>11. ImportInv'
  BY <1>1, <1>4, <1>7, <1>8, <1>9, <1>10, Names, ImportMoves
<1>. QED
  BY <1>5, <1>6, <1>11 DEF IInv

LEMMA RecordAgentKeeps ==
    ASSUME IInv, RecordAgent
    PROVE  IInv'
<1>. DEFINE t == thread["creator"]
            r == t.row
            cur == row[Import]
            s == [cur EXCEPT !.uid = TRUE]
<1>1. t.at = "record" /\ UNCHANGED <<cluster, object, spent>>
  BY DEF RecordAgent
<1>2. /\ TypeOK /\ ImportInv /\ r \in Rows /\ cur \in Rows /\ t \in Copies
      /\ ImportStage("creator", "record", r) /\ SpentOK'
  BY <1>1, Typed, Names, Spending DEF IInv, ImportInv
<1>3. r.uid /\ r.state \in Active /\ r.finishing = "" /\ CopyOK(r)
  BY <1>2, Names DEF ImportStage, CreatorStage
<1>4. /\ ~Uncreated /\ (agent[Import].exists /\ r.restored => volume = "full")
      /\ t.fresh => (Closing(r) <=> Closing(cur))
      /\ CopyOK(cur) /\ cur.state # "none"
  BY <1>1, <1>2, <1>3, Names, ImportKnows DEF ImportInv, VolumeInv, Unstarted
<1>5. CASE t.fresh
  <2>1. Update("creator", r, "idle")
    BY <1>5 DEF RecordAgent
  <2>2. "idle" \in Stages /\ "idle" \notin Finishing /\ r.state \notin Ended \cup {"none"}
    BY <1>3 DEF Stages, Finishing, Active, Ended
  <2>3. UNCHANGED <<agent, pod, object>> /\ volume' = volume
    BY <1>1 DEF cluster
  <2>. QED
    BY <1>1, <1>2, <1>3, <1>4, <2>1, <2>2, <2>3, Names, ImportAdvances
<1>6. CASE ~t.fresh
  <2>1. /\ thread' = [thread EXCEPT !["creator"] =
              IF cur.state \in Terminal \/ cur.finishing # "" \/ cur.cancel
              THEN [@ EXCEPT !.at = "abandon"]
              ELSE [@ EXCEPT !.row = [cur EXCEPT !.uid = TRUE], !.fresh = TRUE]]
        /\ UNCHANGED <<row, up, late, lapsed, asked>>
    BY <1>6 DEF RecordAgent, time
  <2>2. CASE cur.state \in Terminal \/ cur.finishing # "" \/ cur.cancel
    <3>. DEFINE c == [t EXCEPT !.at = "abandon"]
    <3>1. thread' = [thread EXCEPT !["creator"] = c]
      BY <2>1, <2>2
    <3>2. c \in Copies /\ c.at = "abandon" /\ c.row = r /\ ~c.fresh
      BY <1>2, <1>6 DEF Copies, Stages
    <3>. HIDE DEF c
    <3>3. ImportStage("creator", "abandon", r) /\ "abandon" \notin Finishing
      BY <1>2, Names DEF ImportStage, CreatorStage, Finishing
    <3>. QED
      BY <1>1, <1>3, <1>4, <2>1, <3>1, <3>2, <3>3, CreatorReads
  <2>3. CASE ~(cur.state \in Terminal \/ cur.finishing # "" \/ cur.cancel)
    <3>. DEFINE c == [t EXCEPT !.row = s, !.fresh = TRUE]
    <3>1. thread' = [thread EXCEPT !["creator"] = c]
      BY <2>1, <2>3
    <3>2. /\ s \in Rows /\ s.uid /\ s.restored = cur.restored
          /\ s.state = cur.state /\ s.step = cur.step /\ s.finishing = cur.finishing
      BY <1>2, ImportRow
    <3>. HIDE DEF s
    <3>3. c \in Copies /\ c.at = "record" /\ c.row = s
      BY <1>1, <1>2, <3>2 DEF Copies
    <3>. HIDE DEF c
    <3>4. cur.state \in Active
      BY <1>2, <1>4, <2>3 DEF Rows
    <3>5. ImportStage("creator", "record", s) /\ "record" \notin Finishing
      BY <1>4, <2>3, <3>2, <3>4, Names DEF ImportStage, CreatorStage, CopyOK, Finishing
    <3>. QED
      BY <1>1, <1>4, <2>1, <3>1, <3>2, <3>3, <3>5, CreatorReads
  <2>. QED
    BY <2>2, <2>3
<1>. QED
  BY <1>5, <1>6

LEMMA AbandonKeeps ==
    ASSUME IInv, Abandon
    PROVE  IInv'
<1>. DEFINE t == thread["creator"]
<1>1. UNCHANGED <<cluster, object, spent>>
  BY DEF Abandon
<1>2. CASE t.at = "abandoning" /\ Fail("creator")
  BY <1>1, <1>2, Names, ImportGivesUp, Spending DEF IInv, Fail, Ended
<1>3. CASE t.at = "abandon" /\ ~(t.at = "abandoning")
  <2>. DEFINE u == t.row.uid
              s == [row[Import] EXCEPT !.uid = u]
              at == IF s.finishing # "" THEN "clean" ELSE "abandoning"
              c == [t EXCEPT !.row = s, !.fresh = TRUE, !.at = at]
  <2>1. /\ thread' = [thread EXCEPT !["creator"] = c]
        /\ UNCHANGED <<row, up, late, lapsed, asked>>
    BY <1>3 DEF Abandon, time
  <2>2. /\ TypeOK /\ ImportInv /\ row[Import] \in Rows /\ t \in Copies /\ u \in BOOLEAN
    BY Typed, Names DEF IInv, Copies, Rows
  <2>3. u => ~Uncreated
    BY <2>2, Names DEF Uncreated
  <2>4. ~u => ~row[Import].uid
    BY <1>3, <2>2 DEF ImportInv, VolumeInv, Early, Uncreated
  <2>. HIDE DEF u, at, c
  <2>5. /\ s \in Rows /\ s.uid = u /\ s.restored = row[Import].restored
        /\ s.state = row[Import].state /\ s.step = row[Import].step
        /\ s.finishing = row[Import].finishing
    BY <2>2 DEF Rows
  <2>. HIDE DEF s
  <2>6. at \in {"clean", "abandoning"} /\ at \in Stages /\ (at = "clean" <=> s.finishing # "")
    BY DEF Stages, at
  <2>7. c \in Copies /\ c.at = at /\ c.row = s
    BY <2>2, <2>5, <2>6 DEF Copies, c
  <2>8. CopyOK(s)
    BY <2>2, <2>4, <2>5 DEF ImportInv, VolumeInv, CopyOK
  <2>9. ImportStage("creator", at, s)
    BY <2>6, <2>8, Names DEF ImportStage, CreatorStage, Finishing
  <2>10. at \in Finishing => Closing(row[Import])
    BY <2>5, <2>6 DEF Finishing, Closing
  <2>. QED
    BY <1>1, <1>3, <2>1, <2>3, <2>5, <2>6, <2>7, <2>9, <2>10, CreatorReads
<1>. QED
  BY <1>2, <1>3 DEF Abandon

-----------------------------------------------------------------------------
(* Requests, uploads, pods and the agent controller.                       *)

AskedOK == asked \in [intent: {"Running", "Stopped"}, verb: {"", "Running", "Stopped"},
                      deletion: BOOLEAN, importing: BOOLEAN]

LEMMA StartExportKeeps ==
    ASSUME IInv, StartExport
    PROVE  IInv'
<1>1. /\ TypeOK /\ ExportInv /\ ImportInv /\ row \in [Jobs -> Rows] /\ row[Export] \in Rows
  BY Typed DEF IInv
<1>. DEFINE s == [row[Export] EXCEPT !.state = "queued", !.uid = TRUE]
<1>2. /\ row[Export].state = "none"
      /\ row' = [row EXCEPT ![Export].state = "queued", ![Export].uid = TRUE]
      /\ UNCHANGED <<thread, up, cluster, object, late, lapsed, asked, spent>>
  BY DEF StartExport, time
<1>3. row' = [row EXCEPT ![Export] = s]
  BY <1>1, <1>2
<1>4. /\ s \in Rows /\ s.state = "queued" /\ s.step = row[Export].step
      /\ s.finishing = row[Export].finishing /\ s.hold = row[Export].hold
  BY <1>1 DEF Rows, Active
<1>. HIDE DEF s
<1>5. row' \in [Jobs -> Rows] /\ row'[Export] = s /\ row'[Import] = row[Import]
  BY <1>1, <1>3, <1>4, Names
<1>6. TypeOK'
  BY <1>1, <1>2, <1>5, MoveTypes, SameWorld, Spending, Typed
<1>7. ImportInv'
  BY <1>1, <1>2, <1>5, Names, BesideImport DEF cluster, Kept
<1>8. /\ ~row[Export].hold /\ row[Export].finishing = "" /\ GivenBack
      /\ ~(row[Export].state \in Active)
  BY <1>1, <1>2 DEF ExportInv, HoldInv, HoldOK, Active
<1>9. thread[Export].row.state \notin Active
  BY <1>1, <1>8 DEF ExportInv, ExportCopies, SameStep
<1>10. ExportCopies'
  <2>1. \A th \in {Export, "deleter"} : thread[th].fresh => thread[th].row.state # "completed"
    BY <1>1, <1>2 DEF ExportInv, ExportCopies
  <2>. QED
    BY <1>2, <1>9, <2>1 DEF ExportCopies
<1>11. HoldInv'
  <2>1. GivenBack'
    BY <1>2, <1>8 DEF GivenBack, cluster
  <2>2. row'[Export].finishing = "" /\ ~row'[Export].hold /\ row'[Export].state = "queued"
    BY <1>4, <1>5, <1>8
  <2>. QED
    BY <1>1, <1>2, <2>1, <2>2 DEF ExportInv, HoldInv, HoldOK, cluster
<1>12. ExportInv'
  BY <1>1, <1>2, <1>10, <1>11 DEF ExportInv
<1>. QED
  BY <1>6, <1>7, <1>12 DEF IInv

\* A mark on a row, saved by somebody else.
LEMMA Marked ==
    ASSUME IInv, NEW j \in Jobs, NEW r \in Rows, WriteRow(j, r),
           SameStep(r, row[j]), SameHold(r, row[j]), SameImport(r, row[j]),
           r.finishing = row[j].finishing, up' \in UpTypes,
           UNCHANGED <<lapsed, late, asked, agent, volume>>, pod'[Import] = pod[Import], WorldOK'
    PROVE  IInv'
<1>1. TypeOK /\ ExportInv /\ ImportInv
  BY DEF IInv
<1>2. /\ row' \in [Jobs -> Rows] /\ thread' \in [Threads -> Copies]
      /\ row'[j] = r /\ \A i \in Jobs : i # j => row'[i] = row[i]
      /\ \A t \in Threads : Kept(t)
  BY <1>1, Writes
<1>3. TypeOK'
  BY <1>1, <1>2, MoveTypes
<1>4. RowMarked(j) /\ \A i \in Jobs : i # j => row'[i] = row[i]
  BY <1>2 DEF RowMarked
<1>5. Kept(Export) /\ Kept("deleter") /\ \A t \in Importers : Kept(t)
  BY <1>2, Names
<1>6. row'[Export] = row[Export] \/ RowMarked(Export)
  BY <1>4, Names
<1>7. row'[Import] = row[Import] \/ RowMarked(Import)
  BY <1>4, Names
<1>8. ExportInv'
  BY <1>1, <1>5, <1>6, SameAgent, ExportKept
<1>9. SameImportRow
  BY <1>7 DEF RowMarked, SameImportRow, SameStep, SameImport
<1>10. VolumeKept
  BY <1>1, <1>5, <1>9, SameVolume DEF Kept, SameImportRow, SameImport
<1>11. Uncreated => agent'[Import] = NoAgent /\ volume' = "none" /\ pod'[Import] = "none"
  BY DEF Uncreated
<1>12. ImportInv'
  BY <1>1, <1>5, <1>9, <1>10, <1>11, ImportKept
<1>. QED
  BY <1>3, <1>8, <1>12 DEF IInv

LEMMA RequestCancelKeeps ==
    ASSUME IInv, NEW j \in Jobs, RequestCancel(j)
    PROVE  IInv'
<1>1. TypeOK /\ row[j] \in Rows
  BY Typed DEF IInv
<1>2. PICK r : r = [row[j] EXCEPT !.cancel = TRUE]
  OBVIOUS
<1>3. /\ r \in Rows /\ SameStep(r, row[j]) /\ SameHold(r, row[j]) /\ SameImport(r, row[j])
      /\ r.finishing = row[j].finishing
  BY <1>1, <1>2, Marks
<1>4. /\ WriteRow(j, r) /\ up' = OutdatedUploads(j) /\ SpentOK'
      /\ UNCHANGED <<cluster, object, late, lapsed, asked>>
  BY <1>1, <1>2, Spending DEF RequestCancel, time
<1>5. up' \in UpTypes
  BY <1>1, <1>4, OutdatedUp
<1>6. WorldOK'
  BY <1>1, <1>4, SameWorld
<1>. QED
  BY <1>3, <1>4, <1>5, <1>6, Marked DEF cluster

\* Neither half of the invariant looks at what changes.
LEMMA Beside ==
    ASSUME IInv, UNCHANGED <<row, thread, agent, volume, asked>>, pod'[Import] = pod[Import],
           up' \in UpTypes, late' \subseteq Jobs, lapsed' \in BOOLEAN, WorldOK'
    PROVE  IInv'
<1>1. TypeOK /\ ExportInv /\ ImportInv
  BY DEF IInv
<1>2. TypeOK'
  BY <1>1 DEF TypeOK, WorldOK, SpentOK, Pods, UpTypes
<1>3. ExportInv'
  BY <1>1, BesideExport DEF Kept
<1>4. ImportInv'
  BY <1>1, BesideImport DEF Kept
<1>. QED
  BY <1>2, <1>3, <1>4 DEF IInv

\* The source agent follows its own verbs, or is gone.
LEMMA SourceGoes ==
    ASSUME IInv, NEW a \in Agents, SetAgent(Export, a),
           UNCHANGED <<row, thread, up, pod, volume, object, time>>, SpentOK', AskedOK',
           a.desired = "" => a.phase # "Stopped",
           a.exists =>
              /\ agent[Export].exists /\ a.hold = agent[Export].hold
              /\ \/ /\ asked' = asked /\ a.mark = agent[Export].mark
                    /\ a.desired = agent[Export].desired
                    /\ StandingIntent(a) = StandingIntent(agent[Export])
                 \/ ~a.mark /\ asked'.verb # ""
    PROVE  IInv'
<1>1. TypeOK /\ ExportInv /\ ImportInv /\ agent \in [Jobs -> Agents]
  BY Typed DEF IInv, WorldOK
<1>2. agent' \in [Jobs -> Agents] /\ agent'[Export] = a /\ agent'[Import] = agent[Import]
  BY <1>1, Names DEF SetAgent
<1>3. TypeOK'
  BY <1>1, <1>2 DEF TypeOK, SpentOK, AskedOK, time
<1>4. AgentKept
  <2>1. GivenBack => GivenBack'
    BY <1>2 DEF GivenBack
  <2>2. Held(row[Export]) => Held(row[Export])'
    BY <1>2 DEF Held
  <2>. QED
    BY <1>2, <2>1, <2>2 DEF AgentKept
<1>5. ExportInv'
  BY <1>1, <1>4, ExportKept DEF Kept
<1>6. ImportInv'
  BY <1>1, <1>2, BesideImport DEF Kept
<1>. QED
  BY <1>3, <1>5, <1>6 DEF IInv

\* The new agent starts nothing that its hold forbids, or is gone with its volume.
LEMMA NewAgentGoes ==
    ASSUME IInv, NEW a \in Agents, SetAgent(Import, a), ~Uncreated,
           UNCHANGED <<row, thread, up, pod, object, time, asked>>, SpentOK',
           IF a.exists
           THEN /\ agent[Import].exists /\ volume' = volume
                /\ ~a.hold \/ a.pod \/ a.building
                      => ~agent[Import].hold \/ agent[Import].pod \/ agent[Import].building
           ELSE ~a.pod /\ ~a.building /\ volume' = "none"
    PROVE  IInv'
<1>1. TypeOK /\ ExportInv /\ ImportInv /\ agent \in [Jobs -> Agents]
  BY Typed DEF IInv, WorldOK
<1>2. agent' \in [Jobs -> Agents] /\ agent'[Import] = a /\ agent'[Export] = agent[Export]
  BY <1>1, Names DEF SetAgent
<1>3. TypeOK'
  BY <1>1, <1>2 DEF TypeOK, SpentOK, time
<1>4. ExportInv'
  BY <1>1, <1>2, BesideExport DEF Kept
<1>5. a.exists /\ Restored' => agent[Import].exists /\ Restored
  BY <1>2 DEF Restored
<1>6. VolumeKept
  BY <1>1, <1>2, <1>5 DEF ImportInv, VolumeInv, VolumeKept, Gone
<1>7. ImportInv'
  BY <1>1, <1>6, ImportKept DEF Kept
<1>. QED
  BY <1>3, <1>4, <1>7 DEF IInv

LEMMA SetDesiredPhaseKeeps ==
    ASSUME IInv, NEW j \in Jobs, SetDesiredPhase(j)
    PROVE  IInv'
<1>1. TypeOK /\ agent[j] \in Agents /\ AskedOK
  BY Typed DEF IInv, WorldOK, AskedOK
<1>2. PICK phase \in {"Running", "Stopped"} :
         /\ SetAgent(j, [agent[j] EXCEPT !.desired = phase, !.mark = FALSE])
         /\ asked' = [asked EXCEPT !.verb = IF j = Export THEN phase ELSE @]
  BY DEF SetDesiredPhase
<1>3. /\ agent[j].exists /\ UNCHANGED <<row, thread, up, pod, volume, object, time>> /\ SpentOK'
  BY <1>1, Spending DEF SetDesiredPhase
<1>4. PICK a : a = [agent[j] EXCEPT !.desired = phase, !.mark = FALSE]
  OBVIOUS
<1>5. /\ a \in Agents /\ a.exists /\ a.hold = agent[j].hold /\ ~a.mark /\ a.desired = phase
      /\ a.pod = agent[j].pod /\ a.building = agent[j].building
  BY <1>1, <1>3, <1>4 DEF Agents
<1>6. CASE j = Export
  <2>1. AskedOK' /\ asked'.verb # ""
    BY <1>1, <1>2, <1>6 DEF AskedOK
  <2>. QED
    BY <1>2, <1>3, <1>4, <1>5, <1>6, <2>1, SourceGoes
<1>7. CASE j = Import
  <2>1. asked' = asked
    BY <1>1, <1>2, <1>7, Names DEF AskedOK
  <2>2. ~Uncreated
    BY <1>3, <1>7, NoAgentFields DEF Uncreated
  <2>. QED
    BY <1>2, <1>3, <1>4, <1>5, <1>7, <2>1, <2>2, NewAgentGoes
<1>. QED
  BY <1>6, <1>7 DEF Jobs

LEMMA DeleteAgentKeeps ==
    ASSUME IInv, NEW j \in Jobs, DeleteAgent(j)
    PROVE  IInv'
<1>1. TypeOK /\ AskedOK
  BY Typed DEF IInv, AskedOK
<1>2. /\ agent[j].exists /\ SetAgent(j, NoAgent) /\ SpentOK'
      /\ volume' = IF j = Import THEN "none" ELSE volume
      /\ UNCHANGED <<row, thread, up, pod, object, time, asked>>
  BY <1>1, Spending DEF DeleteAgent
<1>3. CASE j = Export
  BY <1>1, <1>2, <1>3, Names, NoAgentFields, SourceGoes DEF AskedOK
<1>4. CASE j = Import
  <2>1. ~Uncreated
    BY <1>2, <1>4, NoAgentFields DEF Uncreated
  <2>. QED
    BY <1>2, <1>4, <2>1, NoAgentFields, NewAgentGoes
<1>. QED
  BY <1>3, <1>4 DEF Jobs

\* What the agent controller makes of an agent.
LEMMA ControllerAgent ==
    ASSUME TypeOK, NEW j \in Jobs, Controller(j)
    PROVE  \E a \in Agents :
              LET b == agent[j] IN
              /\ SetAgent(j, a) /\ a.exists = b.exists /\ a.hold = b.hold /\ a.mark = b.mark
              /\ a.desired = b.desired
              /\ a.phase = "Stopped" => b.desired = "Stopped" \/ b.phase = "Stopped"
              /\ b.phase = "Stopped" => a.phase = "Stopped" \/ b.building
              /\ ~a.hold \/ a.pod \/ a.building => ~b.hold \/ b.pod \/ b.building
              /\ b.exists \/ b.pod \/ b.building
<1>. DEFINE b == agent[j]
<1>1. b \in Agents
  BY Typed DEF WorldOK
<1>2. CASE ReconcileStarts(j)
  <2>1. [b EXCEPT !.building = TRUE] \in Agents
    BY <1>1 DEF Agents
  <2>. QED
    BY <1>1, <1>2, <2>1 DEF ReconcileStarts, Agents
<1>3. CASE CreatePod(j)
  <2>1. [b EXCEPT !.building = FALSE, !.pod = TRUE, !.phase = "Creating"] \in Agents
    BY <1>1 DEF Agents, Phases
  <2>. QED
    BY <1>1, <1>3, <2>1 DEF CreatePod, Agents
<1>4. CASE Boots(j)
  <2>1. /\ [b EXCEPT !.phase = "Running"] \in Agents
        /\ [b EXCEPT !.phase = "Failed", !.pod = FALSE] \in Agents
    BY <1>1 DEF Agents, Phases
  <2>2. CASE SetAgent(j, [b EXCEPT !.phase = "Running"])
    BY <1>1, <1>4, <2>1, <2>2 DEF Boots, Agents
  <2>3. CASE SetAgent(j, [b EXCEPT !.phase = "Failed", !.pod = FALSE])
    BY <1>1, <1>4, <2>1, <2>3 DEF Boots, Agents
  <2>. QED
    BY <1>4, <2>2, <2>3 DEF Boots
<1>5. CASE StopPod(j)
  <2>1. [b EXCEPT !.pod = FALSE, !.phase = "Stopped"] \in Agents
    BY <1>1 DEF Agents, Phases
  <2>. QED
    BY <1>1, <1>5, <2>1 DEF StopPod, Agents
<1>6. CASE AgentPodDies(j)
  <2>1. [b EXCEPT !.pod = FALSE] \in Agents
    BY <1>1 DEF Agents
  <2>. QED
    BY <1>1, <1>6, <2>1 DEF AgentPodDies, Agents
<1>. QED
  BY <1>2, <1>3, <1>4, <1>5, <1>6 DEF Controller

LEMMA ControllerKeeps ==
    ASSUME IInv, NEW j \in Jobs, Controller(j)
    PROVE  IInv'
<1>1. TypeOK /\ ExportInv /\ ImportInv /\ AskedOK /\ agent[Export] \in Agents
  BY Typed DEF IInv, AskedOK
<1>2. /\ UNCHANGED <<row, thread, up, pod, volume, object, time, asked>> /\ SpentOK'
  <2>1. /\ UNCHANGED <<row, thread, up, pod, volume, object, time, asked>>
        /\ Fault \/ UNCHANGED spent
    BY DEF Controller, ReconcileStarts, CreatePod, Boots, StopPod, AgentPodDies
  <2>. QED
    BY <1>1, <2>1, Spending
<1>3. PICK a \in Agents :
         /\ SetAgent(j, a) /\ a.exists = agent[j].exists /\ a.hold = agent[j].hold
         /\ a.mark = agent[j].mark /\ a.desired = agent[j].desired
         /\ a.phase = "Stopped" => agent[j].desired = "Stopped" \/ agent[j].phase = "Stopped"
         /\ agent[j].phase = "Stopped" => a.phase = "Stopped" \/ agent[j].building
         /\ ~a.hold \/ a.pod \/ a.building
               => ~agent[j].hold \/ agent[j].pod \/ agent[j].building
         /\ agent[j].exists \/ agent[j].pod \/ agent[j].building
  BY <1>1, ControllerAgent
<1>4. CASE j = Export
  <2>1. agent[Export].desired = "" => agent[Export].phase # "Stopped"
    BY <1>1 DEF ExportInv, HoldInv
  <2>2. a.desired = "" => a.phase # "Stopped"
    BY <1>3, <1>4, <2>1
  <2>3. StandingIntent(a) = StandingIntent(agent[Export])
    BY <1>3, <1>4, <2>1, <2>2 DEF StandingIntent
  <2>4. AskedOK'
    BY <1>1, <1>2 DEF AskedOK
  <2>. QED
    BY <1>2, <1>3, <1>4, <2>2, <2>3, <2>4, SourceGoes
<1>5. CASE j = Import
  <2>1. agent[Import].exists
    BY <1>1, <1>3, <1>5 DEF ImportInv, VolumeInv
  <2>2. ~Uncreated
    BY <2>1, NoAgentFields DEF Uncreated
  <2>. QED
    BY <1>2, <1>3, <1>5, <2>1, <2>2, NewAgentGoes
<1>. QED
  BY <1>4, <1>5 DEF Jobs

UploadStages == {"none", "claim", "store", "record", "undo", "ok", "refused"}

LEMMA UploadMoves ==
    ASSUME TypeOK, NEW u \in Uploads, NEW at \in UploadStages
    PROVE  /\ Upload(u, at) => up' \in UpTypes
           /\ [OutdatedUploads(Export) EXCEPT ![u].at = at] \in UpTypes
<1>1. up \in UpTypes /\ OutdatedUploads(Export) \in UpTypes
  BY Typed, Names, OutdatedUp
<1>2. [at |-> at, fresh |-> at = "claim"] \in [at: UploadStages, fresh: BOOLEAN]
  BY DEF UploadStages
<1>3. Upload(u, at) => up' \in UpTypes
  BY <1>1, <1>2 DEF Upload, UpTypes, UploadStages
<1>4. [OutdatedUploads(Export) EXCEPT ![u].at = at] \in UpTypes
  BY <1>1 DEF UpTypes, UploadStages
<1>. QED
  BY <1>3, <1>4

\* A step of an upload that saves no row.
LEMMA UploadBeside ==
    ASSUME IInv, NEW u \in Uploads, NEW at \in UploadStages, Upload(u, at),
           UNCHANGED <<row, thread, cluster, time, asked>>, object' \in BOOLEAN, SpentOK'
    PROVE  IInv'
<1>1. TypeOK /\ late \subseteq Jobs /\ lapsed \in BOOLEAN
  BY DEF IInv, TypeOK
<1>2. up' \in UpTypes
  BY <1>1, UploadMoves
<1>3. WorldOK'
  BY <1>1, Typed DEF WorldOK, cluster
<1>. QED
  BY <1>1, <1>2, <1>3, Beside DEF cluster, time

\* A save of the export's row by an upload, or by the verify pod.
ExportMark(r) ==
    /\ r \in Rows /\ SameStep(r, row[Export]) /\ SameHold(r, row[Export])
    /\ SameImport(r, row[Export]) /\ r.finishing = row[Export].finishing

LEMMA ExportMarkings ==
    ASSUME TypeOK
    PROVE  /\ ExportMark([row[Export] EXCEPT !.claimed = TRUE])
           /\ ExportMark([row[Export] EXCEPT !.uploaded = TRUE])
           /\ ExportMark([row[Export] EXCEPT !.verified = TRUE]) /\ ExportMark(row[Export])
BY Typed, Marks DEF ExportMark

LEMMA ExportMarked ==
    ASSUME IInv, NEW r, ExportMark(r), WriteRow(Export, r), up' \in UpTypes,
           UNCHANGED <<agent, volume, object, time, asked>>, SpentOK',
           pod' \in [Jobs \cup {"verify"} -> Pods], pod'[Import] = pod[Import]
    PROVE  IInv'
<1>1. WorldOK'
  BY Typed DEF IInv, WorldOK
<1>. QED
  BY <1>1, Names, Marked DEF time, ExportMark

\* A save of the export's row by an upload: of its claim, or of its end.
LEMMA UploadSaves ==
    ASSUME IInv, up' \in UpTypes, UNCHANGED <<cluster, object, time, asked>>, SpentOK',
           \/ WriteRow(Export, [row[Export] EXCEPT !.claimed = TRUE])
           \/ WriteRow(Export, [row[Export] EXCEPT !.uploaded = TRUE])
    PROVE  IInv'
<1>1. PICK r : ExportMark(r) /\ WriteRow(Export, r)
  BY ExportMarkings DEF IInv
<1>2. UNCHANGED <<agent, volume, pod>>
  BY DEF cluster
<1>3. pod' \in [Jobs \cup {"verify"} -> Pods] /\ pod'[Import] = pod[Import]
  BY <1>2, Typed DEF IInv, WorldOK
<1>4. UNCHANGED <<agent, volume, object, time, asked>>
  BY <1>2
<1>. QED
  BY <1>1, <1>3, <1>4, ExportMarked

LEMMA UploadStepKeeps ==
    ASSUME IInv, NEW u \in Uploads, UploadStep(u)
    PROVE  IInv'
<1>1. TypeOK /\ pod \in [Jobs \cup {"verify"} -> Pods] /\ object \in BOOLEAN
  BY Typed DEF IInv, WorldOK
<1>2. {"claim", "refused", "store", "record", "undo", "ok"} \subseteq UploadStages
  BY DEF UploadStages
<1>3. CASE UploadArrives(u)
  <2>1. Fault \/ UNCHANGED spent
    BY <1>3 DEF UploadArrives, Sent
  <2>2. PICK at \in {"claim", "refused"} : Upload(u, at)
    BY <1>3 DEF UploadArrives
  <2>3. UNCHANGED <<row, thread, cluster, object, time, asked>>
    BY <1>3 DEF UploadArrives
  <2>. QED
    BY <1>1, <1>2, <2>1, <2>2, <2>3, Spending, UploadBeside
<1>4. CASE ClaimUpload(u)
  <2>1. UNCHANGED <<cluster, object, time, asked, spent>>
    BY <1>4 DEF ClaimUpload
  <2>2. CASE Upload(u, "refused") /\ UNCHANGED <<row, thread>>
    BY <1>1, <1>2, <2>1, <2>2, Spending, UploadBeside
  <2>3. CASE /\ WriteRow(Export, [row[Export] EXCEPT !.claimed = TRUE])
             /\ up' = [OutdatedUploads(Export) EXCEPT ![u].at = "store"]
    <3>1. up' \in UpTypes
      BY <1>1, <1>2, <2>3, UploadMoves
    <3>2. SpentOK'
      BY <1>1, <2>1, Spending
    <3>. QED
      BY <2>1, <2>3, <3>1, <3>2, UploadSaves
  <2>. QED
    BY <1>4, <2>2, <2>3 DEF ClaimUpload
<1>5. CASE ReportProgress(u)
  <2>1. /\ WriteRow(Export, row[Export]) /\ up' = OutdatedUploads(Export) /\ Fault
        /\ UNCHANGED <<cluster, object, time, asked>>
    BY <1>5 DEF ReportProgress
  <2>2. up' \in UpTypes
    BY <1>1, <2>1, Names, OutdatedUp
  <2>. QED
    BY <1>1, <2>1, <2>2, Spending, ExportMarkings, ExportMarked DEF cluster
<1>6. CASE StoreSealed(u)
  <2>1. /\ UNCHANGED <<row, thread, cluster, time, asked>> /\ object' \in BOOLEAN
        /\ Fault \/ UNCHANGED spent
        /\ Upload(u, "record") \/ Upload(u, "undo")
    BY <1>1, <1>6 DEF StoreSealed
  <2>. QED
    BY <1>1, <1>2, <2>1, Spending, UploadBeside
<1>7. CASE RecordUpload(u)
  <2>1. UNCHANGED <<cluster, object, time, asked>> /\ (Fault \/ UNCHANGED spent)
    BY <1>7 DEF RecordUpload
  <2>2. CASE Upload(u, "undo") /\ UNCHANGED <<row, thread>>
    BY <1>1, <1>2, <2>1, <2>2, Spending, UploadBeside
  <2>3. CASE /\ WriteRow(Export, [row[Export] EXCEPT !.uploaded = TRUE])
             /\ \E at \in {"ok", "undo"} : up' = [OutdatedUploads(Export) EXCEPT ![u].at = at]
    <3>1. up' \in UpTypes
      <4>1. PICK at \in {"ok", "undo"} : up' = [OutdatedUploads(Export) EXCEPT ![u].at = at]
        BY <2>3
      <4>2. [OutdatedUploads(Export) EXCEPT ![u].at = at] \in UpTypes
        BY <1>1, <1>2, UploadMoves
      <4>. QED
        BY <4>1, <4>2
    <3>2. SpentOK'
      BY <1>1, <2>1, Spending
    <3>. QED
      BY <2>1, <2>3, <3>1, <3>2, UploadSaves
  <2>. QED
    BY <1>7, <2>2, <2>3 DEF RecordUpload
<1>8. CASE UndoUpload(u)
  <2>1. /\ UNCHANGED <<row, thread, cluster, time, asked, spent>> /\ object' \in BOOLEAN
        /\ Upload(u, "refused")
    BY <1>8 DEF UndoUpload
  <2>. QED
    BY <1>1, <1>2, <2>1, Spending, UploadBeside
<1>9. CASE UploadCrashes(u)
  <2>1. /\ UNCHANGED <<row, thread, cluster, object, time, asked>> /\ Fault
        /\ Upload(u, "refused")
    BY <1>9 DEF UploadCrashes
  <2>. QED
    BY <1>1, <1>2, <2>1, Spending, UploadBeside
<1>. QED
  BY <1>3, <1>4, <1>5, <1>6, <1>7, <1>8, <1>9 DEF UploadStep

LEMMA PostSummaryKeeps ==
    ASSUME IInv, PostSummary
    PROVE  IInv'
<1>1. TypeOK
  BY DEF IInv
<1>2. /\ WriteRow(Export, [row[Export] EXCEPT !.verified = TRUE]) /\ up' = OutdatedUploads(Export)
      /\ SetPod("verify", "succeeded")
      /\ UNCHANGED <<agent, volume, object, time, asked, spent>>
  BY DEF PostSummary, SetPod
<1>3. up' \in UpTypes
  BY <1>1, <1>2, Names, OutdatedUp
<1>4. "succeeded" \in Pods /\ "verify" # Import
  BY DEF Pods, Import
<1>5. pod' \in [Jobs \cup {"verify"} -> Pods] /\ pod'[Import] = pod[Import]
  BY <1>1, <1>2, <1>4, PodSet
<1>. QED
  BY <1>1, <1>2, <1>3, <1>5, Spending, ExportMarkings, ExportMarked

\* Pods come to their ends; only the restore pod touches the volume.
LEMMA PodGoes ==
    ASSUME IInv, NEW p \in {Export, Import, "verify"}, NEW s \in Pods, SetPod(p, s),
           s # "succeeded" \/ p # Import, pod[p] \in {"running", "writing"},
           UNCHANGED <<row, thread, up, agent, volume, object, time, asked>>, SpentOK'
    PROVE  IInv'
<1>1. TypeOK /\ ExportInv /\ ImportInv
  BY DEF IInv
<1>2. /\ pod' \in [Jobs \cup {"verify"} -> Pods] /\ pod'[p] = s
      /\ p # Import => pod'[Import] = pod[Import]
  BY <1>1, PodSet
<1>3. WorldOK' /\ up' \in UpTypes /\ late' \subseteq Jobs /\ lapsed' \in BOOLEAN
  BY <1>1, <1>2, Typed DEF WorldOK, TypeOK, time
<1>4. TypeOK'
  BY <1>1, <1>3 DEF TypeOK, WorldOK, SpentOK, Pods, UpTypes
<1>5. ExportInv'
  BY <1>1, BesideExport DEF Kept
<1>6. VolumeKept
  BY <1>1, <1>2, SameVolume
<1>7. Uncreated => pod'[Import] = "none"
  BY <1>2 DEF Uncreated
<1>8. ImportInv'
  BY <1>1, <1>6, <1>7, ImportKept DEF Kept, Uncreated
<1>. QED
  BY <1>4, <1>5, <1>8 DEF IInv

LEMMA PodsKeep ==
    ASSUME IInv, ExportPodExits \/ VerifyPodFails \/ \E p \in DOMAIN pod : PodDies(p)
    PROVE  IInv'
<1>1. TypeOK /\ DOMAIN pod = {Export, Import, "verify"}
  BY Typed DEF IInv, WorldOK, Jobs
<1>2. {"succeeded", "failed", "none"} \subseteq Pods /\ Export # Import
  BY Names DEF Pods
<1>3. CASE ExportPodExits
  <2>1. /\ pod[Export] = "running" /\ (SetPod(Export, "succeeded") \/ SetPod(Export, "failed"))
        /\ UNCHANGED <<row, thread, up, agent, volume, object, time, asked, spent>>
    BY <1>3 DEF ExportPodExits
  <2>. QED
    BY <1>1, <1>2, <2>1, Spending, PodGoes
<1>4. CASE VerifyPodFails
  <2>1. /\ pod["verify"] = "running" /\ SetPod("verify", "failed")
        /\ UNCHANGED <<row, thread, up, agent, volume, object, time, asked, spent>>
    BY <1>4 DEF VerifyPodFails
  <2>. QED
    BY <1>1, <1>2, <2>1, Spending, PodGoes
<1>5. ASSUME NEW p \in DOMAIN pod, PodDies(p) PROVE IInv'
  <2>1. /\ pod[p] \in {"running", "writing"} /\ (SetPod(p, "failed") \/ SetPod(p, "none"))
        /\ UNCHANGED <<row, thread, up, agent, object, volume, time, asked>> /\ Fault
    BY <1>5 DEF PodDies
  <2>. QED
    BY <1>1, <1>2, <1>5, <2>1, Spending, PodGoes
<1>. QED
  BY <1>3, <1>4, <1>5

LEMMA RestorePodRunsKeeps ==
    ASSUME IInv, RestorePodRuns
    PROVE  IInv'
<1>1. TypeOK /\ ExportInv /\ ImportInv
  BY DEF IInv
<1>2. /\ UNCHANGED <<row, thread, up, agent, object, time, asked, spent>>
      /\ pod[Import] \in {"running", "writing"}
  BY DEF RestorePodRuns
<1>3. {"failed", "writing", "succeeded"} \subseteq Pods
  BY DEF Pods
<1>4. SpentOK'
  BY <1>1, <1>2, Spending
<1>5. CASE SetPod(Import, "failed") /\ UNCHANGED volume
  BY <1>2, <1>3, <1>4, <1>5, PodGoes
<1>6. CASE \/ volume = "empty" /\ SetPod(Import, "writing") /\ volume' = "partial"
           \/ Readable /\ SetPod(Import, "succeeded") /\ volume' = "full"
  <2>1. /\ pod' \in [Jobs \cup {"verify"} -> Pods]
        /\ \/ volume = "empty" /\ pod'[Import] = "writing" /\ volume' = "partial"
           \/ Readable /\ volume' = "full"
    BY <1>1, <1>3, <1>6, PodSet
  <2>2. WorldOK' /\ up' \in UpTypes /\ late' \subseteq Jobs /\ lapsed' \in BOOLEAN
    BY <1>1, <1>2, <1>4, <2>1, Typed DEF WorldOK, TypeOK, time
  <2>3. TypeOK'
    BY <1>1, <1>2, <2>2 DEF TypeOK, WorldOK, SpentOK, Pods, UpTypes
  <2>4. ExportInv'
    BY <1>1, <1>2, BesideExport DEF Kept
  <2>5. Readable => ~Closing(row[Import])
    BY DEF Readable, Closing, Ended
  <2>6. VolumeKept
    <3>1. ~agent'[Import].exists => ~agent'[Import].pod /\ ~agent'[Import].building
      BY <1>1, <1>2 DEF ImportInv, VolumeInv
    <3>2. Closing(row[Import]) /\ Gone => Gone'
      BY <2>1, <2>5 DEF Gone
    <3>3. agent'[Import].exists /\ Restored' => volume' = "full"
      <4>1. CASE volume = "empty" /\ pod'[Import] = "writing" /\ volume' = "partial"
        <5>1. Restored' => Restored
          BY <1>2, <4>1 DEF Restored
        <5>. QED
          BY <1>1, <1>2, <4>1, <5>1 DEF ImportInv, VolumeInv
      <4>. QED
        BY <2>1, <4>1
    <3>. QED
      BY <3>1, <3>2, <3>3 DEF VolumeKept
  <2>7. ~Uncreated
    BY <1>2 DEF Uncreated
  <2>8. ImportInv'
    BY <1>1, <1>2, <2>6, <2>7, ImportKept DEF Kept
  <2>. QED
    BY <2>3, <2>4, <2>8 DEF IInv
<1>. QED
  BY <1>5, <1>6 DEF RestorePodRuns

-----------------------------------------------------------------------------
(* Time and crashes.                                                       *)

LEMMA TimeKeeps ==
    ASSUME IInv, RetentionPasses \/ (\E j \in Jobs : DeadlinePasses(j)) \/ UNCHANGED vars
    PROVE  IInv'
<1>1. TypeOK /\ late \subseteq Jobs /\ lapsed \in BOOLEAN /\ up \in UpTypes
  BY Typed DEF IInv, TypeOK
<1>2. UNCHANGED <<row, thread, up, agent, pod, volume, object, asked, spent>>
  BY DEF RetentionPasses, DeadlinePasses, vars, cluster
<1>3. late' \subseteq Jobs /\ lapsed' \in BOOLEAN
  BY <1>1 DEF RetentionPasses, DeadlinePasses, vars
<1>4. WorldOK'
  BY <1>1, <1>2, SameWorld, Spending DEF cluster
<1>. QED
  BY <1>1, <1>2, <1>3, <1>4, Beside

LEMMA CrashKeeps ==
    ASSUME IInv, NEW th \in Threads, Crash(th)
    PROVE  IInv'
<1>1. TypeOK /\ object \in BOOLEAN /\ pod \in [Jobs \cup {"verify"} -> Pods]
  BY Typed DEF IInv, WorldOK
<1>2. /\ thread[th].at # "idle" /\ Proceed(th, "idle") /\ UNCHANGED <<cluster, object>> /\ Fault
  BY DEF Crash, Proceed, time
<1>3. SpentOK' /\ "idle" \in Stages /\ "idle" \notin Finishing \cup Late
  BY <1>1, <1>2, Spending DEF Stages, Finishing, Late
<1>4. CASE th = Export
  BY <1>1, <1>2, <1>3, <1>4, ExportProceeds DEF cluster
<1>5. CASE th = "deleter"
  BY <1>1, <1>2, <1>3, <1>5, DeleterGoes
<1>6. CASE th \in Importers
  <2>1. Uncreated => pod'[Import] = "none"
    BY <1>2 DEF Uncreated, cluster
  <2>. QED
    BY <1>1, <1>2, <1>3, <1>6, <2>1, ImportProceeds DEF cluster
<1>. QED
  BY <1>4, <1>5, <1>6, Names

-----------------------------------------------------------------------------
(* The theorems.                                                           *)

LEMMA SourcesRest ==
    ASSUME NEW a \in Sources
    PROVE  /\ a \in Agents /\ ~a.hold /\ ~a.mark
           /\ a.desired = "" => a.phase # "Stopped"
           /\ StandingIntent(a) \in {"Running", "Stopped"}
BY DEF Sources, Agents, Phases, StandingIntent

LEMMA OldRow ==
    /\ OldExport \in Rows /\ OldExport.state = "completed" /\ ~OldExport.hold
    /\ OldExport.finishing = ""
BY NoRowFields DEF OldExport, Rows, Terminal

LEMMA Begins ==
    ASSUME Init
    PROVE  IInv
<1>1. /\ thread = [th \in Threads |-> Idle] /\ late = {} /\ lapsed = FALSE
      /\ up = [u \in Uploads |-> [at |-> "none", fresh |-> FALSE]]
      /\ pod = [p \in Jobs \cup {"verify"} |-> "none"] /\ volume = "none"
      /\ asked = [intent |-> StandingIntent(agent[Export]), verb |-> "", deletion |-> FALSE,
                  importing |-> object]
      /\ spent = [faults |-> 0, commands |-> 0]
  BY DEF Init
<1>2. /\ row \in [Jobs -> Rows] /\ object \in BOOLEAN /\ row[Import] = NoRow
      /\ row[Export] \in {NoRow, OldExport}
      /\ agent \in [Jobs -> Agents] /\ agent[Import] = NoAgent
      /\ agent[Export] \in Sources \cup {NoAgent}
  <2>1. CASE /\ row = [j \in Jobs |-> NoRow] /\ object = FALSE
             /\ agent \in {[j \in Jobs |-> IF j = Export THEN a ELSE NoAgent] : a \in Sources}
    <3>1. PICK a \in Sources : agent = [j \in Jobs |-> IF j = Export THEN a ELSE NoAgent]
      BY <2>1
    <3>. QED
      BY <2>1, <3>1, Names, NoRowFields, NoAgentFields, SourcesRest
  <2>2. CASE /\ row = [j \in Jobs |-> IF j = Export THEN OldExport ELSE NoRow] /\ object = TRUE
             /\ agent = [j \in Jobs |-> NoAgent]
    BY <2>2, Names, NoRowFields, OldRow, NoAgentFields
  <2>. QED
    BY <2>1, <2>2 DEF Init
<1>3. /\ ~agent[Export].hold /\ (agent[Export].exists => ~agent[Export].mark)
      /\ agent[Export].desired = "" => agent[Export].phase # "Stopped"
      /\ StandingIntent(agent[Export]) \in {"Running", "Stopped"}
  BY <1>2, SourcesRest, NoAgentFields DEF StandingIntent
<1>4. TypeOK
  <2>1. spent \in [faults: 0..MaxFaults, commands: 0..MaxCommands]
    <3>1. 0 \in 0..MaxFaults /\ 0 \in 0..MaxCommands
      BY BoundsAssumption
    <3>. QED
      BY <1>1, <3>1
  <2>2. asked \in [intent: {"Running", "Stopped"}, verb: {"", "Running", "Stopped"},
                   deletion: BOOLEAN, importing: BOOLEAN]
    BY <1>1, <1>2, <1>3
  <2>3. thread \in [Threads -> [at: Stages, row: Rows, fresh: BOOLEAN, saw: Agents]]
    BY <1>1, IdleFields DEF Copies
  <2>. QED
    BY <1>1, <1>2, <2>1, <2>2, <2>3 DEF TypeOK
<1>5. /\ \A th \in Threads : thread[th].at = "idle" /\ thread[th].row = NoRow /\ ~thread[th].fresh
      /\ pod[Import] = "none"
  BY <1>1, Names, IdleFields
<1>6. ExportInv
  <2>1. ExportStage("idle", NoRow) /\ DeleterStage("idle", NoRow) /\ "idle" \notin Late
    BY IdleStages DEF DeleterStage, Late
  <2>2. ExportCopies
    BY <1>5, Names, NoRowFields DEF ExportCopies, Active
  <2>3. GivenBack
    BY <1>1, <1>3 DEF GivenBack
  <2>4. ~row[Export].hold /\ row[Export].finishing = "" /\ row[Export].state # "running"
    BY <1>2, NoRowFields, OldRow
  <2>5. HoldInv
    BY <1>3, <1>5, <2>1, <2>3, <2>4, Names DEF HoldInv, HoldOK
  <2>. QED
    BY <1>5, <2>1, <2>2, <2>5, Names DEF ExportInv
<1>7. ImportInv
  <2>1. \A th \in Importers : ImportStage(th, thread[th].at, thread[th].row)
    BY <1>5, Names, IdleStages
  <2>2. Uncreated /\ Unstarted
    BY <1>1, <1>2, <1>5, Names, NoRowFields DEF Uncreated, Unstarted
  <2>3. VolumeInv
    BY <1>2, <2>2, NoAgentFields, NoRowFields DEF VolumeInv
  <2>4. DiscardInv
    BY <1>2, <1>5, Names, NoRowFields DEF DiscardInv, Finishing, Ended
  <2>. QED
    BY <2>1, <2>2, <2>3, <2>4 DEF ImportInv
<1>. QED
  BY <1>4, <1>6, <1>7 DEF IInv

LEMMA WorkerKeeps ==
    ASSUME IInv, NEW j \in Jobs, WorkerStep(j)
    PROVE  IInv'
<1>1. CASE j = Export
  <2>1. \/ Dispatch(Export) \/ CutShort(Export) \/ IssueToken(Export) \/ CreateArchivePod(Export)
        \/ PodCreated(Export) \/ ReleaseAgent(Export) \/ AgentReleased(Export)
        \/ CleanupPods(Export) \/ LetGo(Export) \/ EraseBytes(Export) \/ End(Export)
        \/ AgentLost \/ BeginExport \/ PatchHold \/ ReapplyHold \/ WaitForPause \/ WatchExportPod
        \/ VerifyStored \/ Verified \/ Shred(Export) \/ Shredded(Export)
    BY <1>1, Names DEF WorkerStep, FinishStep, ExportStep
  <2>. QED
    BY <2>1, DispatchExport, CutShortExport, IssueTokenExport, CreateArchivePodExport,
       PodCreatedExport, ReleaseAgentExport, AgentReleasedExport, CleanupExport, LetGoExport,
       EndExport, AgentLostKeeps, BeginExportKeeps, PatchHoldKeeps, WaitForPauseKeeps,
       WatchExportPodKeeps, VerifyStoredKeeps, VerifiedKeeps, ShredExport
<1>2. CASE j = Import
  <2>1. \/ Dispatch(Import) \/ CutShort(Import) \/ IssueToken(Import) \/ CreateArchivePod(Import)
        \/ PodCreated(Import) \/ ReleaseAgent(Import) \/ AgentReleased(Import)
        \/ CleanupPods(Import) \/ LetGo(Import) \/ EraseBytes(Import) \/ End(Import)
        \/ AdoptAgent \/ NewAgentLost \/ BeginRestore \/ WatchRestorePod \/ WatchFirstBoot
    BY <1>2, Names DEF WorkerStep, FinishStep, ImportStep
  <2>. QED
    BY <2>1, Names, DispatchImport, CutShortImport, IssueTokenImport, CreateArchivePodImport,
       PodCreatedImport, ReleaseAgentImport, AgentReleasedImport, CleanupImport, LetGoImport,
       EndImport, AdoptAgentKeeps, NewAgentLostKeeps, BeginRestoreKeeps, WatchRestorePodKeeps,
       WatchFirstBootKeeps
<1>. QED
  BY <1>1, <1>2 DEF Jobs

LEMMA Preserved ==
    ASSUME IInv, [Next]_vars
    PROVE  IInv'
<1>1. ASSUME NEW j \in Jobs, WorkerStep(j) \/ Controller(j) \/ DeadlinePasses(j)
      PROVE  IInv'
  BY <1>1, WorkerKeeps, ControllerKeeps, TimeKeeps
<1>2. CASE HandlerStep
  BY <1>2, Names, CreateAgentKeeps, RecordAgentKeeps, AbandonKeeps, CleanupImport, LetGoImport,
     EndImport, ShredDeleter, ShreddedDeleter DEF HandlerStep, FinishStep
<1>3. CASE Operator
  BY <1>3, StartExportKeeps, StartImportKeeps, DeleteArchiveKeeps, RequestCancelKeeps,
     SetDesiredPhaseKeeps, DeleteAgentKeeps DEF Operator
<1>4. CASE \E u \in Uploads : UploadStep(u)
  BY <1>4, UploadStepKeeps
<1>5. CASE \/ PostSummary \/ ExportPodExits \/ VerifyPodFails \/ RestorePodRuns \/ RetentionPasses
           \/ \E p \in DOMAIN pod : PodDies(p)
  BY <1>5, PostSummaryKeeps, PodsKeep, RestorePodRunsKeeps, TimeKeeps
<1>6. CASE \E th \in Threads : Crash(th)
  BY <1>6, CrashKeeps
<1>7. CASE UNCHANGED vars
  BY <1>7, TimeKeeps
<1>. QED
  BY <1>1, <1>2, <1>3, <1>4, <1>5, <1>6, <1>7 DEF Next

LEMMA Invariance == Spec => []IInv
BY Begins, Preserved, PTL DEF Spec

(* Rows, copies, agents, pods and the volume stay within their types in     *)
(* every step of the worker, the handlers, the pods and the controller.     *)
THEOREM ArchiveTypeCorrect == Spec => []TypeOK
<1>1. IInv => TypeOK
  BY DEF IInv
<1>. QED
  BY <1>1, Invariance, PTL

(* However often its goroutine is cut off between a save and what it saved   *)
(* for, an export that no longer needs the volume has given its agent back:  *)
(* beginExport records the hold first, and finish releases it before it      *)
(* writes the outcome.                                                       *)
THEOREM ExportGivesBack == Spec => []AgentGivenBack
<1>1. IInv => AgentGivenBack
  BY DEF IInv, ExportInv, HoldInv, HoldOK, GivenBack, AgentGivenBack
<1>. QED
  BY <1>1, Invariance, PTL

(* The agent createAgent births under the hold gets no pod before the        *)
(* restore pod has filled its volume, whoever finishes the job and however   *)
(* stale the copy it does so with.                                           *)
THEOREM ImportBootsRestored == Spec => []BootsOnlyRestored
<1>1. IInv => BootsOnlyRestored
  BY DEF IInv, ImportInv, VolumeInv, Restored, BootsOnlyRestored
<1>. QED
  BY <1>1, Invariance, PTL

(* discardImportDestination leaves nothing of an import that ended before it *)
(* restored: neither a handler that recorded its agent late nor a goroutine  *)
(* with an older row brings agent or volume back.                            *)
THEOREM DiscardsComplete == Spec => []DiscardComplete
<1>1. IInv => DiscardComplete
  BY DEF IInv, ImportInv, DiscardInv, Discarded, Gone, DiscardComplete
<1>. QED
  BY <1>1, Invariance, PTL

-----------------------------------------------------------------------------
(* The archive's bytes.                                                    *)

SourceThreads == {Export, "deleter"}

(* What the bytes of an export depend on in its row.                       *)
SameBytes(r, s) ==
    /\ r.state = s.state /\ r.step = s.step /\ r.finishing = s.finishing
    /\ r.claimed = s.claimed /\ r.uploaded = s.uploaded

At(stages) == {u \in Uploads : up[u].at \in stages}
Storing == {"store", "record", "undo", "ok"}
Accepted == At({"ok"}) # {} \/ asked.importing
\* Reasons for which the bytes may be gone.
Retired == lapsed \/ asked.deletion
Excused == Closing(row[Export]) \/ Retired
\* From here on nobody looks at the upload again.
Far == \/ row[Export].state = "completed" \/ row[Export].step = "verifying"
       \/ thread[Export].at \in {"free", "freed"}

(* A copy that can be saved is right about the bytes, and one that has seen  *)
(* them recorded stays right.                                               *)
CopyGood(th) ==
    LET t == thread[th] IN
    /\ t.fresh => t.row.state # "none" /\ SameBytes(t.row, row[Export])
    /\ t.row.uploaded => row[Export].uploaded
    /\ t.at = "step" /\ t.row.state = "completed" => Retired
FinishGood ==
    thread[Export].row.state \in Active => thread[Export].row.finishing = row[Export].finishing

(* The claim lets one upload store, and that one records what it stored.    *)
ClaimInv ==
    /\ \A u, v \in At(Storing) : u = v
    /\ At(Storing) # {} \/ row[Export].uploaded => row[Export].claimed
    /\ row[Export].uploaded => At({"store", "record"}) = {}
    /\ \A u \in Uploads : up[u].at = "claim" /\ up[u].fresh => ~row[Export].claimed
    /\ asked.importing => /\ row[Export].state \in {"completed", "expired"}
                          /\ row[Export].claimed /\ At(Storing \cup {"claim"}) = {}

StoredInv == (At({"record", "ok"}) # {} \/ asked.importing) /\ ~object => Excused

(* Up to one fault, the pod outlives an upload whose record is in doubt: the *)
(* job goes on only with one that was answered.                             *)
PodWaits ==
    /\ \A u, v \in Uploads : up[u].at # "none" /\ up[v].at # "none" => u = v
    /\ At({"claim", "store", "record"}) # {} => pod[Export] = "running" \/ Closing(row[Export])
UploadSettled ==
    row[Export].uploaded =>
        \/ Accepted \/ Closing(row[Export])
        \/ spent.faults = 1 /\ pod[Export] \in {"running", "failed"}
OneFaultInv ==
    /\ spent.faults = 0 => PodWaits
    /\ UploadSettled
    /\ pod[Export] = "succeeded" => Accepted
    /\ Far => Accepted

BytesInv ==
    /\ \A th \in SourceThreads : CopyGood(th)
    /\ FinishGood
    /\ ClaimInv
    /\ StoredInv
    /\ spent.faults <= 1 => OneFaultInv

(* How an export's pod comes and goes.                                      *)
PodTurns ==
    \/ pod'[Export] = pod[Export] \/ pod'[Export] = "running"
    \/ pod'[Export] = "none" /\ (Accepted \/ Closing(row[Export]) \/ spent.faults > 1)
    \/ pod'[Export] = "succeeded" /\ At({"ok"}) # {}
    \/ pod'[Export] = "failed" /\ At({"claim", "store", "record"}) = {}
    \/ pod'[Export] \in {"none", "failed"} /\ spent'.faults = spent.faults + 1

Grows == spent.faults \in Nat /\ spent'.faults \in {spent.faults, spent.faults + 1}
UpKept == \A u \in Uploads : up'[u].at = up[u].at /\ (up'[u].fresh => up[u].fresh)

\* What a step that stores nothing, and sends no upload on, owes the bytes.
LEMMA BytesGo ==
    ASSUME BytesInv, \A th \in SourceThreads : CopyGood(th)', FinishGood', UpKept, Grows, PodTurns,
           row'[Export].claimed = row[Export].claimed,
           row'[Export].uploaded = row[Export].uploaded,
           Closing(row[Export]) => Closing(row'[Export]),
           asked'.importing = asked.importing,
           asked.importing => row'[Export].state \in {"completed", "expired"},
           Retired => Retired', ~object' => ~object \/ Excused', Far' => Far \/ Accepted \/ spent.faults > 1
    PROVE  BytesInv'
<1>1. \A u \in Uploads : up'[u].at = up[u].at
  BY DEF UpKept
<1>2. ClaimInv'
  BY <1>1 DEF BytesInv, ClaimInv, At, UpKept
<1>3. (Accepted => Accepted') /\ (Excused => Excused')
  BY <1>1 DEF Accepted, Excused, At
<1>4. StoredInv'
  BY <1>1, <1>3 DEF BytesInv, StoredInv, At
<1>5. ASSUME spent'.faults <= 1 PROVE OneFaultInv'
  <2>1. /\ spent.faults <= 1 /\ OneFaultInv /\ ClaimInv
        /\ spent'.faults = 0 => spent.faults = 0
        /\ spent.faults = 1 => spent'.faults = 1
    BY <1>5 DEF Grows, BytesInv
  <2>2. pod'[Export] \in {"none", "failed"} /\ spent'.faults = spent.faults + 1 =>
           spent.faults = 0 /\ spent'.faults = 1
    BY <1>5 DEF Grows
  <2>3. ASSUME spent'.faults = 0 PROVE PodWaits'
    <3>1. PodWaits /\ ClaimInv /\ spent.faults = 0 /\ spent'.faults # spent.faults + 1
      BY <2>1, <2>3 DEF OneFaultInv
    <3>2. Accepted => At({"claim", "store", "record"}) = {}
      BY <3>1 DEF PodWaits, Accepted, At, ClaimInv, Storing
    <3>3. pod[Export] = "succeeded" => Accepted
      BY <2>1 DEF OneFaultInv
    <3>4. At({"claim", "store", "record"})' = At({"claim", "store", "record"})
      BY <1>1 DEF At
    <3>5. At({"ok"}) # {} => Accepted
      BY DEF Accepted
    <3>6. At({"claim", "store", "record"}) # {} =>
             pod'[Export] = "running" \/ Closing(row[Export])
      BY <3>1, <3>2, <3>5 DEF PodWaits, PodTurns
    <3>. QED
      BY <1>1, <3>1, <3>4, <3>6 DEF PodWaits
  <2>4. UploadSettled'
    <3>1. UploadSettled
      BY <2>1 DEF OneFaultInv
    <3>2. At({"ok"}) # {} => Accepted
      BY DEF Accepted
    <3>3. ~Accepted /\ ~Closing(row[Export]) /\ spent.faults = 1 /\ pod[Export] \in {"running", "failed"}
             => pod'[Export] \in {"running", "failed"}
      BY <2>1, <2>2, <3>2 DEF PodTurns
    <3>. QED
      BY <1>3, <2>1, <3>1, <3>3 DEF UploadSettled
  <2>5. pod'[Export] = "succeeded" => Accepted'
    BY <1>3, <2>1 DEF OneFaultInv, PodTurns, Accepted
  <2>6. Far' => Accepted'
    BY <1>3, <1>5, <2>1 DEF OneFaultInv, Grows
  <2>. QED
    BY <2>3, <2>4, <2>5, <2>6 DEF OneFaultInv
<1>. QED
  BY <1>2, <1>4, <1>5 DEF BytesInv

\* A copy nobody touches, and one its thread moves on with.
LEMMA KeptCopy ==
    ASSUME NEW th \in SourceThreads, CopyGood(th), Kept(th), Retired => Retired',
           row[Export].uploaded => row'[Export].uploaded
    PROVE  CopyGood(th)'
<1>1. JobOf(th) = Export
  BY Names DEF SourceThreads
<1>. QED
  BY <1>1 DEF CopyGood, Kept, SameBytes

LEMMA NoRowBytes == ~NoRow.uploaded /\ ~NoRow.claimed
BY DEF NoRow

LEMMA ComesCopy ==
    ASSUME NEW th \in SourceThreads, CopyGood(th), NEW at, NEW r, Comes(th, at, r),
           SameBytes(r, thread[th].row), row' = row, at # "step"
    PROVE  CopyGood(th)'
BY NoRowBytes DEF CopyGood, Comes, SameBytes

LEMMA SavesCopy ==
    ASSUME NEW th \in SourceThreads, NEW at, NEW r, Comes(th, at, r), row'[Export] = r, at # "step",
           r.state # "none"
    PROVE  CopyGood(th)'
BY NoRowBytes DEF CopyGood, Comes, SameBytes

LEMMA OutdatedUps ==
    ASSUME TypeOK, NEW j \in Jobs, up' = OutdatedUploads(j)
    PROVE  UpKept
<1>1. CASE j = Export
  <2>1. \A u \in Uploads : up'[u] = [up[u] EXCEPT !.fresh = FALSE]
    BY <1>1 DEF OutdatedUploads
  <2>2. \A u \in Uploads : up[u] \in [at: UploadStages, fresh: BOOLEAN]
    BY Typed DEF UpTypes, UploadStages
  <2>. QED
    BY <2>1, <2>2 DEF UpKept
<1>2. CASE j # Export
  BY <1>2 DEF OutdatedUploads, UpKept
<1>. QED
  BY <1>1, <1>2

LEMMA Growing ==
    ASSUME TypeOK, Fault \/ Command \/ UNCHANGED spent
    PROVE  /\ Grows
           /\ Fault => spent'.faults = spent.faults + 1
           /\ Command \/ UNCHANGED spent => spent'.faults = spent.faults
<1>1. spent \in [faults: 0..MaxFaults, commands: 0..MaxCommands] /\ MaxFaults \in Nat
  BY BoundsAssumption DEF TypeOK
<1>2. spent.faults \in Nat
  BY <1>1
<1>3. Fault => spent'.faults = spent.faults + 1
  BY <1>1 DEF Fault
<1>4. Command => spent'.faults = spent.faults
  BY <1>1 DEF Command
<1>. QED
  BY <1>2, <1>3, <1>4 DEF Grows

\* A thread of the export moves on.
LEMMA BytesMoves ==
    ASSUME IInv, BytesInv, NEW th \in SourceThreads, NEW at \in Stages, NEW r \in Rows,
           thread' = [thread EXCEPT ![th] = Moved(th, at, r)], UNCHANGED <<row, up, lapsed, asked>>,
           SameBytes(r, thread[th].row), at # "step",
           th = Export /\ at \in {"free", "freed"} => Far \/ Accepted \/ spent.faults > 1,
           PodTurns, ~object' => ~object \/ Excused, Grows
    PROVE  BytesInv'
<1>1. TypeOK /\ th \in Threads /\ SourceThreads \subseteq Threads
  BY Names DEF IInv, SourceThreads
<1>2. Comes(th, at, r) /\ \A t \in Threads \ {th} : Kept(t)
  BY <1>1, Moves
<1>3. (Retired <=> Retired') /\ (Excused <=> Excused') /\ UpKept
  BY DEF Retired, Excused, UpKept, Closing
<1>4. \A t \in SourceThreads : CopyGood(t)'
  <2>1. \A t \in SourceThreads : CopyGood(t)
    BY DEF BytesInv
  <2>2. CopyGood(th)'
    BY <1>2, <2>1, ComesCopy
  <2>3. ASSUME NEW t \in SourceThreads \ {th} PROVE CopyGood(t)'
    BY <1>1, <1>2, <1>3, <2>1, KeptCopy
  <2>. QED
    BY <2>2, <2>3
<1>5. /\ thread'[Export].row = NoRow \/ SameBytes(thread'[Export].row, thread[Export].row)
      /\ thread'[Export].at \in {"free", "freed"} => Far \/ Accepted \/ spent.faults > 1
  <2>1. CASE th = Export
    BY <1>2, <2>1 DEF Comes
  <2>2. CASE th # Export
    BY <1>1, <1>2, <2>2, Names DEF Kept, SameBytes, Far, SourceThreads
  <2>. QED
    BY <2>1, <2>2
<1>6. FinishGood'
  BY <1>5, NoRowFields DEF BytesInv, FinishGood, SameBytes, Active
<1>7. Far' => Far \/ Accepted \/ spent.faults > 1
  BY <1>5 DEF Far
<1>8. asked.importing => row'[Export].state \in {"completed", "expired"}
  BY DEF BytesInv, ClaimInv
<1>. QED
  BY <1>3, <1>4, <1>6, <1>7, <1>8, BytesGo

LEMMA BytesGoes ==
    ASSUME IInv, BytesInv, NEW th \in SourceThreads, NEW at \in Stages, GoTo(th, at),
           UNCHANGED <<row, up, lapsed, asked>>, at # "step",
           th = Export /\ at \in {"free", "freed"} => Far \/ Accepted \/ spent.faults > 1,
           PodTurns, ~object' => ~object \/ Excused, Grows
    PROVE  BytesInv'
<1>1. th \in Threads /\ thread[th].row \in Rows /\ thread \in [Threads -> Copies]
  BY Names, Typed DEF IInv, SourceThreads
<1>2. thread' = [thread EXCEPT ![th] = Moved(th, at, thread[th].row)]
  BY <1>1 DEF GoTo
<1>3. SameBytes(thread[th].row, thread[th].row)
  BY DEF SameBytes
<1>. QED
  BY <1>1, <1>2, <1>3, BytesMoves

\* A thread of the export saves r, made of its copy.
LEMMA BytesSaves ==
    ASSUME IInv, BytesInv, NEW th \in SourceThreads, NEW at \in Stages, NEW r \in Rows,
           Update(th, r, at), at \notin {"step", "free", "freed"},
           r.claimed = thread[th].row.claimed, r.uploaded = thread[th].row.uploaded,
           Closing(thread[th].row) => Closing(r),
           th = Export \/ r.finishing = thread[th].row.finishing, r.state # "none",
           thread[th].row.state \in {"completed", "expired"} => r.state \in {"completed", "expired"},
           r.state = "completed" \/ r.step = "verifying" =>
              \/ thread[th].row.state = "completed" \/ thread[th].row.step = "verifying"
              \/ thread[Export].at = "freed",
           pod'[Export] = pod[Export], object' = object, Grows
    PROVE  BytesInv'
<1>1. TypeOK /\ th \in Threads /\ SourceThreads \subseteq Threads /\ JobOf(th) = Export
  BY Names DEF IInv, SourceThreads
<1>2. /\ asked' = asked /\ \A t \in Threads \ {th} : Kept(t)
      /\ \/ thread[th].fresh /\ row'[Export] = r /\ Comes(th, at, r)
         \/ row' = row /\ Comes(th, "idle", r)
  BY <1>1, Saves
<1>3. lapsed' = lapsed /\ UpKept
  BY <1>1, Names, OutdatedUps DEF Update, UpKept
<1>4. Retired <=> Retired'
  BY <1>2, <1>3 DEF Retired
<1>5. /\ \A t \in SourceThreads : CopyGood(t)
      /\ FinishGood /\ ClaimInv
  BY DEF BytesInv
<1>6. CASE thread[th].fresh /\ row'[Export] = r /\ Comes(th, at, r)
  <2>1. SameBytes(thread[th].row, row[Export])
    BY <1>5, <1>6 DEF CopyGood
  <2>2. row'[Export].claimed = row[Export].claimed /\ row'[Export].uploaded = row[Export].uploaded
    BY <1>6, <2>1 DEF SameBytes
  <2>3. /\ Closing(row[Export]) => Closing(row'[Export])
        /\ asked.importing => row'[Export].state \in {"completed", "expired"}
    BY <1>5, <1>6, <2>1 DEF SameBytes, Closing, ClaimInv
  <2>4. \A t \in SourceThreads : CopyGood(t)'
    <3>1. CopyGood(th)'
      BY <1>6, SavesCopy
    <3>2. ASSUME NEW t \in SourceThreads \ {th} PROVE CopyGood(t)'
      BY <1>1, <1>2, <1>4, <1>5, <2>2, KeptCopy
    <3>. QED
      BY <3>1, <3>2
  <2>5. FinishGood'
    <3>1. CASE th = Export
      BY <1>6, <3>1, NoRowFields DEF Comes, FinishGood, Active
    <3>2. CASE th # Export
      BY <1>1, <1>2, <1>5, <1>6, <2>1, <3>2, Names DEF Kept, FinishGood, SameBytes, SourceThreads
    <3>. QED
      BY <3>1, <3>2
  <2>6. Far' => Far
    <3>1. thread'[Export].at \in {"free", "freed"} => thread[Export].at \in {"free", "freed"}
      BY <1>1, <1>2, <1>6, Names DEF Kept, Comes, SourceThreads
    <3>. QED
      BY <1>6, <2>1, <3>1 DEF Far, SameBytes
  <2>. QED
    BY <1>2, <1>3, <1>4, <1>6, <2>2, <2>3, <2>4, <2>5, <2>6, BytesGo DEF PodTurns
<1>7. CASE row' = row /\ Comes(th, "idle", r)
  <2>1. \A t \in SourceThreads : CopyGood(t)'
    <3>1. CopyGood(th)'
      BY <1>7, NoRowBytes DEF CopyGood, Comes
    <3>2. ASSUME NEW t \in SourceThreads \ {th} PROVE CopyGood(t)'
      BY <1>1, <1>2, <1>4, <1>5, <1>7, KeptCopy
    <3>. QED
      BY <3>1, <3>2
  <2>2. thread'[Export].row = NoRow \/ Kept(Export)
    BY <1>1, <1>2, <1>7, Names DEF Comes
  <2>3. FinishGood'
    BY <1>5, <1>7, <2>2, NoRowFields DEF Kept, FinishGood, Active
  <2>4. Far' => Far
    BY <1>1, <1>2, <1>7, Names DEF Kept, Comes, Far
  <2>5. asked.importing => row'[Export].state \in {"completed", "expired"}
    BY <1>5, <1>7 DEF ClaimInv
  <2>. QED
    BY <1>2, <1>3, <1>4, <1>7, <2>1, <2>3, <2>4, <2>5, BytesGo DEF PodTurns
<1>. QED
  BY <1>2, <1>6, <1>7

\* Steps that have nothing to do with the archive's bytes.
Elsewhere ==
    /\ thread'[Export] = thread[Export] /\ thread'["deleter"] = thread["deleter"]
    /\ SameBytes(row'[Export], row[Export]) /\ UpKept /\ Grows
    /\ object' = object /\ pod'[Export] = pod[Export] /\ asked'.importing = asked.importing
    /\ Retired => Retired'

LEMMA BytesElsewhere ==
    ASSUME BytesInv, Elsewhere
    PROVE  BytesInv'
<1>1. \A th \in SourceThreads : CopyGood(th)'
  BY DEF BytesInv, Elsewhere, CopyGood, SameBytes, SourceThreads
<1>2. FinishGood' /\ (Far' => Far)
  BY DEF BytesInv, Elsewhere, FinishGood, Far, SameBytes
<1>3. Closing(row[Export]) => Closing(row'[Export])
  BY DEF Elsewhere, SameBytes, Closing
<1>4. asked.importing => row'[Export].state \in {"completed", "expired"}
  BY DEF BytesInv, ClaimInv, Elsewhere, SameBytes
<1>. QED
  BY <1>1, <1>2, <1>3, <1>4, BytesGo DEF Elsewhere, PodTurns, SameBytes

\* Saves and moves of an import's threads.
LEMMA ImporterSaves ==
    ASSUME TypeOK, NEW th \in Importers, NEW r, NEW at, Update(th, r, at),
           object' = object, pod'[Export] = pod[Export], Grows
    PROVE  Elsewhere
<1>1. /\ JobOf(th) = Import /\ th # Export /\ th # "deleter" /\ Export \in Threads
      /\ "deleter" \in Threads
  BY Names
<1>2. thread \in [Threads -> Copies] /\ row \in [Jobs -> Rows]
  BY Typed
<1>3. CASE thread[th].fresh
  <2>1. /\ row' = [row EXCEPT ![Import] = r] /\ up' = OutdatedUploads(Import)
        /\ thread' = [Outdated(Import, th) EXCEPT ![th] = Moved(th, at, r)]
        /\ lapsed' = lapsed /\ asked' = asked
    BY <1>1, <1>3 DEF Update
  <2>2. row'[Export] = row[Export] /\ up' = up
    BY <1>2, <2>1, Names DEF OutdatedUploads
  <2>3. /\ Outdated(Import, th)[Export] = thread[Export]
        /\ Outdated(Import, th)["deleter"] = thread["deleter"]
    BY <1>1, Names DEF Outdated
  <2>4. /\ thread'[Export] = Outdated(Import, th)[Export]
        /\ thread'["deleter"] = Outdated(Import, th)["deleter"]
    BY <1>1, <2>1 DEF Outdated
  <2>. QED
    BY <2>1, <2>2, <2>3, <2>4 DEF Elsewhere, SameBytes, UpKept, Retired
<1>4. CASE ~thread[th].fresh
  BY <1>1, <1>2, <1>4 DEF Update, GoTo, Elsewhere, SameBytes, UpKept, Retired
<1>. QED
  BY <1>3, <1>4

LEMMA ImporterMoves ==
    ASSUME TypeOK, NEW th \in Importers, NEW c, thread' = [thread EXCEPT ![th] = c],
           row'[Export] = row[Export], UNCHANGED <<up, lapsed, asked, object>>,
           pod'[Export] = pod[Export], Grows
    PROVE  Elsewhere
BY Names, Typed DEF Elsewhere, SameBytes, UpKept, Retired

LEMMA ImporterGoes ==
    ASSUME TypeOK, NEW th \in Importers, NEW at, Proceed(th, at), object' = object,
           pod'[Export] = pod[Export], Grows
    PROVE  Elsewhere
<1>1. thread' = [thread EXCEPT ![th] = Moved(th, at, @.row)]
  BY DEF Proceed, GoTo
<1>2. PICK c : thread' = [thread EXCEPT ![th] = c]
  <2>1. thread' = [thread EXCEPT ![th] = Moved(th, at, thread[th].row)]
    BY <1>1
  <2>. QED
    BY <2>1
<1>. QED
  BY <1>2, ImporterMoves DEF Proceed

\* Who may have touched the export's pod.
LEMMA OtherPods ==
    ASSUME TypeOK
    PROVE  /\ NoPods(Import)[Export] = pod[Export] /\ NoPods(Export)[Export] = "none"
           /\ \A p, s : p # Export => [pod EXCEPT ![p] = s][Export] = pod[Export]
           /\ \A s : [pod EXCEPT ![Export] = s][Export] = s
<1>1. pod \in [Jobs \cup {"verify"} -> Pods] /\ Export \in DOMAIN pod
  BY Names, Typed DEF WorldOK
<1>. QED
  BY <1>1, Names DEF NoPods

\* What the steps do to their thread.
Acts(th) ==
    \/ \E r, at : Update(th, r, at)
    \/ \E at : Proceed(th, at)
    \/ \E c : thread' = [thread EXCEPT ![th] = c] /\ UNCHANGED <<row, up, lapsed, late, asked>>

LEMMA Acting ==
    ASSUME NEW th
    PROVE  /\ \A at : Proceed(th, at) => Acts(th)
           /\ \A at, r : WithRow(th, at, r) => Acts(th)
           /\ \A at, r : Update(th, r, at) => Acts(th)
           /\ Fail(th) \/ WaitOrFail(th) \/ (\E o : Finish(th, o)) => Acts(th)
<1>1. \A at, r : WithRow(th, at, r) => Acts(th)
  BY DEF WithRow, Acts
<1>2. \A at, r : Update(th, r, at) => Acts(th)
  BY DEF Acts
<1>3. \A at : Proceed(th, at) => Acts(th)
  BY DEF Acts
<1>4. \A o : Finish(th, o) => Acts(th)
  BY <1>2 DEF Finish
<1>5. Fail(th) => Acts(th)
  BY <1>4 DEF Fail
<1>6. WaitOrFail(th) => Acts(th)
  BY <1>3, <1>5 DEF WaitOrFail, Proceed
<1>. QED
  BY <1>1, <1>2, <1>3, <1>4, <1>5, <1>6

LEMMA ImporterActs ==
    ASSUME TypeOK, NEW th \in Importers, Acts(th), object' = object, pod'[Export] = pod[Export],
           Fault \/ UNCHANGED spent
    PROVE  Elsewhere
<1>1. Grows
  BY Growing
<1>. QED
  BY <1>1, ImporterSaves, ImporterMoves, ImporterGoes DEF Acts

LEMMA ImportFinishes ==
    ASSUME TypeOK, NEW th \in Importers, FinishStep(th)
    PROVE  Elsewhere
<1>1. JobOf(th) = Import /\ Import # Export
  BY Names
<1>2. CASE CleanupPods(th)
  <2>1. Acts(th) /\ object' = object /\ UNCHANGED spent /\ pod' = NoPods(Import)
    BY <1>1, <1>2, Acting DEF CleanupPods
  <2>. QED
    BY <2>1, OtherPods, ImporterActs
<1>3. CASE LetGo(th)
  <2>1. Acts(th)
    BY <1>3, Acting DEF LetGo
  <2>2. object' = object /\ UNCHANGED <<pod, spent>>
    BY <1>3 DEF LetGo
  <2>. QED
    BY <2>1, <2>2, ImporterActs
<1>4. CASE EraseBytes(th)
  <2>1. Acts(th) /\ object' = object /\ UNCHANGED <<pod, spent>>
    BY <1>1, <1>4, Acting, Typed DEF EraseBytes, cluster, WorldOK
  <2>. QED
    BY <2>1, ImporterActs
<1>5. CASE End(th)
  <2>1. Acts(th) /\ object' = object /\ UNCHANGED <<pod, spent>>
    BY <1>5, Acting DEF End, cluster
  <2>. QED
    BY <2>1, ImporterActs
<1>. QED
  BY <1>2, <1>3, <1>4, <1>5 DEF FinishStep

LEMMA ImportWorksElsewhere ==
    ASSUME TypeOK, WorkerStep(Import)
    PROVE  Elsewhere
<1>1. Import \in Importers /\ Import # Export /\ Import \in Threads
  BY Names
<1>2. CASE Dispatch(Import)
  <2>1. PICK c : thread' = [thread EXCEPT ![Import] = c]
    BY <1>2 DEF Dispatch
  <2>2. UNCHANGED <<row, up, lapsed, late, asked, pod, object, spent>>
    BY <1>2 DEF Dispatch, cluster, time
  <2>3. Acts(Import)
    BY <2>1, <2>2 DEF Acts
  <2>. QED
    BY <1>1, <2>2, <2>3, ImporterActs
<1>3. CASE CutShort(Import) \/ IssueToken(Import) \/ PodCreated(Import) \/ AgentReleased(Import)
           \/ ReleaseAgent(Import)
  <2>1. Acts(Import)
    BY <1>3, Acting DEF CutShort, IssueToken, PodCreated, AgentReleased, ReleaseAgent
  <2>2. UNCHANGED <<pod, object, spent>>
    BY <1>3 DEF CutShort, IssueToken, PodCreated, AgentReleased, ReleaseAgent, cluster
  <2>. QED
    BY <1>1, <2>1, <2>2, ImporterActs
<1>4. CASE CreateArchivePod(Import)
  <2>1. Acts(Import) /\ object' = object /\ (Fault \/ UNCHANGED spent)
    BY <1>4, Acting DEF CreateArchivePod
  <2>2. PodFor(Import) # Export
    BY <1>1 DEF PodFor, Export
  <2>3. pod'[Export] = pod[Export]
    BY <1>4, <2>2, OtherPods DEF CreateArchivePod
  <2>. QED
    BY <1>1, <2>1, <2>3, ImporterActs
<1>5. CASE AdoptAgent \/ NewAgentLost
  <2>1. Acts(Import)
    BY <1>5, Acting DEF AdoptAgent, NewAgentLost
  <2>2. UNCHANGED <<pod, object, spent>>
    BY <1>5 DEF AdoptAgent, NewAgentLost, cluster
  <2>. QED
    BY <1>1, <2>1, <2>2, ImporterActs
<1>6. CASE BeginRestore
  <2>1. Acts(Import) /\ (Fault \/ UNCHANGED spent) /\ UNCHANGED <<pod, object>>
    BY <1>6, Acting DEF BeginRestore
  <2>. QED
    BY <1>1, <2>1, ImporterActs
<1>7. CASE WatchRestorePod
  <2>1. Acts(Import) /\ UNCHANGED <<pod, object, spent>>
    BY <1>7, Acting DEF WatchRestorePod, cluster
  <2>. QED
    BY <1>1, <2>1, ImporterActs
<1>8. CASE WatchFirstBoot
  <2>1. /\ Acts(Import) /\ UNCHANGED <<object, spent>>
        /\ pod' = pod \/ pod' = NoPods(Import)
    BY <1>8, Acting DEF WatchFirstBoot
  <2>. QED
    BY <1>1, <2>1, OtherPods, ImporterActs
<1>9. CASE FinishStep(Import)
  BY <1>1, <1>9, ImportFinishes
<1>. QED
  BY <1>1, <1>2, <1>3, <1>4, <1>5, <1>6, <1>7, <1>8, <1>9 DEF WorkerStep, ImportStep

LEMMA CreatorElsewhere ==
    ASSUME TypeOK, CreateAgent \/ RecordAgent \/ Abandon \/ StartImport
    PROVE  Elsewhere
<1>1. "creator" \in Importers /\ Import # Export
  BY Names
<1>2. CASE CreateAgent
  <2>1. Acts("creator")
    BY <1>2, Acting DEF CreateAgent
  <2>2. (Fault \/ UNCHANGED spent) /\ UNCHANGED <<pod, object>>
    BY <1>2 DEF CreateAgent
  <2>. QED
    BY <1>1, <2>1, <2>2, ImporterActs
<1>3. CASE RecordAgent
  <2>1. ASSUME thread["creator"].fresh PROVE Acts("creator")
    <3>1. Update("creator", thread["creator"].row, "idle")
      BY <1>3, <2>1 DEF RecordAgent
    <3>. QED
      BY <3>1, Acting
  <2>2. ASSUME ~thread["creator"].fresh PROVE Acts("creator")
    <3>1. PICK c : thread' = [thread EXCEPT !["creator"] = c]
      <4>. DEFINE n == IF \/ row[Import].state \in Terminal \/ row[Import].finishing # ""
                          \/ row[Import].cancel
                       THEN [thread["creator"] EXCEPT !.at = "abandon"]
                       ELSE [thread["creator"] EXCEPT !.row = [row[Import] EXCEPT !.uid = TRUE],
                                                      !.fresh = TRUE]
      <4>1. thread' = [thread EXCEPT !["creator"] = n]
        BY <1>3, <2>2 DEF RecordAgent
      <4>. HIDE DEF n
      <4>. QED
        BY <4>1
    <3>2. UNCHANGED <<row, up, lapsed, late, asked>>
      BY <1>3, <2>2 DEF RecordAgent, time
    <3>. QED
      BY <3>1, <3>2 DEF Acts
  <2>3. Acts("creator")
    BY <2>1, <2>2
  <2>. QED
    BY <1>1, <1>3, <2>3, ImporterActs DEF RecordAgent, cluster
<1>4. CASE Abandon
  <2>1. ASSUME thread["creator"].at = "abandon" PROVE Acts("creator")
    <3>. DEFINE cur == [row[Import] EXCEPT !.uid = thread["creator"].row.uid]
                n == [thread["creator"] EXCEPT !.row = cur, !.fresh = TRUE,
                              !.at = IF cur.finishing # "" THEN "clean" ELSE "abandoning"]
    <3>1. thread' = [thread EXCEPT !["creator"] = n] /\ UNCHANGED <<row, up, time, asked>>
      BY <1>4, <2>1 DEF Abandon
    <3>. HIDE DEF n
    <3>. QED
      BY <3>1 DEF Acts, time
  <2>2. ASSUME thread["creator"].at # "abandon" PROVE Acts("creator")
    <3>1. Fail("creator")
      BY <1>4, <2>2 DEF Abandon
    <3>. QED
      BY <3>1, Acting
  <2>. QED
    BY <1>1, <1>4, <2>1, <2>2, ImporterActs DEF Abandon, cluster
<1>5. CASE StartImport
  <2>. DEFINE n == [Idle EXCEPT !.at = "create", !.row = row'[Import], !.fresh = TRUE]
  <2>1. thread' = [thread EXCEPT !["creator"] = n]
    BY <1>5 DEF StartImport
  <2>2. row'[Export] = row[Export]
    <3>1. row' = [row EXCEPT ![Import].state = "queued", ![Import].hold = TRUE]
      BY <1>5 DEF StartImport
    <3>. QED
      BY <1>1, <3>1, Names, Typed
  <2>3. UNCHANGED <<up, lapsed, asked, object, pod, spent>>
    BY <1>5 DEF StartImport, time, cluster
  <2>. HIDE DEF n
  <2>. QED
    BY <1>1, <2>1, <2>2, <2>3, ImporterMoves, Growing
<1>. QED
  BY <1>2, <1>3, <1>4, <1>5

LEMMA WorldElsewhere ==
    ASSUME TypeOK,
           \/ \E j \in Jobs : Controller(j) \/ SetDesiredPhase(j) \/ DeleteAgent(j)
           \/ \E j \in Jobs : DeadlinePasses(j)
           \/ RetentionPasses \/ RestorePodRuns \/ VerifyPodFails \/ UNCHANGED vars
           \/ \E p \in DOMAIN pod \ {Export} : PodDies(p)
    PROVE  Elsewhere
<1>1. CASE \E j \in Jobs : Controller(j)
  <2>1. UNCHANGED <<row, thread, up, pod, object, time, asked>> /\ (Fault \/ UNCHANGED spent)
    BY <1>1 DEF Controller, ReconcileStarts, CreatePod, Boots, StopPod, AgentPodDies
  <2>. QED
    BY <2>1, Growing DEF Elsewhere, SameBytes, UpKept, Retired, time
<1>2. CASE \E j \in Jobs : SetDesiredPhase(j)
  <2>1. /\ UNCHANGED <<row, thread, up, pod, object, time>> /\ Command
        /\ \E x : asked' = [asked EXCEPT !.verb = x]
    BY <1>2 DEF SetDesiredPhase
  <2>2. asked'.importing = asked.importing /\ asked'.deletion = asked.deletion
    BY <2>1, Typed
  <2>. QED
    BY <2>1, <2>2, Growing DEF Elsewhere, SameBytes, UpKept, Retired, time
<1>3. CASE \E j \in Jobs : DeleteAgent(j)
  <2>1. UNCHANGED <<row, thread, up, pod, object, time, asked>> /\ Command
    BY <1>3 DEF DeleteAgent
  <2>. QED
    BY <2>1, Growing DEF Elsewhere, SameBytes, UpKept, Retired, time
<1>4. CASE (\E j \in Jobs : DeadlinePasses(j)) \/ RetentionPasses \/ UNCHANGED vars
  <2>1. /\ UNCHANGED <<row, thread, up, pod, object, asked, spent>>
        /\ lapsed => lapsed'
    BY <1>4 DEF DeadlinePasses, RetentionPasses, vars, cluster
  <2>. QED
    BY <2>1, Growing DEF Elsewhere, SameBytes, UpKept, Retired
<1>5. ASSUME NEW p \in DOMAIN pod \ {Export}, RestorePodRuns \/ VerifyPodFails \/ PodDies(p)
      PROVE  Elsewhere
  <2>1. UNCHANGED <<row, thread, up, object, time, asked>> /\ (Fault \/ UNCHANGED spent)
    BY <1>5 DEF RestorePodRuns, VerifyPodFails, PodDies
  <2>2. Import # Export /\ "verify" # Export
    BY Names DEF Export
  <2>3. \E q, s : q # Export /\ SetPod(q, s)
    BY <1>5, <2>2 DEF RestorePodRuns, VerifyPodFails, PodDies
  <2>4. pod'[Export] = pod[Export]
    BY <2>3, OtherPods DEF SetPod
  <2>. QED
    BY <2>1, <2>4, Growing DEF Elsewhere, SameBytes, UpKept, Retired, time
<1>6. Import \in DOMAIN pod \ {Export}
  BY Names, Typed DEF WorldOK
<1>. QED
  BY <1>1, <1>2, <1>3, <1>4, <1>5, <1>6

\* Somebody else marks the row, or the pod goes its way.
LEMMA BytesBeside ==
    ASSUME IInv, BytesInv, Kept(Export), Kept("deleter"), SameBytes(row'[Export], row[Export]),
           UpKept, Grows, PodTurns, object' = object, UNCHANGED <<lapsed, asked>>
    PROVE  BytesInv'
<1>1. Retired <=> Retired'
  BY DEF Retired
<1>2. \A th \in SourceThreads : CopyGood(th)'
  BY <1>1, KeptCopy DEF BytesInv, SourceThreads, SameBytes
<1>3. FinishGood' /\ (Far' => Far)
  BY DEF BytesInv, FinishGood, Far, SameBytes, Kept
<1>4. Closing(row[Export]) => Closing(row'[Export])
  BY DEF SameBytes, Closing
<1>5. asked.importing => row'[Export].state \in {"completed", "expired"}
  BY DEF BytesInv, ClaimInv, SameBytes
<1>. QED
  BY <1>1, <1>2, <1>3, <1>4, <1>5, BytesGo DEF SameBytes

LEMMA ByteMarks ==
    ASSUME NEW r \in Rows
    PROVE  /\ SameBytes([r EXCEPT !.cancel = TRUE], r) /\ SameBytes([r EXCEPT !.verified = TRUE], r)
           /\ [r EXCEPT !.cancel = TRUE] \in Rows /\ [r EXCEPT !.verified = TRUE] \in Rows
           /\ SameBytes(r, r)
BY DEF Rows, SameBytes

LEMMA BytesMarked ==
    ASSUME IInv, BytesInv, NEW j \in Jobs, NEW r \in Rows, SameBytes(r, row[j]), WriteRow(j, r),
           up' = OutdatedUploads(j), Grows, PodTurns, object' = object, UNCHANGED <<lapsed, asked>>
    PROVE  BytesInv'
<1>1. TypeOK
  BY DEF IInv
<1>2. /\ row'[j] = r /\ \A i \in Jobs : i # j => row'[i] = row[i]
      /\ \A t \in Threads : Kept(t)
  BY <1>1, Writes
<1>3. SameBytes(row'[Export], row[Export]) /\ Kept(Export) /\ Kept("deleter")
  BY <1>2, Names DEF SameBytes
<1>. QED
  BY <1>1, <1>3, OutdatedUps, BytesBeside

LEMMA MarksKeepBytes ==
    ASSUME IInv, BytesInv, PostSummary \/ \E j \in Jobs : RequestCancel(j)
    PROVE  BytesInv'
<1>1. TypeOK /\ \A j \in Jobs : row[j] \in Rows
  BY Typed DEF IInv
<1>2. CASE PostSummary
  <2>1. "verify" # Export
    BY DEF Export
  <2>2. pod'[Export] = pod[Export]
    BY <1>1, <1>2, <2>1, OtherPods DEF PostSummary
  <2>3. /\ WriteRow(Export, [row[Export] EXCEPT !.verified = TRUE])
        /\ up' = OutdatedUploads(Export) /\ object' = object /\ UNCHANGED <<lapsed, asked, spent>>
    BY <1>2 DEF PostSummary, time
  <2>. QED
    BY <1>1, <2>2, <2>3, Names, Growing, ByteMarks, BytesMarked DEF PodTurns
<1>3. ASSUME NEW j \in Jobs, RequestCancel(j) PROVE BytesInv'
  <2>1. /\ WriteRow(j, [row[j] EXCEPT !.cancel = TRUE]) /\ up' = OutdatedUploads(j)
        /\ Command /\ UNCHANGED <<object, pod, lapsed, asked>>
    BY <1>3 DEF RequestCancel, cluster, time
  <2>. QED
    BY <1>1, <2>1, Growing, ByteMarks, BytesMarked DEF PodTurns
<1>. QED
  BY <1>2, <1>3

LEMMA PodsKeepBytes ==
    ASSUME IInv, BytesInv, ExportPodExits \/ PodDies(Export)
    PROVE  BytesInv'
<1>1. /\ UNCHANGED <<row, thread, up, object, lapsed, asked>> /\ TypeOK
      /\ Fault \/ UNCHANGED spent
  BY DEF ExportPodExits, PodDies, time, IInv
<1>2. PodTurns
  <2>1. CASE ExportPodExits
    BY <1>1, <2>1, OtherPods DEF ExportPodExits, SetPod, PodTurns, At
  <2>2. CASE PodDies(Export)
    BY <1>1, <2>2, OtherPods, Growing DEF PodDies, SetPod, PodTurns
  <2>. QED
    BY <2>1, <2>2
<1>3. Kept(Export) /\ Kept("deleter") /\ SameBytes(row'[Export], row[Export]) /\ UpKept
  BY <1>1 DEF Kept, SameBytes, UpKept
<1>. QED
  BY <1>1, <1>2, <1>3, Growing, BytesBeside

LEMMA CrashKeepsBytes ==
    ASSUME IInv, BytesInv, NEW th \in Threads, Crash(th)
    PROVE  BytesInv'
<1>1. /\ TypeOK /\ GoTo(th, "idle") /\ Fault
      /\ UNCHANGED <<row, up, pod, object, lapsed, late, asked>>
  BY DEF IInv, Crash, cluster, time
<1>2. Grows /\ PodTurns
  BY <1>1, Growing DEF PodTurns
<1>3. CASE th \in SourceThreads
  BY <1>1, <1>2, <1>3, BytesGoes DEF Stages
<1>4. CASE th \in Importers
  <2>1. Acts(th)
    BY <1>1 DEF Acts, Proceed, time
  <2>. QED
    BY <1>1, <1>4, <2>1, ImporterActs, BytesElsewhere
<1>. QED
  BY <1>3, <1>4, Names DEF SourceThreads

LEMMA StartExportKeepsBytes ==
    ASSUME IInv, BytesInv, StartExport
    PROVE  BytesInv'
<1>1. row[Export] \in Rows /\ row \in [Jobs -> Rows] /\ TypeOK
  BY Typed DEF IInv
<1>2. /\ row[Export].state = "none"
      /\ row' = [row EXCEPT ![Export].state = "queued", ![Export].uid = TRUE]
      /\ UNCHANGED <<thread, up, pod, object, lapsed, asked, spent>>
  BY DEF StartExport, cluster, time
<1>3. row'[Export] = [row[Export] EXCEPT !.state = "queued", !.uid = TRUE]
  BY <1>1, <1>2, Names
<1>4. /\ row'[Export].state = "queued" /\ row'[Export].step = row[Export].step
      /\ row'[Export].finishing = row[Export].finishing
      /\ row'[Export].claimed = row[Export].claimed
      /\ row'[Export].uploaded = row[Export].uploaded
  BY <1>1, <1>3 DEF Rows
<1>5. ClaimInv /\ (\A th \in SourceThreads : CopyGood(th)) /\ FinishGood
  BY DEF BytesInv
<1>6. (Retired <=> Retired') /\ UpKept /\ Grows /\ PodTurns
  BY <1>1, <1>2, Growing DEF Retired, UpKept, PodTurns
<1>7. \A th \in SourceThreads : CopyGood(th)'
  BY <1>2, <1>4, <1>5, <1>6 DEF CopyGood, SameBytes
<1>8. FinishGood' /\ (Far' => Far) /\ (Closing(row[Export]) => Closing(row'[Export]))
  BY <1>2, <1>4, <1>5 DEF FinishGood, Far, Closing, Ended
<1>9. ~asked.importing
  BY <1>2, <1>5 DEF ClaimInv
<1>. QED
  BY <1>2, <1>4, <1>6, <1>7, <1>8, <1>9, BytesGo

SameUpload(s, r) == s.claimed = r.claimed /\ s.uploaded = r.uploaded

LEMMA UploadRows ==
    ASSUME NEW r \in Rows
    PROVE  /\ \A o : SameUpload([r EXCEPT !.finishing = o], r)
           /\ SameUpload([r EXCEPT !.state = r.finishing, !.finishing = ""], r)
           /\ \A x : SameUpload([r EXCEPT !.step = x], r)
           /\ SameUpload([r EXCEPT !.started = TRUE], r)
           /\ SameUpload([r EXCEPT !.verifyStarted = TRUE], r)
           /\ SameUpload([r EXCEPT !.state = "completed", !.step = ""], r)
           /\ SameUpload([r EXCEPT !.state = "expired"], r)
           /\ SameUpload([r EXCEPT !.paused = FALSE, !.finishing = "failed"], r)
           /\ \A a : SameUpload(Begun(r, a), r)
           /\ SameBytes(Freed(r), r)
BY DEF Rows, SameUpload, SameBytes, Begun, Freed

\* The goroutine saves r, made of its copy of an active row.
LEMMA BytesAdvance ==
    ASSUME IInv, BytesInv, NEW at \in Stages, NEW r \in Rows, Update(Export, r, at),
           at \notin {"step", "free", "freed"}, SameUpload(r, thread[Export].row),
           thread[Export].row.state \in Active, r.state # "none",
           thread[Export].row.finishing # "" => Closing(r),
           r.state = "completed" \/ r.step = "verifying" =>
              thread[Export].row.step = "verifying" \/ thread[Export].at = "freed",
           pod'[Export] = pod[Export], object' = object, Grows
    PROVE  BytesInv'
BY BytesSaves DEF SameUpload, Closing, Active, Ended, SourceThreads

LEMMA BytesFails ==
    ASSUME IInv, BytesInv, NEW o \in Ended, Finish(Export, o), thread[Export].row.state \in Active,
           pod'[Export] = pod[Export], object' = object, Grows
    PROVE  BytesInv'
<1>1. thread[Export].row \in Rows
  BY Names, Typed DEF IInv
<1>2. PICK r : r = [thread[Export].row EXCEPT !.finishing = o]
  OBVIOUS
<1>3. /\ r \in Rows /\ r.finishing = o /\ r.state = thread[Export].row.state
      /\ r.step = thread[Export].row.step /\ SameUpload(r, thread[Export].row)
  BY <1>1, <1>2, FinishRow, UploadRows DEF SameStep
<1>4. Update(Export, r, "clean") /\ "clean" \in Stages
  BY <1>2 DEF Finish, Stages
<1>5. Closing(r) /\ r.state # "none" /\ r.state # "completed"
  BY <1>3 DEF Closing, Ended, Active
<1>. QED
  BY <1>3, <1>4, <1>5, BytesAdvance

LEMMA BytesWaitOrFail ==
    ASSUME IInv, BytesInv, WaitOrFail(Export), thread[Export].row.state \in Active,
           pod'[Export] = pod[Export], object' = object, Grows
    PROVE  BytesInv'
<1>1. CASE Fail(Export)
  BY <1>1, BytesFails DEF Fail, Ended
<1>2. CASE GoTo(Export, "idle") /\ UNCHANGED <<row, up, lapsed, late, asked>>
  BY <1>2, BytesGoes DEF Stages, SourceThreads, PodTurns
<1>. QED
  BY <1>1, <1>2 DEF WaitOrFail

\* The goroutine moves on with its copy.
LEMMA BytesProceed ==
    ASSUME IInv, BytesInv, NEW at \in Stages, Proceed(Export, at), at # "step",
           at \in {"free", "freed"} => Far \/ Accepted \/ spent.faults > 1,
           PodTurns, ~object' => ~object \/ Excused, Grows
    PROVE  BytesInv'
BY BytesGoes DEF Proceed, SourceThreads

LEMMA ActiveStep ==
    ASSUME IInv, BytesInv
    PROVE  LET t == thread[Export] IN
           /\ \A x : Stepping(Export, "running", x) => t.row.state \in Active /\ t.at = "step"
                                                      /\ t.row.step = x
           /\ \A x : Stepping(Export, "queued", x) => t.row.state \in Active /\ t.at = "step"
                                                      /\ t.row.step = x
           /\ t.at \in {"token", "launch", "launched", "free", "freed", "verified"} =>
                 t.row.state = "running" /\ t.row.state \in Active /\ t.row.finishing = ""
           /\ t.row.state \in Active => SameStep(t.row, row[Export])
           /\ t.row.state \in Active /\ t.at \notin Finishing \cup {"idle"} => ~Closing(row[Export])
           /\ t.at \in Finishing => t.row.state \in Active /\ t.row.finishing # ""
                                    /\ Closing(row[Export])
<1>1. /\ ExportStage(thread[Export].at, thread[Export].row) /\ FinishGood
      /\ thread[Export].row.state \in Active => SameStep(thread[Export].row, row[Export])
  BY DEF IInv, ExportInv, ExportCopies, BytesInv
<1>2. \A s, x : Stepping(Export, s, x) => /\ thread[Export].row.state = s
                                          /\ thread[Export].row.step = x
                                          /\ thread[Export].at = "step"
  BY DEF Stepping
<1>. QED
  BY <1>1, <1>2 DEF ExportStage, FinishGood, Closing, SameStep, Active, Ended, Finishing

\* The steps of the export's goroutine.
LEMMA BeginKeepsBytes ==
    ASSUME IInv, BytesInv, BeginExport
    PROVE  BytesInv'
<1>. DEFINE t == thread[Export]
<1>1. /\ TypeOK /\ t.row \in Rows /\ agent[Export] \in Agents
      /\ t.row.state \in Active /\ t.at = "step" /\ t.row.step = ""
  BY Names, Typed, ActiveStep DEF IInv, BeginExport
<1>2. UNCHANGED <<pod, object>> /\ (Fault \/ UNCHANGED spent)
  BY DEF BeginExport, cluster
<1>3. Grows
  BY <1>1, <1>2, Growing
<1>4. PICK b \in Rows : /\ b = Begun(t.row, agent[Export]) /\ b.state = "running"
                        /\ b.step = "pausing" /\ b.finishing = t.row.finishing
                        /\ SameUpload(b, t.row)
  BY <1>1, BegunRow, UploadRows
<1>5. CASE Fail(Export)
  BY <1>1, <1>2, <1>3, <1>5, BytesFails DEF Fail, Ended
<1>6. CASE Update(Export, b, "patch")
  BY <1>1, <1>2, <1>3, <1>4, <1>6, BytesAdvance DEF Stages, Closing
<1>7. CASE Update(Export, [b EXCEPT !.paused = FALSE, !.finishing = "failed"], "clean")
  <2>1. PICK r \in Rows : /\ r = [b EXCEPT !.paused = FALSE, !.finishing = "failed"]
                          /\ r.state = b.state /\ r.step = b.step /\ r.finishing = "failed"
                          /\ SameUpload(r, b)
    BY <1>4, BegunInVain, UploadRows
  <2>2. SameUpload(r, t.row) /\ Closing(r)
    BY <1>4, <2>1 DEF SameUpload, Closing
  <2>3. Update(Export, r, "clean")
    BY <1>7, <2>1
  <2>. QED
    BY <1>1, <1>2, <1>3, <1>4, <2>1, <2>2, <2>3, BytesAdvance DEF Stages
<1>. QED
  BY <1>4, <1>5, <1>6, <1>7 DEF BeginExport

LEMMA HoldsKeepBytes ==
    ASSUME IInv, BytesInv, PatchHold \/ ReapplyHold
    PROVE  BytesInv'
<1>1. TypeOK /\ Proceed(Export, "idle") /\ UNCHANGED <<pod, object, spent>>
  BY DEF IInv, PatchHold, ReapplyHold
<1>. QED
  BY <1>1, Growing, BytesProceed DEF Stages, PodTurns

LEMMA WaitKeepsBytes ==
    ASSUME IInv, BytesInv, WaitForPause
    PROVE  BytesInv'
<1>. DEFINE t == thread[Export]
<1>1. /\ TypeOK /\ t.row \in Rows /\ t.row.state \in Active /\ t.at = "step"
      /\ t.row.state = "running"
  BY Names, Typed, ActiveStep DEF IInv, WaitForPause, Stepping
<1>2. UNCHANGED <<pod, object>> /\ (Fault \/ UNCHANGED spent)
  BY DEF WaitForPause, cluster
<1>3. Grows
  BY <1>1, <1>2, Growing
<1>4. CASE WaitOrFail(Export) \/ Fail(Export)
  BY <1>1, <1>2, <1>3, <1>4, BytesWaitOrFail DEF WaitOrFail
<1>5. CASE Update(Export, [t.row EXCEPT !.step = "archiving"], "token")
  <2>1. PICK r \in Rows : /\ r = [t.row EXCEPT !.step = "archiving"] /\ r.state = t.row.state
                          /\ r.step = "archiving" /\ r.finishing = t.row.finishing
                          /\ SameUpload(r, t.row)
    BY <1>1, StepRow, UploadRows
  <2>2. Update(Export, r, "token")
    BY <1>5, <2>1
  <2>. QED
    BY <1>1, <1>2, <1>3, <2>1, <2>2, BytesAdvance DEF Stages, Closing
<1>. QED
  BY <1>4, <1>5 DEF WaitForPause

\* Token, archive pod, and the record that it exists.
LEMMA LaunchKeepsBytes ==
    ASSUME IInv, BytesInv,
           IssueToken(Export) \/ CreateArchivePod(Export) \/ PodCreated(Export)
    PROVE  BytesInv'
<1>. DEFINE t == thread[Export]
<1>1. /\ TypeOK /\ t.row \in Rows /\ t.row.state = "running" /\ t.row.state \in Active
      /\ t.row.finishing = ""
  BY Names, Typed, ActiveStep DEF IInv, IssueToken, CreateArchivePod, PodCreated
<1>2. object' = object /\ (Fault \/ UNCHANGED spent)
  BY DEF IssueToken, CreateArchivePod, PodCreated
<1>3. Grows
  BY <1>1, <1>2, Growing
<1>4. CASE IssueToken(Export)
  <2>1. Update(Export, t.row, "launch") /\ UNCHANGED pod
    BY <1>4 DEF IssueToken, cluster
  <2>. QED
    BY <1>1, <1>2, <1>3, <2>1, BytesAdvance DEF Stages, SameUpload
<1>5. CASE CreateArchivePod(Export)
  <2>. DEFINE q == PodFor(Export)
              s0 == IF pod[q] = "none" THEN "running" ELSE pod[q]
  <2>1. s0 = "running" \/ s0 = pod[q]
    OBVIOUS
  <2>2. \/ pod' = [pod EXCEPT ![q] = s0] /\ Proceed(Export, "launched")
        \/ Fail(Export) /\ UNCHANGED pod
    BY <1>5 DEF CreateArchivePod
  <2>. HIDE DEF q, s0
  <2>3. CASE pod' = [pod EXCEPT ![q] = s0] /\ Proceed(Export, "launched")
    <3>1. pod'[Export] = pod[Export] \/ pod'[Export] = "running"
      BY <1>1, <2>1, <2>3, OtherPods
    <3>2. PodTurns
      BY <3>1 DEF PodTurns
    <3>. QED
      BY <1>2, <1>3, <2>3, <3>2, BytesProceed DEF Stages
  <2>4. CASE Fail(Export) /\ UNCHANGED pod
    BY <1>1, <1>2, <1>3, <2>4, BytesFails DEF Fail, Ended
  <2>. QED
    BY <2>2, <2>3, <2>4
<1>6. CASE PodCreated(Export)
  <2>1. PICK r \in Rows : /\ Update(Export, r, "idle") /\ r.state = t.row.state
                          /\ r.step = t.row.step /\ r.finishing = t.row.finishing
                          /\ SameUpload(r, t.row)
    <3>1. PICK r : /\ Update(Export, r, "idle")
                   /\ \/ r = [t.row EXCEPT !.verifyStarted = TRUE]
                      \/ r = [t.row EXCEPT !.started = TRUE]
      BY <1>6 DEF PodCreated
    <3>2. r \in Rows /\ SameStep(r, t.row) /\ r.finishing = t.row.finishing
      BY <1>1, <3>1, Marks
    <3>3. SameUpload(r, t.row)
      BY <1>1, <3>1, UploadRows
    <3>. QED
      BY <3>1, <3>2, <3>3 DEF SameStep
  <2>2. UNCHANGED pod
    BY <1>6 DEF PodCreated, cluster
  <2>. QED
    BY <1>1, <1>2, <1>3, <2>1, <2>2, BytesAdvance DEF Stages
<1>. QED
  BY <1>4, <1>5, <1>6

LEMMA WatchKeepsBytes ==
    ASSUME IInv, BytesInv, WatchExportPod
    PROVE  BytesInv'
<1>. DEFINE t == thread[Export]
<1>1. /\ TypeOK /\ t.row.state \in Active /\ t.at = "step" /\ ~Closing(row[Export])
      /\ row[Export].state = "running"
  <2>1. t.row.state = "running" /\ t.at = "step" /\ t.row.state \in Active
    BY ActiveStep DEF WatchExportPod, Stepping
  <2>. QED
    BY <2>1, ActiveStep DEF IInv, SameStep, Finishing
<1>2. UNCHANGED <<object, spent>>
  BY DEF WatchExportPod
<1>3. Grows
  BY <1>1, <1>2, Growing
<1>4. CASE pod[Export] \in {"none", "succeeded"} /\ t.row.uploaded /\ AfterUpload
  <2>1. Accepted \/ spent.faults > 1
    <3>1. row[Export].uploaded
      BY <1>4 DEF BytesInv, CopyGood, SourceThreads
    <3>2. spent.faults \in Nat /\ (spent.faults <= 1 => OneFaultInv)
      BY <1>3 DEF BytesInv, Grows
    <3>3. OneFaultInv => Accepted
      BY <1>1, <1>4, <3>1 DEF OneFaultInv, UploadSettled
    <3>. QED
      BY <3>2, <3>3
  <2>2. Proceed(Export, "free") /\ pod' = [pod EXCEPT ![Export] = "none"]
    BY <1>4 DEF AfterUpload
  <2>3. PodTurns
    BY <1>1, <2>1, <2>2, OtherPods DEF PodTurns
  <2>. QED
    BY <1>2, <1>3, <2>1, <2>2, <2>3, BytesProceed DEF Stages
<1>5. CASE Proceed(Export, "token") /\ UNCHANGED pod
  BY <1>2, <1>3, <1>5, BytesProceed DEF Stages, PodTurns
<1>6. CASE (WaitOrFail(Export) \/ Fail(Export)) /\ UNCHANGED pod
  BY <1>1, <1>2, <1>3, <1>6, BytesWaitOrFail DEF WaitOrFail
<1>. QED
  BY <1>4, <1>5, <1>6 DEF WatchExportPod

\* The release of the agent once the bytes are stored, and what follows.
LEMMA ReleaseKeepsBytes ==
    ASSUME IInv, BytesInv, ReleaseAgent(Export) \/ AgentReleased(Export)
    PROVE  BytesInv'
<1>. DEFINE t == thread[Export]
<1>1. /\ TypeOK /\ t.row \in Rows /\ t.row.state = "running" /\ t.row.state \in Active
      /\ t.row.finishing = ""
  BY Names, Typed, ActiveStep DEF IInv, ReleaseAgent, AgentReleased
<1>2. UNCHANGED <<pod, object, spent>>
  BY DEF ReleaseAgent, AgentReleased, cluster
<1>3. Grows
  BY <1>1, <1>2, Growing
<1>4. CASE ReleaseAgent(Export)
  <2>1. PICK r \in Rows : r = Freed(t.row) /\ SameBytes(r, t.row)
    BY <1>1, FreedRow, UploadRows
  <2>2. thread' = [thread EXCEPT ![Export] = Moved(Export, "freed", r)]
    BY <1>4, <2>1 DEF ReleaseAgent, WithRow
  <2>3. Far /\ UNCHANGED <<row, up, lapsed, asked>>
    BY <1>4 DEF ReleaseAgent, WithRow, Far
  <2>4. "freed" \in Stages /\ Export \in SourceThreads /\ PodTurns
    BY <1>2 DEF Stages, SourceThreads, PodTurns
  <2>. QED
    BY <1>2, <1>3, <2>1, <2>2, <2>3, <2>4, BytesMoves
<1>5. CASE AgentReleased(Export)
  <2>1. PICK r \in Rows : /\ r = [t.row EXCEPT !.step = "verifying"] /\ r.state = t.row.state
                          /\ r.finishing = t.row.finishing /\ SameUpload(r, t.row)
    BY <1>1, StepRow, UploadRows
  <2>2. Update(Export, r, "idle") /\ t.at = "freed"
    BY <1>5, <2>1 DEF AgentReleased
  <2>. QED
    BY <1>1, <1>2, <1>3, <2>1, <2>2, BytesAdvance DEF Stages
<1>. QED
  BY <1>4, <1>5

LEMMA VerifyKeepsBytes ==
    ASSUME IInv, BytesInv, VerifyStored \/ Verified
    PROVE  BytesInv'
<1>. DEFINE t == thread[Export]
<1>1. /\ TypeOK /\ t.row \in Rows /\ t.row.state = "running" /\ t.row.state \in Active
      /\ t.row.step = "verifying" /\ SameStep(t.row, row[Export])
  <2>1. /\ t.row.state = "running" /\ t.row.state \in Active /\ t.row.step = "verifying"
    BY ActiveStep DEF IInv, ExportInv, ExportStage, VerifyStored, Verified, Stepping
  <2>. QED
    BY <2>1, Names, Typed, ActiveStep DEF IInv
<1>2. UNCHANGED <<object, spent>>
  BY DEF VerifyStored, Verified
<1>3. Grows
  BY <1>1, <1>2, Growing
<1>4. CASE pod' = NoPods(Export) /\ Proceed(Export, "verified")
  <2>1. Far
    BY <1>1 DEF Far, SameStep
  <2>2. Accepted \/ spent.faults > 1
    BY <1>3, <2>1 DEF BytesInv, OneFaultInv, Grows
  <2>3. PodTurns
    BY <1>1, <1>4, <2>2, OtherPods DEF PodTurns
  <2>. QED
    BY <1>2, <1>3, <1>4, <2>3, BytesProceed DEF Stages
<1>5. CASE Proceed(Export, "token") /\ UNCHANGED pod
  BY <1>2, <1>3, <1>5, BytesProceed DEF Stages, PodTurns
<1>6. CASE (WaitOrFail(Export) \/ Fail(Export)) /\ UNCHANGED pod
  BY <1>1, <1>2, <1>3, <1>6, BytesWaitOrFail DEF WaitOrFail
<1>7. CASE Verified
  <2>1. PICK r \in Rows : /\ r = [t.row EXCEPT !.state = "completed", !.step = ""]
                          /\ r.state = "completed" /\ r.finishing = t.row.finishing
                          /\ SameUpload(r, t.row)
    BY <1>1, StateRow, UploadRows
  <2>2. Update(Export, r, "idle") /\ UNCHANGED pod
    BY <1>7, <2>1 DEF Verified, cluster
  <2>3. t.row.finishing = ""
    BY <1>7, ActiveStep DEF Verified
  <2>. QED
    BY <1>1, <1>2, <1>3, <2>1, <2>2, <2>3, BytesAdvance DEF Stages
<1>. QED
  BY <1>4, <1>5, <1>6, <1>7 DEF VerifyStored

LEMMA ShredKeepsBytes ==
    ASSUME IInv, BytesInv, NEW th \in SourceThreads, Shred(th) \/ Shredded(th)
    PROVE  BytesInv'
<1>1. /\ TypeOK /\ th \in Threads /\ thread[th].row \in Rows /\ UNCHANGED <<pod, spent>>
      /\ thread[th].at \in {"step", "shredded"}
  BY Names, Typed DEF IInv, Shred, Shredded, SourceThreads, cluster
<1>2. Grows /\ PodTurns
  BY <1>1, Growing DEF PodTurns
<1>3. CASE Shred(th)
  <2>1. Excused
    BY <1>3 DEF BytesInv, CopyGood, Shred, Excused
  <2>. QED
    BY <1>2, <1>3, <2>1, BytesGoes DEF Shred, Proceed, Stages
<1>4. CASE Shredded(th)
  <2>1. thread[th].row.state = "completed"
    BY <1>4 DEF Shredded, IInv, ExportInv, ExportStage, DeleterStage, SourceThreads
  <2>2. PICK r \in Rows : /\ r = [thread[th].row EXCEPT !.state = "expired"]
                          /\ r.state = "expired" /\ r.step = thread[th].row.step
                          /\ r.finishing = thread[th].row.finishing
                          /\ SameUpload(r, thread[th].row)
    BY <1>1, StateRow, UploadRows
  <2>3. Update(th, r, "idle") /\ object' = object
    BY <1>4, <2>2 DEF Shredded
  <2>4. /\ r.claimed = thread[th].row.claimed /\ r.uploaded = thread[th].row.uploaded
        /\ Closing(thread[th].row) => Closing(r)
    BY <2>1, <2>2 DEF SameUpload, Closing, Ended
  <2>. QED
    BY <1>1, <1>2, <2>1, <2>2, <2>3, <2>4, BytesSaves DEF Stages
<1>. QED
  BY <1>3, <1>4

LEMMA ExportFinishesBytes ==
    ASSUME IInv, BytesInv, FinishStep(Export)
    PROVE  BytesInv'
<1>. DEFINE t == thread[Export]
<1>1. /\ TypeOK /\ t.row \in Rows /\ t.at \in Finishing /\ t.row.state \in Active
      /\ t.row.finishing # "" /\ Closing(row[Export]) /\ JobOf(Export) = Export
  <2>1. t.at \in Finishing
    BY DEF FinishStep, CleanupPods, LetGo, EraseBytes, End, Finishing
  <2>. QED
    BY <2>1, Names, Typed, ActiveStep DEF IInv
<1>2. UNCHANGED spent
  BY DEF FinishStep, CleanupPods, LetGo, EraseBytes, End
<1>3. Grows
  BY <1>1, <1>2, Growing
<1>4. CASE CleanupPods(Export)
  <2>1. Proceed(Export, "letgo") /\ pod' = NoPods(Export) /\ object' = object
    BY <1>1, <1>4 DEF CleanupPods
  <2>2. PodTurns
    BY <1>1, <2>1, OtherPods DEF PodTurns
  <2>. QED
    BY <1>3, <2>1, <2>2, BytesProceed DEF Stages
<1>5. CASE LetGo(Export)
  <2>1. PICK r \in Rows : r = Freed(t.row) /\ SameBytes(r, t.row)
    BY <1>1, FreedRow, UploadRows
  <2>2. WithRow(Export, "erase", r) /\ UNCHANGED <<pod, object>>
    BY <1>1, <1>5, <2>1, Names DEF LetGo
  <2>3. "erase" \in Stages /\ Export \in SourceThreads /\ PodTurns
    BY <2>2 DEF Stages, SourceThreads, PodTurns
  <2>. QED
    BY <1>3, <2>1, <2>2, <2>3, BytesMoves DEF WithRow
<1>6. CASE EraseBytes(Export)
  <2>1. Proceed(Export, "end") /\ UNCHANGED pod
    BY <1>6 DEF EraseBytes, cluster
  <2>. QED
    BY <1>1, <1>3, <2>1, BytesProceed DEF Stages, PodTurns, Excused
<1>7. CASE End(Export)
  <2>1. PICK r \in Rows : /\ r = [t.row EXCEPT !.state = t.row.finishing, !.finishing = ""]
                          /\ r.state \in Ended /\ r.step = t.row.step /\ SameUpload(r, t.row)
    BY <1>1, EndRow, UploadRows
  <2>2. Update(Export, r, "idle") /\ UNCHANGED <<pod, object>>
    BY <1>7, <2>1 DEF End, cluster
  <2>3. Closing(r) /\ r.state \notin {"none", "completed"}
    BY <2>1 DEF Closing, Ended
  <2>. QED
    BY <1>1, <1>3, <2>1, <2>2, <2>3, BytesAdvance DEF Stages
<1>. QED
  BY <1>4, <1>5, <1>6, <1>7 DEF FinishStep

LEMMA GivingUpBytes ==
    ASSUME IInv, BytesInv, AgentLost \/ CutShort(Export)
    PROVE  BytesInv'
<1>1. /\ TypeOK /\ thread[Export].row.state \in Active /\ UNCHANGED <<pod, object, spent>>
      /\ \E o \in Ended : Finish(Export, o)
  BY ActiveStep DEF IInv, AgentLost, CutShort, Fail, Ended, cluster
<1>. QED
  BY <1>1, Growing, BytesFails

\* A new look at the row.
LEMMA DispatchKeepsBytes ==
    ASSUME IInv, BytesInv, Dispatch(Export) \/ DeleteArchive
    PROVE  BytesInv'
<1>1. TypeOK /\ thread \in [Threads -> Copies]
  BY Typed DEF IInv
<1>2. PICK th \in SourceThreads, at \in {"step", "clean"} :
         /\ thread' = [thread EXCEPT ![th] = [Idle EXCEPT !.at = at, !.row = row[Export],
                                                          !.fresh = TRUE]]
         /\ row[Export].state \in Active \/ (row[Export].state = "completed" /\ Retired')
         /\ UNCHANGED <<row, up, pod, object, lapsed>>
         /\ asked'.importing = asked.importing /\ (Retired => Retired')
         /\ Fault \/ Command \/ UNCHANGED spent
  <2>1. CASE Dispatch(Export)
    <3>1. PICK at \in {"step", "clean"} :
             thread' = [thread EXCEPT ![Export] = [Idle EXCEPT !.at = at, !.row = row[Export],
                                                               !.fresh = TRUE]]
      <4>. DEFINE a == IF row[Export].finishing # "" THEN "clean" ELSE "step"
      <4>1. thread' = [thread EXCEPT ![Export] = [Idle EXCEPT !.at = a, !.row = row[Export],
                                                              !.fresh = TRUE]]
        BY <2>1 DEF Dispatch
      <4>2. a \in {"step", "clean"}
        OBVIOUS
      <4>. HIDE DEF a
      <4>. QED
        BY <4>1, <4>2
    <3>2. /\ row[Export].state \in Active \/ (row[Export].state = "completed" /\ lapsed)
          /\ UNCHANGED <<row, up, pod, object, lapsed, asked, spent>>
      BY <2>1 DEF Dispatch, Listed, cluster, time
    <3>. QED
      BY <3>1, <3>2 DEF SourceThreads, Retired
  <2>2. CASE DeleteArchive
    <3>1. /\ thread' = [thread EXCEPT !["deleter"] = [Idle EXCEPT !.at = "step",
                                            !.row = row[Export], !.fresh = TRUE]]
          /\ row[Export].state = "completed" /\ Command
          /\ asked' = [asked EXCEPT !.deletion = TRUE]
          /\ UNCHANGED <<row, up, pod, object, lapsed>>
      BY <2>2 DEF DeleteArchive, cluster, time
    <3>2. asked'.importing = asked.importing /\ asked'.deletion
      BY <1>1, <3>1, Typed
    <3>. QED
      BY <3>1, <3>2 DEF SourceThreads, Retired
  <2>. QED
    BY <2>1, <2>2
<1>3. Grows /\ UpKept /\ PodTurns
  BY <1>1, <1>2, Growing DEF UpKept, PodTurns
<1>. DEFINE c == [Idle EXCEPT !.at = at, !.row = row[Export], !.fresh = TRUE]
<1>4. c.at = at /\ c.row = row[Export]
  BY IdleFields DEF Copies
<1>. HIDE DEF c
<1>5. /\ thread' = [thread EXCEPT ![th] = c] /\ th \in Threads
  BY <1>2, Names DEF c, SourceThreads
<1>6. /\ thread'[th].at = at /\ thread'[th].row = row[Export]
      /\ \A t \in Threads \ {th} : Kept(t)
  BY <1>1, <1>2, <1>4, <1>5 DEF Kept
<1>7. CopyGood(th)'
  BY <1>2, <1>6 DEF CopyGood, SameBytes, Active
<1>8. \A t \in SourceThreads \ {th} : CopyGood(t)'
  BY <1>2, <1>6, Names, KeptCopy DEF BytesInv, SourceThreads
<1>9. FinishGood' /\ (Far' => Far)
  <2>1. CASE th = Export
    BY <1>2, <1>6, <2>1 DEF FinishGood, Far
  <2>2. CASE th # Export
    BY <1>2, <1>6, <2>2, Names DEF Kept, FinishGood, Far, BytesInv
  <2>. QED
    BY <2>1, <2>2
<1>10. asked.importing => row'[Export].state \in {"completed", "expired"}
  BY <1>2 DEF BytesInv, ClaimInv
<1>. QED
  BY <1>2, <1>3, <1>7, <1>8, <1>9, <1>10, BytesGo

\* An upload u comes to stage at, and no other learns anything.
Turns(u, at) ==
    /\ up'[u].at = at /\ (up'[u].fresh => at = "claim")
    /\ \A v \in Uploads \ {u} : up'[v].at = up[v].at /\ (up'[v].fresh => up[v].fresh)

LEMMA Uploading ==
    ASSUME TypeOK, NEW u \in Uploads, NEW at, Upload(u, at)
    PROVE  Turns(u, at)
<1>1. up \in UpTypes
  BY Typed
<1>2. up' = [up EXCEPT ![u] = [at |-> at, fresh |-> at = "claim"]]
  BY DEF Upload
<1>3. up'[u] = [at |-> at, fresh |-> at = "claim"] /\ \A v \in Uploads \ {u} : up'[v] = up[v]
  BY <1>1, <1>2 DEF UpTypes
<1>4. up'[u].at = at /\ up'[u].fresh = (at = "claim")
  BY <1>3
<1>5. up'[u].fresh => at = "claim"
  BY <1>4, Zenon
<1>. QED
  BY <1>3, <1>4, <1>5 DEF Turns

\* A save of the export's row by an upload.
LEMMA UploadingSaved ==
    ASSUME TypeOK, NEW u \in Uploads, NEW at \in UploadStages,
           up' = [OutdatedUploads(Export) EXCEPT ![u].at = at]
    PROVE  Turns(u, at) /\ \A v \in Uploads : ~up'[v].fresh
<1>1. \A v \in Uploads : up[v] \in [at: UploadStages, fresh: BOOLEAN]
  BY Typed DEF UpTypes, UploadStages
<1>2. PICK f : f = OutdatedUploads(Export)
  OBVIOUS
<1>3. /\ f = [v \in Uploads |-> [up[v] EXCEPT !.fresh = FALSE]]
      /\ up' = [f EXCEPT ![u].at = at]
  BY <1>2 DEF OutdatedUploads
<1>4. \A v \in Uploads : /\ f[v] \in [at: UploadStages, fresh: BOOLEAN]
                         /\ f[v].at = up[v].at /\ ~f[v].fresh
  BY <1>1, <1>3
<1>5. up'[u] = [f[u] EXCEPT !.at = at] /\ \A v \in Uploads \ {u} : up'[v] = f[v]
  BY <1>3
<1>6. up'[u].at = at /\ ~up'[u].fresh
  BY <1>4, <1>5
<1>. QED
  BY <1>4, <1>5, <1>6 DEF Turns

\* Uploads and their saves leave the rest of the export's work alone.
LEMMA UploadsBeside ==
    ASSUME IInv, BytesInv, UNCHANGED <<lapsed, asked>>,
           \/ UNCHANGED <<row, thread>>
           \/ \E r \in Rows : /\ WriteRow(Export, r) /\ r.state = row[Export].state
                              /\ r.step = row[Export].step /\ r.finishing = row[Export].finishing
                              /\ row[Export].uploaded => r.uploaded
    PROVE  /\ \A th \in SourceThreads : CopyGood(th)'
           /\ FinishGood' /\ (Far' => Far) /\ (Closing(row[Export])' <=> Closing(row[Export]))
           /\ Retired' <=> Retired
<1>1. TypeOK /\ Export \in Jobs
  BY Names DEF IInv
<1>2. /\ Kept(Export) /\ Kept("deleter")
      /\ row'[Export].state = row[Export].state /\ row'[Export].step = row[Export].step
      /\ row'[Export].finishing = row[Export].finishing
      /\ row[Export].uploaded => row'[Export].uploaded
  <2>1. CASE UNCHANGED <<row, thread>>
    BY <2>1 DEF Kept
  <2>2. ASSUME NEW r \in Rows, WriteRow(Export, r), r.state = row[Export].state,
               r.step = row[Export].step, r.finishing = row[Export].finishing,
               row[Export].uploaded => r.uploaded
        PROVE  /\ Kept(Export) /\ Kept("deleter")
               /\ row'[Export].state = row[Export].state /\ row'[Export].step = row[Export].step
               /\ row'[Export].finishing = row[Export].finishing
               /\ row[Export].uploaded => row'[Export].uploaded
    <3>1. row'[Export] = r /\ \A t \in Threads : Kept(t)
      BY <1>1, <2>2, Writes
    <3>. QED
      BY <2>2, <3>1, Names
  <2>. QED
    BY <2>1, <2>2
<1>3. Retired' <=> Retired
  BY DEF Retired
<1>4. \A th \in SourceThreads : CopyGood(th)'
  BY <1>2, <1>3, KeptCopy DEF BytesInv, SourceThreads
<1>. QED
  BY <1>2, <1>3, <1>4 DEF BytesInv, FinishGood, Far, Closing, Kept


\* An upload goes on, or ends, and saves nothing.
LEMMA UploadTurns ==
    ASSUME IInv, BytesInv, NEW u \in Uploads, NEW y \in {"record", "undo", "refused"}, Turns(u, y),
           up[u].at \in {"claim", "store", "record", "undo"},
           y = "record" => up[u].at = "store" /\ object',
           y = "undo" => up[u].at \in {"store", "record"},
           ~object' => ~object \/ up[u].at = "undo",
           UNCHANGED <<row, thread, pod, lapsed, asked>>, Grows
    PROVE  BytesInv'
<1>1. /\ (\A th \in SourceThreads : CopyGood(th)') /\ FinishGood' /\ (Far' => Far)
      /\ (Closing(row[Export])' <=> Closing(row[Export])) /\ (Retired' <=> Retired)
  BY UploadsBeside
<1>2. ClaimInv /\ StoredInv /\ (spent.faults <= 1 => OneFaultInv)
  BY DEF BytesInv
<1>3. /\ up'[u].at = y /\ ~up'[u].fresh
      /\ \A v \in Uploads \ {u} : up'[v].at = up[v].at /\ (up'[v].fresh => up[v].fresh)
  BY DEF Turns
<1>4. At(Storing)' \subseteq At(Storing)
  BY <1>3 DEF At, Storing
<1>5. At({"store", "record"})' \subseteq At({"store", "record"})
  BY <1>3 DEF At
<1>6. At(Storing \cup {"claim"})' \subseteq At(Storing \cup {"claim"})
  BY <1>3 DEF At, Storing
<1>7. ClaimInv'
  BY <1>2, <1>3, <1>4, <1>5, <1>6 DEF ClaimInv
<1>8. Accepted' <=> Accepted
  BY <1>3 DEF Accepted, At
<1>9. StoredInv'
  <2>1. CASE object
    <3>1. up[u].at = "undo" /\ ~object' => At({"record", "ok"})' = {} /\ ~asked.importing
      BY <1>2, <1>3 DEF ClaimInv, At, Storing
    <3>. QED
      BY <2>1, <3>1 DEF StoredInv
  <2>2. CASE ~object
    <3>1. At({"record", "ok"}) # {} \/ asked.importing => Excused
      BY <1>2, <2>2 DEF StoredInv
    <3>2. Excused => Excused'
      BY <1>1 DEF Excused
    <3>3. ~object' /\ At({"record", "ok"})' # {} => At({"record", "ok"}) # {}
      BY <1>3 DEF At
    <3>. QED
      BY <3>1, <3>2, <3>3 DEF StoredInv
  <2>. QED
    BY <2>1, <2>2
<1>10. ASSUME spent'.faults <= 1 PROVE OneFaultInv'
  <2>1. /\ OneFaultInv /\ (spent'.faults = 0 => spent.faults = 0)
        /\ spent.faults = 1 => spent'.faults = 1
    BY <1>2, <1>10 DEF Grows
  <2>2. At({"claim", "store", "record"})' \subseteq At({"claim", "store", "record"})
    BY <1>3 DEF At
  <2>3. spent'.faults = 0 => PodWaits'
    BY <1>1, <1>3, <2>1, <2>2 DEF OneFaultInv, PodWaits
  <2>4. UploadSettled'
    BY <1>1, <1>8, <2>1 DEF OneFaultInv, UploadSettled
  <2>. QED
    BY <1>1, <1>8, <2>1, <2>3, <2>4 DEF OneFaultInv
<1>. QED
  BY <1>1, <1>7, <1>9, <1>10 DEF BytesInv

\* A second upload is a fault; the first finds its pod running.
LEMMA ArrivesKeepsBytes ==
    ASSUME IInv, BytesInv, NEW u \in Uploads, UploadArrives(u)
    PROVE  BytesInv'
<1>1. /\ TypeOK /\ up[u].at = "none" /\ pod[Export] = "running"
      /\ UNCHANGED <<row, thread, pod, object, lapsed, asked>>
      /\ (\A v \in Uploads : up[v].at = "none") \/ Fault
      /\ Fault \/ UNCHANGED spent
  BY DEF IInv, UploadArrives, Sent, cluster, time
<1>2. PICK y \in {"claim", "refused"} :
         Upload(u, y) /\ (y = "claim" => Accepting("archiving") /\ ~row[Export].claimed)
  BY DEF UploadArrives
<1>3. Turns(u, y) /\ Grows /\ (Fault => spent'.faults = spent.faults + 1)
  BY <1>1, <1>2, Uploading, Growing
<1>4. /\ (\A th \in SourceThreads : CopyGood(th)') /\ FinishGood' /\ (Far' => Far)
      /\ (Closing(row[Export])' <=> Closing(row[Export])) /\ (Retired' <=> Retired)
  BY <1>1, UploadsBeside
<1>5. ClaimInv /\ StoredInv /\ (spent.faults <= 1 => OneFaultInv)
  BY DEF BytesInv
<1>6. /\ up'[u].at = y /\ \A v \in Uploads \ {u} : up'[v].at = up[v].at /\ (up'[v].fresh => up[v].fresh)
  BY <1>3 DEF Turns
<1>7. At(Storing)' = At(Storing) /\ At({"store", "record"})' = At({"store", "record"})
  BY <1>1, <1>6 DEF At, Storing
<1>8. ClaimInv'
  <2>1. \A v \in Uploads : up'[v].at = "claim" /\ up'[v].fresh => ~row[Export].claimed
    BY <1>2, <1>5, <1>6 DEF ClaimInv
  <2>2. asked.importing => At(Storing \cup {"claim"})' = {}
    BY <1>2, <1>5, <1>6 DEF ClaimInv, At, Storing
  <2>. QED
    BY <1>1, <1>5, <1>7, <2>1, <2>2 DEF ClaimInv
<1>9. (Accepted' <=> Accepted) /\ (Excused' <=> Excused)
  BY <1>1, <1>4, <1>6 DEF Accepted, At, Excused
<1>10. StoredInv'
  BY <1>1, <1>5, <1>6, <1>9 DEF StoredInv, At
<1>11. ASSUME spent'.faults <= 1 PROVE OneFaultInv'
  <2>1. /\ OneFaultInv /\ (spent'.faults = 0 => spent.faults = 0)
        /\ spent.faults = 1 => spent'.faults = 1
    BY <1>3, <1>5, <1>11 DEF Grows
  <2>2. ASSUME spent'.faults = 0 PROVE PodWaits'
    <3>1. \A v \in Uploads : up[v].at = "none"
      BY <1>1, <1>3, <2>2 DEF Grows
    <3>. QED
      BY <1>1, <1>6, <3>1 DEF PodWaits
  <2>3. UploadSettled'
    BY <1>1, <1>4, <1>9, <2>1 DEF OneFaultInv, UploadSettled
  <2>. QED
    BY <1>1, <1>4, <1>9, <2>1, <2>2, <2>3 DEF OneFaultInv
<1>. QED
  BY <1>4, <1>8, <1>10, <1>11 DEF BytesInv

LEMMA UploadMarks ==
    ASSUME NEW r \in Rows
    PROVE  LET c == [r EXCEPT !.claimed = TRUE]
               s == [r EXCEPT !.uploaded = TRUE]
           IN /\ c \in Rows /\ s \in Rows /\ c.claimed /\ s.uploaded
              /\ c.uploaded = r.uploaded /\ s.claimed = r.claimed
              /\ c.state = r.state /\ c.step = r.step /\ c.finishing = r.finishing
              /\ s.state = r.state /\ s.step = r.step /\ s.finishing = r.finishing
BY DEF Rows

\* The claim: nobody else has it, and every other reader is outdated.
LEMMA ClaimKeepsBytes ==
    ASSUME IInv, BytesInv, NEW u \in Uploads, ClaimUpload(u), up[u].fresh
    PROVE  BytesInv'
<1>1. /\ TypeOK /\ up[u].at = "claim" /\ row[Export] \in Rows /\ row \in [Jobs -> Rows]
      /\ WriteRow(Export, [row[Export] EXCEPT !.claimed = TRUE])
      /\ up' = [OutdatedUploads(Export) EXCEPT ![u].at = "store"]
      /\ UNCHANGED <<pod, object, lapsed, asked, spent>>
  BY Names, Typed DEF IInv, ClaimUpload, cluster, time
<1>2. PICK r \in Rows : /\ WriteRow(Export, r) /\ r.claimed /\ r.uploaded = row[Export].uploaded
                        /\ r.state = row[Export].state /\ r.step = row[Export].step
                        /\ r.finishing = row[Export].finishing
  BY <1>1, UploadMarks
<1>3. row'[Export] = r
  BY <1>1, <1>2, Names, Writes
<1>4. /\ up'[u].at = "store" /\ (\A v \in Uploads \ {u} : up'[v].at = up[v].at)
      /\ \A v \in Uploads : ~up'[v].fresh
  BY <1>1, UploadingSaved DEF Turns, UploadStages
<1>5. /\ (\A th \in SourceThreads : CopyGood(th)') /\ FinishGood' /\ (Far' => Far)
      /\ (Closing(row[Export])' <=> Closing(row[Export])) /\ (Retired' <=> Retired)
  BY <1>1, <1>2, UploadsBeside
<1>6. ClaimInv /\ StoredInv /\ (spent.faults <= 1 => OneFaultInv)
  BY DEF BytesInv
<1>7. ~row[Export].claimed /\ ~row[Export].uploaded /\ At(Storing) = {} /\ ~asked.importing
  BY <1>1, <1>6 DEF ClaimInv, At
<1>8. At(Storing)' = {u}
  BY <1>4, <1>7 DEF At, Storing
<1>9. ClaimInv'
  BY <1>1, <1>2, <1>3, <1>4, <1>7, <1>8 DEF ClaimInv
<1>10. (Accepted' <=> Accepted) /\ (Excused' <=> Excused)
  BY <1>1, <1>4, <1>5 DEF Accepted, At, Excused
<1>11. StoredInv'
  BY <1>1, <1>4, <1>6, <1>10 DEF StoredInv, At
<1>12. ASSUME spent'.faults <= 1 PROVE OneFaultInv'
  <2>1. OneFaultInv
    BY <1>1, <1>6, <1>12
  <2>2. spent.faults = 0 => PodWaits'
    BY <1>1, <1>4, <1>5, <2>1 DEF OneFaultInv, PodWaits, At
  <2>3. UploadSettled'
    BY <1>2, <1>3, <1>7 DEF UploadSettled
  <2>. QED
    BY <1>1, <1>5, <1>10, <2>1, <2>2, <2>3 DEF OneFaultInv
<1>. QED
  BY <1>5, <1>9, <1>11, <1>12 DEF BytesInv

\* The record, whether or not the upload learns that it was saved.
LEMMA RecordKeepsBytes ==
    ASSUME IInv, BytesInv, NEW u \in Uploads, NEW at \in {"ok", "undo"}, up[u].at = "record",
           row[Export].state = "running",
           WriteRow(Export, [row[Export] EXCEPT !.uploaded = TRUE]),
           up' = [OutdatedUploads(Export) EXCEPT ![u].at = at],
           IF at = "ok" THEN UNCHANGED spent ELSE Fault,
           UNCHANGED <<pod, object, lapsed, asked>>
    PROVE  BytesInv'
<1>1. /\ TypeOK /\ row[Export] \in Rows /\ row \in [Jobs -> Rows]
      /\ at \in UploadStages
  BY Names, Typed DEF IInv, UploadStages
<1>2. PICK r \in Rows : /\ WriteRow(Export, r) /\ r.uploaded /\ r.claimed = row[Export].claimed
                        /\ r.state = row[Export].state /\ r.step = row[Export].step
                        /\ r.finishing = row[Export].finishing
  BY <1>1, UploadMarks
<1>3. row'[Export] = r
  BY <1>1, <1>2, Names, Writes
<1>4. /\ up'[u].at = at /\ (\A v \in Uploads \ {u} : up'[v].at = up[v].at)
      /\ \A v \in Uploads : ~up'[v].fresh
  BY <1>1, UploadingSaved DEF Turns
<1>5. /\ (\A th \in SourceThreads : CopyGood(th)') /\ FinishGood' /\ (Far' => Far)
      /\ (Closing(row[Export])' <=> Closing(row[Export])) /\ (Retired' <=> Retired)
  BY <1>2, UploadsBeside
<1>6. ClaimInv /\ StoredInv /\ (spent.faults <= 1 => OneFaultInv)
  BY DEF BytesInv
<1>7. u \in At(Storing) /\ \A v \in At(Storing) : v = u
  BY <1>6 DEF ClaimInv, At, Storing
<1>8. At(Storing)' = {u} /\ At({"store", "record"})' = {}
  BY <1>4, <1>7 DEF At, Storing
<1>9. row[Export].claimed /\ ~asked.importing
  BY <1>6, <1>7 DEF ClaimInv
<1>10. ClaimInv'
  BY <1>2, <1>3, <1>4, <1>8, <1>9 DEF ClaimInv
<1>11. /\ at = "ok" => Accepted'
       /\ Accepted => Accepted'
       /\ Excused' <=> Excused
  BY <1>4, <1>5, <1>7 DEF Accepted, At, Storing, Excused
<1>12. StoredInv'
  BY <1>6, <1>9, <1>11 DEF StoredInv, At
<1>13. ASSUME spent'.faults <= 1 PROVE OneFaultInv'
  <2>1. Grows /\ (at = "undo" => spent'.faults = spent.faults + 1)
    BY <1>1, Growing
  <2>2. OneFaultInv /\ (spent'.faults = 0 => spent.faults = 0 /\ at = "ok")
        /\ (at = "undo" => spent.faults = 0 /\ spent'.faults = 1)
    BY <1>6, <1>13, <2>1 DEF Grows
  <2>3. spent'.faults = 0 => PodWaits'
    <3>1. At({"claim", "store", "record"})' \subseteq At({"claim", "store", "record"})
      BY <1>4 DEF At
    <3>2. spent'.faults = 0 => PodWaits
      BY <2>2 DEF OneFaultInv
    <3>3. \A v \in Uploads : up'[v].at # "none" => up[v].at # "none"
      BY <1>4
    <3>. QED
      BY <1>5, <3>1, <3>2, <3>3 DEF PodWaits
  <2>4. UploadSettled'
    <3>1. at = "undo" => pod[Export] = "running" \/ Closing(row[Export])
      BY <2>2 DEF OneFaultInv, PodWaits, At
    <3>. QED
      BY <1>5, <1>11, <2>2, <3>1 DEF UploadSettled
  <2>. QED
    BY <1>5, <1>11, <2>2, <2>3, <2>4 DEF OneFaultInv
<1>. QED
  BY <1>5, <1>10, <1>12, <1>13 DEF BytesInv

LEMMA UploadKeepsBytes ==
    ASSUME IInv, BytesInv, NEW u \in Uploads, UploadStep(u)
    PROVE  BytesInv'
<1>1. TypeOK /\ row[Export] \in Rows /\ object \in BOOLEAN
  BY Names, Typed DEF IInv, TypeOK
<1>2. CASE UploadArrives(u)
  BY <1>2, ArrivesKeepsBytes
<1>3. CASE ClaimUpload(u)
  <2>1. CASE up[u].fresh
    BY <1>3, <2>1, ClaimKeepsBytes
  <2>2. CASE ~up[u].fresh
    BY <1>1, <1>3, <2>2, Uploading, Growing, UploadTurns DEF ClaimUpload, cluster, time
  <2>. QED
    BY <2>1, <2>2
<1>4. CASE ReportProgress(u)
  <2>1. /\ WriteRow(Export, row[Export]) /\ up' = OutdatedUploads(Export) /\ Fault
        /\ UNCHANGED <<pod, object, lapsed, asked>>
    BY <1>4 DEF ReportProgress, cluster, time
  <2>. QED
    BY <1>1, <2>1, Names, Growing, ByteMarks, BytesMarked DEF PodTurns
<1>5. CASE StoreSealed(u)
  <2>1. up[u].at = "store" /\ UNCHANGED <<row, thread, pod, lapsed, asked>>
    BY <1>5 DEF StoreSealed, cluster, time
  <2>2. CASE object' = TRUE /\ Upload(u, "record") /\ UNCHANGED spent
    BY <1>1, <2>1, <2>2, Uploading, Growing, UploadTurns
  <2>3. CASE Upload(u, "undo") /\ UNCHANGED object /\ (Fault \/ UNCHANGED spent)
    BY <1>1, <2>1, <2>3, Uploading, Growing, UploadTurns
  <2>. QED
    BY <1>5, <2>2, <2>3 DEF StoreSealed
<1>6. CASE RecordUpload(u)
  <2>1. up[u].at = "record" /\ UNCHANGED <<pod, object, lapsed, asked>>
    BY <1>6 DEF RecordUpload, cluster, time
  <2>2. CASE Upload(u, "undo") /\ UNCHANGED <<row, thread>> /\ (Fault \/ UNCHANGED spent)
    BY <1>1, <2>1, <2>2, Uploading, Growing, UploadTurns
  <2>3. CASE /\ row[Export].state = "running"
             /\ WriteRow(Export, [row[Export] EXCEPT !.uploaded = TRUE])
             /\ \/ up' = [OutdatedUploads(Export) EXCEPT ![u].at = "ok"] /\ UNCHANGED spent
                \/ up' = [OutdatedUploads(Export) EXCEPT ![u].at = "undo"] /\ Fault
    BY <2>1, <2>3, RecordKeepsBytes
  <2>. QED
    BY <1>6, <2>2, <2>3 DEF RecordUpload
<1>7. CASE UndoUpload(u)
  BY <1>1, <1>7, Uploading, Growing, UploadTurns DEF UndoUpload, cluster, time
<1>8. CASE UploadCrashes(u)
  BY <1>1, <1>8, Uploading, Growing, UploadTurns DEF UploadCrashes, cluster, time
<1>. QED
  BY <1>2, <1>3, <1>4, <1>5, <1>6, <1>7, <1>8 DEF UploadStep

LEMMA BytesBegin ==
    ASSUME Init
    PROVE  BytesInv
<1>1. /\ thread = [th \in Threads |-> Idle] /\ lapsed = FALSE
      /\ up = [u \in Uploads |-> [at |-> "none", fresh |-> FALSE]]
      /\ pod = [p \in Jobs \cup {"verify"} |-> "none"]
      /\ asked = [intent |-> StandingIntent(agent[Export]), verb |-> "", deletion |-> FALSE,
                  importing |-> object]
      /\ spent = [faults |-> 0, commands |-> 0]
  BY DEF Init
<1>2. \/ row[Export] = NoRow /\ object = FALSE
      \/ row[Export] = OldExport /\ object = TRUE
  BY Names DEF Init
<1>3. /\ pod[Export] = "none" /\ spent.faults = 0 /\ asked.importing = object
      /\ \A th \in SourceThreads : thread[th] = Idle
      /\ \A u \in Uploads : up[u].at = "none"
  BY <1>1, Names DEF SourceThreads
<1>4. Idle.at = "idle" /\ Idle.row = NoRow /\ ~Idle.fresh
  BY IdleFields
<1>5. OldExport.state = "completed" /\ OldExport.claimed /\ OldExport.step = ""
  BY NoRowFields DEF OldExport, NoRow
<1>6. \A th \in SourceThreads : CopyGood(th)
  BY <1>3, <1>4, NoRowBytes DEF CopyGood
<1>7. FinishGood
  BY <1>3, <1>4, NoRowFields DEF FinishGood, SourceThreads, Active
<1>8. ClaimInv
  BY <1>2, <1>3, <1>5, NoRowBytes DEF ClaimInv, At, Storing
<1>9. StoredInv
  BY <1>2, <1>3 DEF StoredInv, At
<1>10. OneFaultInv
  <2>1. row[Export].uploaded => Accepted
    BY <1>2, <1>3, NoRowBytes DEF Accepted
  <2>2. Far => Accepted
    BY <1>2, <1>3, <1>4, NoRowFields DEF Far, Accepted, SourceThreads
  <2>3. PodWaits
    BY <1>3 DEF PodWaits, At
  <2>. QED
    BY <1>3, <2>1, <2>2, <2>3 DEF OneFaultInv, UploadSettled
<1>. QED
  BY <1>6, <1>7, <1>8, <1>9, <1>10 DEF BytesInv

LEMMA WorkersKeepBytes ==
    ASSUME IInv, BytesInv, NEW j \in Jobs, WorkerStep(j)
    PROVE  BytesInv'
<1>1. CASE j = Export
  <2>1. \/ Dispatch(Export) \/ CutShort(Export) \/ IssueToken(Export) \/ CreateArchivePod(Export)
        \/ PodCreated(Export) \/ ReleaseAgent(Export) \/ AgentReleased(Export)
        \/ FinishStep(Export) \/ AgentLost \/ BeginExport \/ PatchHold \/ ReapplyHold
        \/ WaitForPause \/ WatchExportPod \/ VerifyStored \/ Verified
        \/ Shred(Export) \/ Shredded(Export)
    BY <1>1, Names DEF WorkerStep, ExportStep
  <2>. QED
    BY <2>1, DispatchKeepsBytes, GivingUpBytes, LaunchKeepsBytes, ReleaseKeepsBytes,
       ExportFinishesBytes, BeginKeepsBytes, HoldsKeepBytes, WaitKeepsBytes, WatchKeepsBytes,
       VerifyKeepsBytes, ShredKeepsBytes DEF SourceThreads
<1>2. CASE j = Import
  BY <1>2, ImportWorksElsewhere, BytesElsewhere DEF IInv
<1>. QED
  BY <1>1, <1>2 DEF Jobs

LEMMA BytesPreserved ==
    ASSUME IInv, BytesInv, [Next]_vars
    PROVE  BytesInv'
<1>1. TypeOK
  BY DEF IInv
<1>2. ASSUME NEW j \in Jobs, WorkerStep(j) PROVE BytesInv'
  BY <1>2, WorkersKeepBytes
<1>3. CASE \/ \E j \in Jobs : Controller(j) \/ DeadlinePasses(j) \/ SetDesiredPhase(j) \/ DeleteAgent(j)
           \/ VerifyPodFails \/ RestorePodRuns \/ RetentionPasses \/ UNCHANGED vars
  <2>1. Elsewhere
    BY <1>1, <1>3, WorldElsewhere
  <2>. QED
    BY <2>1, BytesElsewhere
<1>4. CASE HandlerStep
  <2>1. CASE CreateAgent \/ RecordAgent \/ Abandon
    BY <1>1, <2>1, CreatorElsewhere, BytesElsewhere
  <2>2. CASE FinishStep("creator")
    BY <1>1, <2>2, Names, ImportFinishes, BytesElsewhere
  <2>3. CASE Shred("deleter") \/ Shredded("deleter")
    BY <2>3, ShredKeepsBytes DEF SourceThreads
  <2>. QED
    BY <1>4, <2>1, <2>2, <2>3 DEF HandlerStep
<1>5. CASE StartExport \/ StartImport \/ DeleteArchive \/ \E j \in Jobs : RequestCancel(j)
  BY <1>1, <1>5, StartExportKeepsBytes, CreatorElsewhere, BytesElsewhere, DispatchKeepsBytes,
     MarksKeepBytes
<1>6. CASE \E u \in Uploads : UploadStep(u)
  BY <1>6, UploadKeepsBytes
<1>7. CASE PostSummary \/ ExportPodExits
  BY <1>7, MarksKeepBytes, PodsKeepBytes
<1>8. ASSUME NEW p \in DOMAIN pod, PodDies(p) PROVE BytesInv'
  <2>1. CASE p = Export
    BY <1>8, <2>1, PodsKeepBytes
  <2>2. CASE p # Export
    BY <1>1, <1>8, <2>2, WorldElsewhere, BytesElsewhere
  <2>. QED
    BY <2>1, <2>2
<1>9. CASE \E th \in Threads : Crash(th)
  BY <1>9, CrashKeepsBytes
<1>. QED
  BY <1>2, <1>3, <1>4, <1>5, <1>6, <1>7, <1>8, <1>9 DEF Next, Operator

(* As long as there was at most one fault (a crash, a failed call, a lost    *)
(* pod, a repeated upload, a progress write), no failing or late upload takes *)
(* the bytes of a completed export: they go only once its retention has       *)
(* lapsed or its deletion was asked for (receiveExport's claim, record and    *)
(* undo against watchExportPod and shred).                                    *)
THEOREM OneFaultKeepsArchive == Spec => [](spent.faults <= 1 => ArchiveKept)
<1>1. IInv /\ BytesInv => (spent.faults <= 1 => ArchiveKept)
  <2>. SUFFICES ASSUME IInv, BytesInv, spent.faults <= 1, row[Export].state = "completed", ~object
                PROVE  Retired
    BY DEF ArchiveKept, Retired
  <2>1. ~Closing(row[Export])
    BY DEF IInv, ExportInv, HoldInv, HoldOK, Closing, Active, Ended
  <2>2. Accepted
    BY DEF BytesInv, OneFaultInv, Far
  <2>3. At({"record", "ok"}) # {} \/ asked.importing
    BY <2>2 DEF Accepted, At
  <2>. QED
    BY <2>1, <2>3 DEF BytesInv, StoredInv, Excused
<1>2. Spec => []BytesInv
  BY BytesBegin, BytesPreserved, Invariance, PTL DEF Spec
<1>. QED
  BY <1>1, <1>2, Invariance, PTL
=============================================================================
