---------------------------- MODULE AgentInbound ----------------------------
(* What reaches one agent from outside: bounded requests (pkg/requeststore,  *)
(* routes_agent_requests.go), signed webhooks (routes_inbound.go) and their  *)
(* replays, each handed to the agent through the in-memory queue of the      *)
(* replica that accepted it (pkg/inbound). Redis is shared by the replicas;  *)
(* queues and workers live and die with their process. Durable tasks use the *)
(* same queue and are modelled in TaskDispatch.                              *)
EXTENDS Naturals, Sequences, FiniteSets, SequencesExt

CONSTANTS
    Requests,        \* submissions, one request id each
    Hooks,           \* webhook posts, one request id each
    BodyOf,          \* the body of each post
    Replicas,
    None,
    QueueDepth, MaxOutstanding, MaxTerminal,
    MaxSpent         \* bound: failed calls and crashes, shutdowns, replays and lapses
                     \* of one body's dedupe key together

ASSUME LimitsAssumption ==
    /\ {QueueDepth, MaxOutstanding, MaxTerminal} \subseteq Nat \ {0}
    /\ MaxSpent \in Nat

ASSUME JobsAssumption ==
    Requests \cap Hooks = {} /\ None \notin Requests \cup Hooks

VARIABLES
    redis,       \* request hashes and sorted sets, dedupe keys, envelopes
    clock,       \* how many of the created requests have reached their expiry
    call,        \* the HTTP handler of each submission and post
    queue,       \* per replica: channel and the progress of Stop
    worker,      \* per replica: the goroutine that drains the channel
    deliveries,  \* how often a job's prompt reached the agent
    spent        \* faults, stops, replays, open dedupe checks and lapsed keys so far

vars == <<redis, clock, call, queue, worker, deliveries, spent>>

Jobs == Requests \cup Hooks
Bodies == {BodyOf[h] : h \in Hooks}
Codes == {"", "agent_unavailable", "delivery_failed"}
Records == [status: {"none", "queued", "dispatched", "failed", "completed", "gone"}, code: Codes]
NoRecord == [status |-> "none", code |-> ""]
Gone == [status |-> "gone", code |-> ""]

IdleWorker == [job |-> None, at |-> "idle", late |-> FALSE, sent |-> FALSE, outcome |-> ""]
NewQueue == [ch |-> <<>>, channel |-> "none", stop |-> "no"]

Init ==
    /\ redis = [rec |-> [r \in Requests |-> NoRecord], born |-> <<>>, outstanding |-> {},
                terminal |-> <<>>, bodies |-> {}, envelopes |-> {}]
    /\ clock = 0
    /\ call = [j \in Jobs |-> [at |-> "new", on |-> None]]
    /\ queue = [p \in Replicas |-> NewQueue]
    /\ worker = [p \in Replicas |-> IdleWorker]
    /\ deliveries = [j \in Jobs |-> 0]
    /\ spent = [faults |-> 0, stops |-> 0, replays |-> 0, open |-> 0,
                lapses |-> [b \in Bodies |-> 0]]

Stores ==
    [rec: [Requests -> Records], born: Seq(Requests), outstanding: SUBSET Requests,
     terminal: Seq(Requests), bodies: SUBSET Bodies, envelopes: SUBSET Hooks]
Calls ==
    [at: {"new", "stash", "lookup", "send", "reject", "accepted", "refused", "deduped", "lost"},
     on: Replicas \cup {None}]
Queues ==
    [ch: Seq(Jobs), channel: {"none", "open", "closed"},
     stop: {"no", "marked", "closed", "canceled", "done"}]
Workers ==
    [job: Jobs \cup {None}, at: {"idle", "wait", "deliver", "record"}, late: BOOLEAN,
     sent: BOOLEAN, outcome: {"", "dispatched", "agent_unavailable", "delivery_failed"}]

TypeOK ==
    /\ redis \in Stores
    /\ IsInjective(redis.born) /\ IsInjective(redis.terminal) /\ clock \in 0..Len(redis.born)
    /\ call \in [Jobs -> Calls]
    /\ queue \in [Replicas -> Queues] /\ \A p \in Replicas : Len(queue[p].ch) <= QueueDepth
    /\ worker \in [Replicas -> Workers]
    /\ deliveries \in [Jobs -> Nat]
    /\ spent \in [faults: 0..MaxSpent, stops: 0..MaxSpent, replays: 0..MaxSpent,
                  open: 0..MaxSpent, lapses: [Bodies -> 0..MaxSpent]]

Expired(r) == \E i \in 1..clock : redis.born[i] = r
Spendable ==
    LET used == spent.faults + spent.stops + spent.replays
    IN  used < MaxSpent /\ \A b \in Bodies : used + spent.lapses[b] < MaxSpent
Fault == Spendable /\ spent' = [spent EXCEPT !.faults = @ + 1]

-----------------------------------------------------------------------------
(* The Lua scripts of requeststore/redis.go, each a function of the store.  *)

(* Expired ids leave the sorted set even when the request is then refused.  *)
Pruned(s) == [s EXCEPT !.outstanding = {r \in @ : ~Expired(r)}]

RoomFor(s) == Cardinality(Pruned(s).outstanding) < MaxOutstanding

Created(s, r) ==
    [Pruned(s) EXCEPT !.rec[r] = [NoRecord EXCEPT !.status = "queued"],
                      !.born = Append(@, r), !.outstanding = @ \cup {r}]

MarkDispatched(s, r) ==
    IF s.rec[r].status = "queued" THEN [s EXCEPT !.rec[r].status = "dispatched"] ELSE s

(* Faulty variant: trims only when the limit is already passed. *)
SettledAsLate(s, r, record) ==
    LET trim == Len(s.terminal) > MaxTerminal
    IN [s EXCEPT !.outstanding = @ \ {r},
                 !.terminal = Append(IF trim THEN Tail(@) ELSE @, r),
                 !.rec[r] = record]

(* A request becomes terminal and the oldest terminal one beyond the limit  *)
(* is dropped with its record. Ids of expired requests stay in `terminal'.  *)
SettledAs(s, r, record) ==
    LET t == Append(s.terminal, r)
        trim == Len(t) > MaxTerminal
    IN [s EXCEPT !.outstanding = @ \ {r},
                 !.terminal = IF trim THEN Tail(t) ELSE t,
                 !.rec = [x \in Requests |->
                            IF trim /\ x = Head(t) THEN Gone
                            ELSE IF x = r THEN record ELSE @[x]]]

Failed(s, r, code) ==
    IF s.rec[r].status \in {"queued", "dispatched"}
    THEN SettledAs(s, r, [status |-> "failed", code |-> code])
    ELSE s

Completed(s, r) ==
    IF s.rec[r].status = "dispatched"
    THEN SettledAs(s, r, [status |-> "completed", code |-> ""])
    ELSE s

-----------------------------------------------------------------------------
(* HTTP handlers. *)

Serving(p) == queue[p].stop # "done"
Answer(j, at) == call' = [call EXCEPT ![j].at = at]

(* submitAgentRequest up to the answer of Create. A failed call may have    *)
(* created the record; no job is enqueued for it.                           *)
Submit(r, p) ==
    /\ call[r].at = "new" /\ Serving(p)
    /\ \/ /\ ~RoomFor(redis) /\ redis' = Pruned(redis)
          /\ call' = [call EXCEPT ![r] = [at |-> "refused", on |-> p]]
          /\ UNCHANGED spent
       \/ /\ RoomFor(redis) /\ redis' = Created(redis, r)
          /\ \/ call' = [call EXCEPT ![r] = [at |-> "lookup", on |-> p]] /\ UNCHANGED spent
             \/ call' = [call EXCEPT ![r] = [at |-> "lost", on |-> p]] /\ Fault
    /\ UNCHANGED <<clock, queue, worker, deliveries>>

(* Faulty variant: looks the body up and records it only once enqueued. *)
PostLooks(h, p) ==
    /\ call[h].at = "new" /\ Serving(p)
    /\ call' = [call EXCEPT ![h] = [at |-> IF BodyOf[h] \in redis.bodies THEN "deduped" ELSE "stash",
                                    on |-> p]]
    /\ UNCHANGED <<redis, clock, queue, worker, deliveries, spent>>

(* handleInbound up to SeenWithin: the body's key is set, unless it is      *)
(* there, whatever becomes of the post; an error of the deduper lets it     *)
(* through.                                                                 *)
Post(h, p) ==
    LET seen == BodyOf[h] \in redis.bodies
    IN  /\ call[h].at = "new" /\ Serving(p)
        /\ \/ /\ redis' = [redis EXCEPT !.bodies = @ \cup {BodyOf[h]}]
              /\ call' = [call EXCEPT ![h] = [at |-> IF seen THEN "deduped" ELSE "stash", on |-> p]]
              /\ UNCHANGED spent
           \/ /\ Spendable
              /\ spent' = [spent EXCEPT !.faults = @ + 1, !.open = @ + 1]
              /\ call' = [call EXCEPT ![h] = [at |-> "stash", on |-> p]]
              /\ UNCHANGED redis
        /\ UNCHANGED <<clock, queue, worker, deliveries>>

(* inboundDedupTTL passes: the key SETNX wrote for the body is gone.  The   *)
(* 24 hours are not measured, so it may go at any time.                     *)
BodyExpires(b) ==
    /\ b \in redis.bodies /\ Spendable
    /\ redis' = [redis EXCEPT !.bodies = @ \ {b}]
    /\ spent' = [spent EXCEPT !.lapses[b] = @ + 1]
    /\ UNCHANGED <<clock, call, queue, worker, deliveries>>

(* The envelope is cached for replays before the rate limit is asked. *)
Stash(h) ==
    /\ call[h].at = "stash"
    /\ \/ redis' = [redis EXCEPT !.envelopes = @ \cup {h}] /\ UNCHANGED spent
       \/ Fault /\ UNCHANGED redis
    /\ \E answer \in {"lookup", "refused"} : Answer(h, answer)
    /\ UNCHANGED <<clock, queue, worker, deliveries>>

(* replayInboundRun enqueues the cached envelope once more. *)
Replay(h, p) ==
    /\ h \in redis.envelopes /\ call[h].at \in {"accepted", "refused"} /\ Serving(p)
    /\ Spendable /\ spent' = [spent EXCEPT !.replays = @ + 1]
    /\ call' = [call EXCEPT ![h] = [at |-> "lookup", on |-> p]]
    /\ UNCHANGED <<redis, clock, queue, worker, deliveries>>

-----------------------------------------------------------------------------
(* Faulty variant: makes a channel, and a goroutine, after Stop has looked. *)
LookupStopped(j) ==
    LET p == call[j].on
    IN  /\ call[j].at = "lookup"
        /\ Answer(j, "send")
        /\ queue' = [queue EXCEPT ![p].channel = IF @ = "none" THEN "open" ELSE @]
        /\ UNCHANGED <<redis, clock, worker, deliveries, spent>>

(* Queue.Enqueue: the channel is found or made under the mutex, and the     *)
(* send follows after the mutex is released.                                *)
Lookup(j) ==
    LET p == call[j].on
    IN  /\ call[j].at = "lookup"
        /\ IF queue[p].stop # "no"
           THEN Answer(j, "reject") /\ UNCHANGED queue
           ELSE /\ Answer(j, "send")
                /\ queue' = [queue EXCEPT ![p].channel = IF @ = "none" THEN "open" ELSE @]
        /\ UNCHANGED <<redis, clock, worker, deliveries, spent>>

(* A send on a channel that Stop has closed meanwhile panics; net/http      *)
(* drops the connection and nothing is undone.                              *)
Send(j) ==
    LET p == call[j].on
    IN  /\ call[j].at = "send"
        /\ CASE queue[p].channel = "closed" -> Answer(j, "lost") /\ UNCHANGED queue
             [] Len(queue[p].ch) >= QueueDepth -> Answer(j, "reject") /\ UNCHANGED queue
             [] OTHER -> /\ Answer(j, "accepted")
                         /\ queue' = [queue EXCEPT ![p].ch = Append(@, j)]
        /\ UNCHANGED <<redis, clock, worker, deliveries, spent>>

(* The answer to ErrQueueFull; a request's record is closed first. *)
Reject(j) ==
    /\ call[j].at = "reject" /\ Answer(j, "refused")
    /\ \/ /\ redis' = IF j \in Requests THEN Failed(redis, j, "delivery_failed") ELSE redis
          /\ UNCHANGED spent
       \/ j \in Requests /\ Fault /\ UNCHANGED redis
    /\ UNCHANGED <<clock, queue, worker, deliveries>>

-----------------------------------------------------------------------------
(* Queue.worker and the handler of NewDeliveryHandler. Stop cancels the     *)
(* context of every step.                                                   *)

Canceled(p) == queue[p].stop \in {"canceled", "done"}
Does(p, w) == worker' = [worker EXCEPT ![p] = w]
Outcome(p, outcome) == Does(p, [worker[p] EXCEPT !.at = "record", !.outcome = outcome])

Take(p) ==
    LET j == Head(queue[p].ch)
        w == [IdleWorker EXCEPT !.job = j, !.at = "wait"]
    IN  /\ worker[p].at = "idle" /\ queue[p].ch # <<>>
        /\ queue' = [queue EXCEPT ![p].ch = Tail(@)]
        /\ Does(p, IF j \in Requests /\ Expired(j)
                   THEN [w EXCEPT !.at = "record", !.outcome = "agent_unavailable"] ELSE w)
        /\ UNCHANGED <<redis, clock, call, deliveries, spent>>

(* The processing deadline of a request, some seconds ahead of its expiry.  *)
(* A webhook has timeouts only.                                             *)
Deadline(p) ==
    /\ worker[p].job \in Requests /\ worker[p].at \in {"wait", "deliver"} /\ ~worker[p].late
    /\ Does(p, [worker[p] EXCEPT !.late = TRUE])
    /\ UNCHANGED <<redis, clock, call, queue, deliveries, spent>>

(* waitAgent returns: the agent is Running, or is not and will not be in    *)
(* time. A webhook is delivered whatever the wait said.                     *)
WaitEnds(p) ==
    LET w == worker[p]
    IN  /\ w.at = "wait"
        /\ \/ /\ w.job \in Requests => ~w.late /\ ~Canceled(p)
              /\ Does(p, [w EXCEPT !.at = "deliver"])
           \/ w.job \in Requests /\ Outcome(p, "agent_unavailable")
        /\ UNCHANGED <<redis, clock, call, queue, deliveries, spent>>

(* The prompt is written into the agent's session. *)
Prompt(p) ==
    LET w == worker[p]
    IN  /\ w.at = "deliver" /\ ~w.sent /\ ~w.late /\ ~Canceled(p)
        /\ Does(p, [w EXCEPT !.sent = TRUE])
        /\ deliveries' = [deliveries EXCEPT ![w.job] = @ + 1]
        /\ UNCHANGED <<redis, clock, call, queue, spent>>

(* Faulty variant: an exec that failed is taken for an agent not reached. *)
DeliverEndsUnavailable(p) ==
    LET w == worker[p]
    IN  /\ w.at = "deliver"
        /\ (w.sent /\ Outcome(p, "dispatched")) \/ Outcome(p, "agent_unavailable")
        /\ UNCHANGED <<redis, clock, call, queue, deliveries, spent>>

(* The exec returns: without error only after the prompt was written, with  *)
(* one at any time (no pod, a lost connection, its timeout, Stop).          *)
DeliverEnds(p) ==
    LET w == worker[p]
    IN  /\ w.at = "deliver"
        /\ (w.sent /\ Outcome(p, "dispatched")) \/ Outcome(p, "delivery_failed")
        /\ UNCHANGED <<redis, clock, call, queue, deliveries, spent>>

(* Faulty variant: records only what went wrong. *)
RecordFailures(p) ==
    LET w == worker[p]
    IN  /\ w.at = "record" /\ Does(p, IdleWorker)
        /\ redis' = IF w.job \in Hooks \/ Canceled(p) \/ w.outcome = "dispatched" THEN redis
                    ELSE Failed(redis, w.job, w.outcome)
        /\ UNCHANGED <<clock, call, queue, deliveries, spent>>

(* recordRequestDelivery under the queue's context: a canceled context, or  *)
(* a failed call, loses the outcome. Webhooks have none to record.          *)
Record(p) ==
    LET w == worker[p]
        recorded == IF w.outcome = "dispatched" THEN MarkDispatched(redis, w.job)
                    ELSE Failed(redis, w.job, w.outcome)
    IN  /\ w.at = "record" /\ Does(p, IdleWorker)
        /\ \/ /\ redis' = IF w.job \in Hooks \/ Canceled(p) THEN redis ELSE recorded
              /\ UNCHANGED spent
           \/ w.job \in Requests /\ Fault /\ UNCHANGED redis
        /\ UNCHANGED <<clock, call, queue, deliveries>>

-----------------------------------------------------------------------------
(* The agent answers a request it was given (handleRequestReply). Before    *)
(* the record is dispatched the answer is refused, and the agent must ask   *)
(* again.                                                                   *)
Reply(r) ==
    /\ deliveries[r] > 0
    /\ redis.rec[r].status = "dispatched" /\ redis' = Completed(redis, r)
    /\ UNCHANGED <<clock, call, queue, worker, deliveries, spent>>

(* Requests live equally long, so they expire in the order of creation, and *)
(* the processing deadline of a worker that has one comes before.           *)
Expire ==
    /\ clock < Len(redis.born)
    /\ LET r == redis.born[clock + 1]
       IN /\ \A p \in Replicas :
                worker[p].job = r /\ worker[p].at \in {"wait", "deliver"} => worker[p].late
          /\ redis' = [redis EXCEPT !.rec[r] = Gone]
    /\ clock' = clock + 1
    /\ UNCHANGED <<call, queue, worker, deliveries, spent>>

-----------------------------------------------------------------------------
(* Queue.Stop: the flag and the list of channels under the mutex, then the  *)
(* channels, then the context, then the wait for the goroutines.            *)

StopTo(p, stop) ==
    /\ queue' = [queue EXCEPT ![p].stop = stop]
    /\ UNCHANGED <<redis, clock, call, worker, deliveries>>

Stop(p) ==
    /\ queue[p].stop = "no" /\ Spendable
    /\ spent' = [spent EXCEPT !.stops = @ + 1]
    /\ StopTo(p, "marked")

(* A channel made after Stop has listed them is not closed: Lookup does not *)
(* make one then.                                                           *)
CloseChannels(p) ==
    /\ queue[p].stop = "marked"
    /\ queue' = [queue EXCEPT ![p].stop = "closed",
                              ![p].channel = IF @ = "open" THEN "closed" ELSE @]
    /\ UNCHANGED <<redis, clock, call, worker, deliveries, spent>>

Cancel(p) == queue[p].stop = "closed" /\ StopTo(p, "canceled") /\ UNCHANGED spent

StopReturns(p) ==
    /\ queue[p].stop = "canceled"
    /\ worker[p].at = "idle" /\ queue[p].ch = <<>> /\ queue[p].channel # "open"
    /\ StopTo(p, "done") /\ UNCHANGED spent

(* The process ends with its handlers and its memory, and another starts. *)
Fresh(p) ==
    /\ queue' = [queue EXCEPT ![p] = NewQueue]
    /\ worker' = [worker EXCEPT ![p] = IdleWorker]
    /\ call' = [j \in Jobs |->
                  IF call[j].on = p /\ call[j].at \in {"stash", "lookup", "send", "reject"}
                  THEN [call[j] EXCEPT !.at = "lost"] ELSE call[j]]
    /\ UNCHANGED <<redis, clock, deliveries>>

Restart(p) == queue[p].stop = "done" /\ Fresh(p) /\ UNCHANGED spent
Crash(p) == Fault /\ Fresh(p)

-----------------------------------------------------------------------------
Handler(j) == Lookup(j) \/ Send(j) \/ Reject(j)
Delivery(p) == Take(p) \/ WaitEnds(p) \/ Prompt(p) \/ DeliverEnds(p) \/ Record(p)
Stopping(p) == CloseChannels(p) \/ Cancel(p) \/ StopReturns(p)

Next ==
    \/ \E r \in Requests : Reply(r) \/ \E p \in Replicas : Submit(r, p)
    \/ \E h \in Hooks : Stash(h) \/ \E p \in Replicas : Post(h, p) \/ Replay(h, p)
    \/ \E j \in Jobs : Handler(j)
    \/ \E p \in Replicas :
          Delivery(p) \/ Deadline(p) \/ Stop(p) \/ Stopping(p) \/ Restart(p) \/ Crash(p)
    \/ Expire
    \/ \E b \in Bodies : BodyExpires(b)

Spec == Init /\ [][Next]_vars

(* Goroutines are scheduled, waits and execs have timeouts, and the agent   *)
(* answers what it was given as often as it takes.                          *)
Fairness ==
    /\ \A p \in Replicas : WF_vars(Delivery(p)) /\ WF_vars(Stopping(p))
    /\ \A r \in Requests : WF_vars(Reply(r))

FairSpec == Spec /\ Fairness

-----------------------------------------------------------------------------
(* Properties. *)

Live(statuses) == {r \in Requests : redis.rec[r].status \in statuses}

(* The sorted sets of redis.go know every live record and keep both limits, *)
(* whatever expires, is trimmed, or is settled late or twice.               *)
LimitsKept ==
    /\ Live({"queued", "dispatched"}) \subseteq redis.outstanding
    /\ Live({"failed", "completed"}) \subseteq ToSet(redis.terminal)
    /\ Cardinality(redis.outstanding) <= MaxOutstanding
    /\ Len(redis.terminal) <= MaxTerminal

Queued(j) == \E p \in Replicas : worker[p].job = j \/ j \in ToSet(queue[p].ch)

(* Told agent_unavailable, or refused at the door (queue full, shutting     *)
(* down), a caller may submit again: the prompt of a request so answered    *)
(* has not reached the agent and never will.                                *)
RefusedMeansUnsent ==
    \A r \in Requests :
        /\ redis.rec[r].code = "agent_unavailable" => deliveries[r] = 0
        /\ call[r].at \in {"refused", "reject"} => deliveries[r] = 0 /\ ~Queued(r)

(* The prompts with body b that reached the agent, one by one. *)
Posts(b) == {h \in Hooks : BodyOf[h] = b}
Prompted(b) == UNION {{h} \X (1..deliveries[h]) : h \in Posts(b)}

(* A request is delivered at most once, and a webhook body at most once for *)
(* each life of its dedupe key, but for replays and posts let through while *)
(* the deduper was failing: a post still under way when its key expires     *)
(* does not add to the next one's.                                          *)
DeliveredOnce ==
    /\ \A r \in Requests : deliveries[r] <= 1
    /\ \A b \in Bodies :
          Cardinality(Prompted(b)) <= 1 + spent.lapses[b] + spent.replays + spent.open

(* An accepted request does not stay queued, nor a delivered one dispatched:*)
(* it gets an answer or a failure, or is gone, unless a store call failed   *)
(* or the process that held it stopped.                                     *)
AcceptedSettles ==
    \A r \in Requests :
        call[r].at = "accepted" ~> \/ redis.rec[r].status \in {"failed", "completed", "gone"}
                                   \/ spent.faults + spent.stops > 0

(* Queue.Stop returns: every goroutine it waits for ends. *)
StopEnds == \A p \in Replicas : queue[p].stop = "marked" ~> queue[p].stop \notin {"marked", "closed", "canceled"}

(* "Drain in-flight inbound jobs on shutdown so we don't leave half-sent    *)
(* prompts on the wire": Stop does not cut off a delivery under way.        *)
DrainsDeliveries ==
    [][\A p \in Replicas : ~Canceled(p) /\ Canceled(p)' => worker[p].at # "deliver"]_vars
=============================================================================
