------------------------- MODULE AgentInboundProofs -------------------------
(***************************************************************************)
(* Proofs about AgentInbound, for any requests, posts, replicas, limits    *)
(* and bounds: its types, the limits of the request store, that a refusal  *)
(* is honest, and how often a request and a webhook's body are delivered.  *)
(*                                                                         *)
(* The invariant has three parts.  The store (RequestInv, StoreInv): every *)
(* live record is in the sorted set of its kind, an expired or trimmed one *)
(* has left for good, and an id is created and settled once, which is what *)
(* keeps both limits.  The place of a request (PlaceOK): nothing undoes an *)
(* enqueue and nothing enqueues twice, so an accepted request is in one    *)
(* queue, or with one worker, or with none once its process stopped; what  *)
(* that worker has sent is what was delivered.  The answer (AnswerOK): the *)
(* code agent_unavailable is written by the worker that did not send, and  *)
(* then the request is nowhere.                                            *)
(*                                                                         *)
(* Webhooks are counted on top of it (OnceInv): the prompts of a body that *)
(* wait in a handler, stand in line, are held by a worker or reached the   *)
(* agent never outnumber what was paid for them, and every step moves a    *)
(* prompt one place on, loses it, or pays for a new one.                   *)
(***************************************************************************)
EXTENDS AgentInbound, FiniteSetTheorems, TLAPS

(* A record is in the set of its kind, and only a created one is in any. *)
RequestInv(r) ==
    /\ call[r].at = "new" => redis.rec[r] = NoRecord /\ r \notin ToSet(redis.born)
    /\ Expired(r) => redis.rec[r].status = "gone"
    /\ redis.rec[r].status \in {"queued", "dispatched"} => r \in redis.outstanding
    /\ redis.rec[r].status \in {"failed", "completed"} => r \in ToSet(redis.terminal)
    /\ r \in ToSet(redis.terminal) => redis.rec[r].status \in {"failed", "completed", "gone"}

StoreInv ==
    /\ IsFiniteSet(redis.outstanding) /\ Cardinality(redis.outstanding) <= MaxOutstanding
    /\ Len(redis.terminal) <= MaxTerminal
    /\ \A r \in Requests : RequestInv(r)

In(p, j) == j \in ToSet(queue[p].ch)
With(p, j) == worker[p].job = j

(* An accepted request is in one place at most. *)
PlaceOK(r) ==
    /\ \A p, q \in Replicas : In(p, r) /\ In(q, r) => p = q
    /\ \A p, q \in Replicas : With(p, r) /\ With(q, r) => p = q
    /\ \A p, q \in Replicas : ~(In(p, r) /\ With(q, r))
    /\ \A p \in Replicas : In(p, r) \/ With(p, r) => call[r].at = "accepted"
    /\ \A p \in Replicas : In(p, r) => deliveries[r] = 0
    /\ \A p \in Replicas : With(p, r) => deliveries[r] = IF worker[p].sent THEN 1 ELSE 0

(* No request occurs twice in a channel. *)
Once(s) == \A i, k \in DOMAIN s : s[i] \in Requests /\ s[i] = s[k] => i = k

WorkerOK(p) ==
    /\ Once(queue[p].ch)
    /\ worker[p].at = "idle" <=> worker[p].job = None
    /\ worker[p].at = "wait" \/ worker[p].outcome = "agent_unavailable" => ~worker[p].sent
    /\ worker[p].at # "record" => worker[p].outcome = ""

(* A request not accepted was not delivered; one told agent_unavailable is  *)
(* nowhere and was not delivered either.                                    *)
AnswerOK(r) ==
    /\ call[r].at # "accepted" => deliveries[r] = 0
    /\ deliveries[r] <= 1
    /\ redis.rec[r].code = "agent_unavailable" =>
          deliveries[r] = 0 /\ ~Queued(r) /\ call[r].at = "accepted"

IInv ==
    /\ TypeOK
    /\ spent.open <= spent.faults
    /\ StoreInv
    /\ \A p \in Replicas : WorkerOK(p)
    /\ \A r \in Requests : PlaceOK(r) /\ AnswerOK(r)

(* The same in the parts that the steps disturb. *)
StoreType ==
    /\ redis \in Stores
    /\ IsInjective(redis.born) /\ IsInjective(redis.terminal)
    /\ clock \in 0..Len(redis.born)
StoreOK == StoreType /\ StoreInv
SpentTypes ==
    [faults: 0..MaxSpent, stops: 0..MaxSpent, replays: 0..MaxSpent, open: 0..MaxSpent,
     lapses: [Bodies -> 0..MaxSpent]]

-----------------------------------------------------------------------------
(* Sequences.                                                              *)

\* What appending does to the elements of a sequence.
LEMMA Appended ==
    ASSUME NEW S, NEW s \in Seq(S), NEW e \in S
    PROVE  /\ Append(s, e) \in Seq(S) /\ Len(Append(s, e)) = Len(s) + 1
           /\ \A i \in 1..Len(s) : Append(s, e)[i] = s[i]
           /\ Append(s, e)[Len(s) + 1] = e
           /\ ToSet(Append(s, e)) = ToSet(s) \cup {e}
<1>1. /\ Append(s, e) \in Seq(S) /\ Len(Append(s, e)) = Len(s) + 1
      /\ \A i \in 1..Len(s) : Append(s, e)[i] = s[i]
      /\ Append(s, e)[Len(s) + 1] = e /\ Len(s) \in Nat
  OBVIOUS
<1>2. DOMAIN s = 1..Len(s) /\ DOMAIN Append(s, e) = 1..(Len(s) + 1)
  OBVIOUS
<1>3. 1..(Len(s) + 1) = 1..Len(s) \cup {Len(s) + 1}
  BY <1>1
<1>. QED
  BY <1>1, <1>2, <1>3 DEF ToSet

\* A nonempty sequence is its head and its tail.
LEMMA Tailed ==
    ASSUME NEW S, NEW s \in Seq(S), s # <<>>
    PROVE  /\ Tail(s) \in Seq(S) /\ Len(Tail(s)) = Len(s) - 1 /\ Len(s) > 0
           /\ \A i \in 1..(Len(s) - 1) : Tail(s)[i] = s[i + 1]
           /\ Head(s) = s[1] /\ Head(s) \in S
           /\ ToSet(s) = ToSet(Tail(s)) \cup {Head(s)}
<1>1. /\ Tail(s) \in Seq(S) /\ Len(Tail(s)) = Len(s) - 1 /\ Len(s) \in Nat /\ Len(s) > 0
      /\ \A i \in 1..(Len(s) - 1) : Tail(s)[i] = s[i + 1]
      /\ Head(s) = s[1] /\ Head(s) \in S
  OBVIOUS
<1>2. DOMAIN s = 1..Len(s) /\ DOMAIN Tail(s) = 1..(Len(s) - 1)
  BY <1>1
<1>3. ASSUME NEW x \in ToSet(s) PROVE x \in ToSet(Tail(s)) \cup {Head(s)}
  <2>1. PICK i \in 1..Len(s) : s[i] = x
    BY <1>2 DEF ToSet
  <2>2. CASE i = 1
    BY <1>1, <2>1, <2>2
  <2>3. CASE i # 1
    <3>1. i - 1 \in 1..(Len(s) - 1) /\ (i - 1) + 1 = i
      BY <1>1, <2>1, <2>3
    <3>. QED
      BY <1>1, <1>2, <2>1, <3>1 DEF ToSet
  <2>. QED
    BY <2>2, <2>3
<1>4. ASSUME NEW x \in ToSet(Tail(s)) PROVE x \in ToSet(s)
  <2>1. PICK i \in 1..(Len(s) - 1) : Tail(s)[i] = x
    BY <1>2 DEF ToSet
  <2>. QED
    BY <1>1, <1>2, <2>1 DEF ToSet
<1>5. Head(s) \in ToSet(s)
  BY <1>1, <1>2 DEF ToSet
<1>. QED
  BY <1>1, <1>3, <1>4, <1>5

\* Appending a request that was not there keeps the requests distinct.
LEMMA OnceAppended ==
    ASSUME NEW S, NEW s \in Seq(S), NEW e \in S, Once(s), e \in ToSet(s) => e \notin Requests
    PROVE  Once(Append(s, e))
<1>1. DOMAIN s = 1..Len(s) /\ DOMAIN Append(s, e) = 1..(Len(s) + 1) /\ Len(s) \in Nat
  OBVIOUS
<1>2. ASSUME NEW i \in 1..(Len(s) + 1), NEW k \in 1..(Len(s) + 1), Append(s, e)[i] \in Requests,
             Append(s, e)[i] = Append(s, e)[k], i # k
      PROVE  FALSE
  <2>1. i \in 1..Len(s) \/ i = Len(s) + 1
    BY <1>1
  <2>2. k \in 1..Len(s) \/ k = Len(s) + 1
    BY <1>1
  <2>3. CASE i \in 1..Len(s) /\ k \in 1..Len(s)
    BY <1>1, <1>2, <2>3, Appended DEF Once
  <2>4. CASE i = Len(s) + 1 /\ k \in 1..Len(s)
    BY <1>1, <1>2, <2>4, Appended DEF ToSet
  <2>5. CASE k = Len(s) + 1 /\ i \in 1..Len(s)
    BY <1>1, <1>2, <2>5, Appended DEF ToSet
  <2>. QED
    BY <1>2, <2>1, <2>2, <2>3, <2>4, <2>5
<1>. QED
  BY <1>1, <1>2 DEF Once

\* So does taking the head off, and the head then is gone.
LEMMA OnceTailed ==
    ASSUME NEW S, NEW s \in Seq(S), s # <<>>, Once(s)
    PROVE  /\ Once(Tail(s))
           /\ Head(s) \in Requests => Head(s) \notin ToSet(Tail(s))
<1>1. /\ DOMAIN s = 1..Len(s) /\ DOMAIN Tail(s) = 1..(Len(s) - 1) /\ Len(s) \in Nat /\ Len(s) > 0
      /\ Head(s) = s[1]
      /\ \A i \in 1..(Len(s) - 1) : Tail(s)[i] = s[i + 1] /\ i + 1 \in 1..Len(s) /\ i + 1 # 1
  OBVIOUS
<1>2. ASSUME NEW i \in 1..(Len(s) - 1), NEW k \in 1..(Len(s) - 1), Tail(s)[i] \in Requests,
             Tail(s)[i] = Tail(s)[k]
      PROVE  i = k
  <2>1. i + 1 = k + 1
    BY <1>1, <1>2 DEF Once
  <2>. QED
    BY <2>1
<1>3. ASSUME NEW i \in 1..(Len(s) - 1), Head(s) \in Requests
      PROVE  Tail(s)[i] # Head(s)
  BY <1>1, <1>3 DEF Once
<1>. QED
  BY <1>1, <1>2, <1>3 DEF Once, ToSet

LEMMA InjectiveOnce ==
    ASSUME NEW s \in Seq(Requests)
    PROVE  IsInjective(s) <=> Once(s)
BY DEF IsInjective, Once

-----------------------------------------------------------------------------
(* What the scripts of the store return.                                   *)

LEMMA RecordTypes ==
    /\ NoRecord \in Records /\ Gone \in Records
    /\ Gone.status = "gone" /\ Gone.code = "" /\ NoRecord.status = "none" /\ NoRecord.code = ""
    /\ [NoRecord EXCEPT !.status = "queued"] \in Records
    /\ [NoRecord EXCEPT !.status = "queued"].status = "queued"
    /\ [NoRecord EXCEPT !.status = "queued"].code = ""
BY DEF NoRecord, Gone, Records, Codes

LEMMA PrunedStore ==
    ASSUME redis \in Stores
    PROVE  /\ Pruned(redis) \in Stores
           /\ Pruned(redis).rec = redis.rec /\ Pruned(redis).born = redis.born
           /\ Pruned(redis).terminal = redis.terminal
           /\ Pruned(redis).outstanding = {r \in redis.outstanding : ~Expired(r)}
BY DEF Stores, Pruned

LEMMA CreatedStore ==
    ASSUME redis \in Stores, NEW r \in Requests
    PROVE  /\ Created(redis, r) \in Stores
           /\ Created(redis, r).rec =
                 [redis.rec EXCEPT ![r] = [NoRecord EXCEPT !.status = "queued"]]
           /\ Created(redis, r).born = Append(redis.born, r)
           /\ Created(redis, r).terminal = redis.terminal
           /\ Created(redis, r).outstanding = Pruned(redis).outstanding \cup {r}
<1>. DEFINE s == Pruned(redis)
<1>1. s \in Stores /\ s.rec = redis.rec /\ s.born = redis.born /\ s.terminal = redis.terminal
  BY PrunedStore
<1>. DEFINE q == [NoRecord EXCEPT !.status = "queued"]
<1>2. q \in Records
  BY RecordTypes
<1>3. Created(redis, r) = [s EXCEPT !.rec[r] = q, !.born = Append(@, r), !.outstanding = @ \cup {r}]
  BY DEF Created
<1>4. Append(s.born, r) \in Seq(Requests)
  BY <1>1, Appended DEF Stores
<1>. HIDE DEF s, q
<1>5. /\ s.outstanding \cup {r} \in SUBSET Requests
      /\ [s.rec EXCEPT ![r] = q] \in [Requests -> Records]
  BY <1>1, <1>2 DEF Stores
<1>6. Created(redis, r) =
         [rec |-> [s.rec EXCEPT ![r] = q], born |-> Append(s.born, r),
          outstanding |-> s.outstanding \cup {r}, terminal |-> s.terminal,
          bodies |-> s.bodies, envelopes |-> s.envelopes]
  BY <1>1, <1>3 DEF Stores
<1>7. /\ Created(redis, r) \in Stores
      /\ Created(redis, r).rec = [s.rec EXCEPT ![r] = q]
      /\ Created(redis, r).born = Append(s.born, r)
      /\ Created(redis, r).terminal = s.terminal
      /\ Created(redis, r).outstanding = s.outstanding \cup {r}
  BY <1>1, <1>4, <1>5, <1>6 DEF Stores
<1>. QED
  BY <1>1, <1>7 DEF s, q

\* SettledAs as a record: what it trims, and what becomes of every id.
LEMMA SettledStore ==
    ASSUME redis \in Stores, NEW r \in Requests, NEW record \in Records,
           redis.rec[r].status \in {"queued", "dispatched"}
    PROVE  LET s == SettledAs(redis, r, record)
               t == Append(redis.terminal, r)
           IN  /\ s \in Stores /\ s.born = redis.born /\ s.outstanding = redis.outstanding \ {r}
               /\ s.terminal = IF Len(t) > MaxTerminal THEN Tail(t) ELSE t
               /\ s.rec = [x \in Requests |->
                             IF Len(t) > MaxTerminal /\ x = Head(t) THEN Gone
                             ELSE IF x = r THEN record ELSE redis.rec[x]]
<1>. DEFINE t == Append(redis.terminal, r)
            tt == IF Len(t) > MaxTerminal THEN Tail(t) ELSE t
            rr == [x \in Requests |-> IF Len(t) > MaxTerminal /\ x = Head(t) THEN Gone
                                      ELSE IF x = r THEN record ELSE redis.rec[x]]
<1>1. t \in Seq(Requests) /\ t # <<>>
  BY Appended DEF Stores
<1>2. tt \in Seq(Requests)
  BY <1>1, Tailed
<1>3. rr \in [Requests -> Records]
  BY RecordTypes DEF Stores
<1>4. SettledAs(redis, r, record) =
         [redis EXCEPT !.outstanding = @ \ {r}, !.terminal = tt, !.rec = rr]
  BY DEF SettledAs
<1>. HIDE DEF t, tt, rr
<1>5. SettledAs(redis, r, record) =
         [rec |-> rr, born |-> redis.born, outstanding |-> redis.outstanding \ {r},
          terminal |-> tt, bodies |-> redis.bodies, envelopes |-> redis.envelopes]
  BY <1>4 DEF Stores
<1>6. LET s == SettledAs(redis, r, record)
      IN  /\ s \in Stores /\ s.born = redis.born /\ s.outstanding = redis.outstanding \ {r}
          /\ s.terminal = tt /\ s.rec = rr
  BY <1>2, <1>3, <1>5 DEF Stores
<1>. QED
  BY <1>6 DEF t, tt, rr

-----------------------------------------------------------------------------
(* The store keeps its part of the invariant.                              *)

LEMMA Parts ==
    IInv <=> /\ StoreOK
             /\ call \in [Jobs -> Calls]
             /\ queue \in [Replicas -> Queues] /\ \A p \in Replicas : Len(queue[p].ch) <= QueueDepth
             /\ worker \in [Replicas -> Workers]
             /\ deliveries \in [Jobs -> Nat]
             /\ spent \in SpentTypes /\ spent.open <= spent.faults
             /\ \A p \in Replicas : WorkerOK(p)
             /\ \A r \in Requests : PlaceOK(r)
             /\ \A r \in Requests : AnswerOK(r)
BY DEF IInv, TypeOK, StoreOK, StoreType, SpentTypes

LEMMA PartsNext ==
    ASSUME StoreOK', call' \in [Jobs -> Calls], queue' \in [Replicas -> Queues],
           \A p \in Replicas : Len(queue'[p].ch) <= QueueDepth,
           worker' \in [Replicas -> Workers], deliveries' \in [Jobs -> Nat],
           spent' \in SpentTypes, spent'.open <= spent'.faults,
           \A p \in Replicas : WorkerOK(p)',
           \A r \in Requests : PlaceOK(r)', \A r \in Requests : AnswerOK(r)'
    PROVE  IInv'
BY DEF IInv, TypeOK, StoreOK, StoreType, SpentTypes

NoneAnew == \A r \in Requests : call'[r].at = "new" => call[r].at = "new"

\* The store's part survives a step that touches none of it and makes no id new.
LEMMA StoreKept ==
    ASSUME StoreOK, redis' \in Stores, UNCHANGED clock, NoneAnew,
           UNCHANGED <<redis.rec, redis.born, redis.terminal, redis.outstanding>>
    PROVE  StoreOK'
<1>1. StoreType'
  BY DEF StoreOK, StoreType
<1>2. ASSUME NEW r \in Requests PROVE RequestInv(r)'
  BY <1>2 DEF StoreOK, StoreInv, RequestInv, Expired, NoneAnew
<1>. QED
  BY <1>1, <1>2 DEF StoreOK, StoreInv

LEMMA PrunedInv ==
    ASSUME StoreOK, redis' = Pruned(redis), UNCHANGED clock, NoneAnew
    PROVE  StoreOK'
<1>1. redis \in Stores /\ redis' \in Stores /\ UNCHANGED <<redis.rec, redis.born, redis.terminal>>
  BY PrunedStore DEF StoreOK, StoreType
<1>2. redis'.outstanding = {r \in redis.outstanding : ~Expired(r)}
  BY <1>1, PrunedStore
<1>3. StoreType'
  BY <1>1 DEF StoreOK, StoreType
<1>4. IsFiniteSet(redis'.outstanding) /\ Cardinality(redis'.outstanding) <= MaxOutstanding
  <2>1. redis'.outstanding \subseteq redis.outstanding
    BY <1>2
  <2>2. /\ IsFiniteSet(redis'.outstanding)
        /\ Cardinality(redis'.outstanding) <= Cardinality(redis.outstanding)
    BY <2>1, FS_Subset DEF StoreOK, StoreInv
  <2>. QED
    BY <2>2, FS_CardinalityType, LimitsAssumption DEF StoreOK, StoreInv
<1>5. ASSUME NEW r \in Requests PROVE RequestInv(r)'
  BY <1>1, <1>2, <1>5 DEF StoreOK, StoreInv, RequestInv, Expired, NoneAnew
<1>. QED
  BY <1>1, <1>3, <1>4, <1>5 DEF StoreOK, StoreInv

\* A new id enters only below the limit, and was never there before.
LEMMA CreatedInv ==
    ASSUME StoreOK, NEW q \in Requests, call[q].at = "new", call'[q].at # "new", RoomFor(redis),
           redis' = Created(redis, q), UNCHANGED clock, NoneAnew
    PROVE  StoreOK'
<1>1. /\ redis \in Stores /\ redis' \in Stores /\ UNCHANGED <<redis.terminal>>
      /\ redis'.rec = [redis.rec EXCEPT ![q] = [NoRecord EXCEPT !.status = "queued"]]
      /\ redis'.born = Append(redis.born, q)
  BY CreatedStore DEF StoreOK, StoreType
<1>2. redis'.outstanding = {r \in redis.outstanding : ~Expired(r)} \cup {q}
  BY <1>1, CreatedStore, PrunedStore
<1>3. /\ redis.born \in Seq(Requests) /\ q \notin ToSet(redis.born) /\ redis.rec[q] = NoRecord
      /\ clock \in 0..Len(redis.born) /\ redis.rec \in [Requests -> Records]
  BY DEF StoreOK, StoreType, StoreInv, RequestInv, Stores
<1>4. /\ redis'.born \in Seq(Requests) /\ Len(redis'.born) = Len(redis.born) + 1
      /\ \A i \in 1..Len(redis.born) : redis'.born[i] = redis.born[i]
      /\ ToSet(redis'.born) = ToSet(redis.born) \cup {q}
  BY <1>1, <1>3, Appended
<1>5. StoreType'
  <2>1. IsInjective(redis'.born)
    BY <1>1, <1>3, <1>4, InjectiveOnce, OnceAppended DEF StoreOK, StoreType
  <2>2. clock' \in 0..Len(redis'.born)
    BY <1>3, <1>4
  <2>. QED
    BY <1>1, <2>1, <2>2 DEF StoreOK, StoreType
<1>6. IsFiniteSet(redis'.outstanding) /\ Cardinality(redis'.outstanding) <= MaxOutstanding
  <2>. DEFINE O == {r \in redis.outstanding : ~Expired(r)}
  <2>1. O \subseteq redis.outstanding /\ Cardinality(O) < MaxOutstanding
    BY <1>1, PrunedStore DEF RoomFor
  <2>2. IsFiniteSet(O)
    BY <2>1, FS_Subset DEF StoreOK, StoreInv
  <2>. HIDE DEF O
  <2>3. /\ IsFiniteSet(O \cup {q}) /\ Cardinality(O) \in Nat
        /\ Cardinality(O \cup {q}) = Cardinality(O) \/ Cardinality(O \cup {q}) = Cardinality(O) + 1
    BY <2>2, FS_AddElement, FS_CardinalityType
  <2>4. redis'.outstanding = O \cup {q}
    BY <1>2 DEF O
  <2>. QED
    BY <2>1, <2>3, <2>4, LimitsAssumption
<1>7. \A r \in Requests : Expired(r)' <=> Expired(r)
  <2>1. clock' = clock /\ \A i \in 1..clock : redis'.born[i] = redis.born[i]
    BY <1>3, <1>4
  <2>. QED
    BY <2>1 DEF Expired
<1>8. ASSUME NEW r \in Requests PROVE RequestInv(r)'
  <2>1. CASE r = q
    <3>1. redis'.rec[q].status = "queued"
      BY <1>1, <1>3, RecordTypes
    <3>2. ~Expired(q) /\ q \notin ToSet(redis.terminal)
      BY <1>3, RecordTypes DEF StoreOK, StoreInv, RequestInv
    <3>. QED
      BY <1>1, <1>2, <1>7, <2>1, <3>1, <3>2 DEF RequestInv
  <2>2. CASE r # q
    <3>1. redis'.rec[r] = redis.rec[r] /\ (r \in ToSet(redis'.born) <=> r \in ToSet(redis.born))
      BY <1>1, <1>3, <1>4, <2>2
    <3>. QED
      BY <1>1, <1>2, <1>7, <3>1 DEF StoreOK, StoreInv, RequestInv, NoneAnew
  <2>. QED
    BY <2>1, <2>2
<1>. QED
  BY <1>1, <1>5, <1>6, <1>8 DEF StoreOK, StoreInv

\* A live request enters the terminal set once, and trimming makes room for it.
LEMMA SettledInv ==
    ASSUME StoreOK, NEW q \in Requests, NEW record \in Records,
           redis.rec[q].status \in {"queued", "dispatched"},
           record.status \in {"failed", "completed"},
           redis' = SettledAs(redis, q, record), UNCHANGED clock, NoneAnew
    PROVE  StoreOK'
<1>. DEFINE t == Append(redis.terminal, q)
            trim == Len(t) > MaxTerminal
<1>1. /\ redis \in Stores /\ redis' \in Stores /\ redis'.born = redis.born
      /\ redis'.outstanding = redis.outstanding \ {q}
      /\ redis'.terminal = IF trim THEN Tail(t) ELSE t
      /\ redis'.rec = [x \in Requests |-> IF trim /\ x = Head(t) THEN Gone
                                          ELSE IF x = q THEN record ELSE redis.rec[x]]
  BY SettledStore DEF StoreOK, StoreType
<1>2. /\ redis.terminal \in Seq(Requests) /\ Len(redis.terminal) \in Nat
      /\ Len(redis.terminal) <= MaxTerminal /\ MaxTerminal \in Nat
      /\ q \notin ToSet(redis.terminal) /\ Once(redis.terminal)
      /\ redis.rec[q] # NoRecord /\ ~Expired(q) /\ call'[q].at # "new"
  <2>1. redis.terminal \in Seq(Requests)
    BY <1>1 DEF Stores
  <2>2. Once(redis.terminal)
    BY <2>1, InjectiveOnce DEF StoreOK, StoreType
  <2>3. redis.rec[q] # NoRecord /\ RequestInv(q)
    BY RecordTypes DEF StoreOK, StoreInv
  <2>4. q \notin ToSet(redis.terminal) /\ ~Expired(q) /\ call'[q].at # "new"
    BY <2>3 DEF RequestInv, NoneAnew
  <2>. QED
    BY <2>1, <2>2, <2>3, <2>4, LimitsAssumption DEF StoreOK, StoreInv
<1>3. /\ t \in Seq(Requests) /\ t # <<>> /\ Len(t) = Len(redis.terminal) + 1 /\ Once(t)
      /\ ToSet(t) = ToSet(redis.terminal) \cup {q}
  <2>1. Once(t)
    BY <1>2, OnceAppended
  <2>2. /\ t \in Seq(Requests) /\ Len(t) = Len(redis.terminal) + 1
        /\ ToSet(t) = ToSet(redis.terminal) \cup {q}
    BY <1>2, Appended
  <2>. QED
    BY <1>2, <2>1, <2>2
<1>4. /\ Tail(t) \in Seq(Requests) /\ Len(Tail(t)) = Len(t) - 1 /\ Once(Tail(t))
      /\ Head(t) \in Requests /\ ToSet(t) = ToSet(Tail(t)) \cup {Head(t)}
      /\ Head(t) \notin ToSet(Tail(t))
  BY <1>3, Tailed, OnceTailed
<1>. HIDE DEF t
<1>5. IsInjective(redis'.terminal) /\ Len(redis'.terminal) <= MaxTerminal
  <2>1. Once(redis'.terminal) /\ redis'.terminal \in Seq(Requests)
    BY <1>1, <1>3, <1>4
  <2>2. Len(redis'.terminal) <= MaxTerminal
    BY <1>1, <1>2, <1>3, <1>4
  <2>. QED
    BY <2>1, <2>2, InjectiveOnce
<1>6. StoreType'
  BY <1>1, <1>5 DEF StoreOK, StoreType
<1>7. IsFiniteSet(redis'.outstanding) /\ Cardinality(redis'.outstanding) <= MaxOutstanding
  <2>1. redis'.outstanding \subseteq redis.outstanding
    BY <1>1
  <2>2. /\ IsFiniteSet(redis'.outstanding)
        /\ Cardinality(redis'.outstanding) <= Cardinality(redis.outstanding)
    BY <2>1, FS_Subset DEF StoreOK, StoreInv
  <2>. QED
    BY <2>1, <2>2, FS_CardinalityType, LimitsAssumption DEF StoreOK, StoreInv
<1>8. ASSUME NEW r \in Requests PROVE RequestInv(r)'
  <2>1. CASE trim /\ r = Head(t)
    <3>1. redis'.rec[r] = Gone
      BY <1>1, <2>1
    <3>2. call'[r].at # "new"
      BY <1>2, <1>3, <1>4, <2>1, RecordTypes DEF StoreOK, StoreInv, RequestInv, NoneAnew
    <3>. QED
      BY <3>1, <3>2, RecordTypes DEF RequestInv
  <2>2. CASE ~(trim /\ r = Head(t)) /\ r = q
    <3>1. redis'.rec[r] = record /\ r \in ToSet(redis'.terminal)
      BY <1>1, <1>3, <1>4, <2>2
    <3>2. ~Expired(r)' /\ call'[r].at # "new"
      BY <1>1, <1>2, <2>2 DEF Expired
    <3>. QED
      BY <3>1, <3>2 DEF RequestInv
  <2>3. CASE ~(trim /\ r = Head(t)) /\ r # q
    <3>1. /\ redis'.rec[r] = redis.rec[r] /\ (r \in redis'.outstanding <=> r \in redis.outstanding)
          /\ r \in ToSet(redis'.terminal) <=> r \in ToSet(redis.terminal)
      BY <1>1, <1>3, <1>4, <2>3
    <3>2. Expired(r)' <=> Expired(r)
      BY <1>1 DEF Expired
    <3>. QED
      BY <1>1, <3>1, <3>2 DEF StoreOK, StoreInv, RequestInv, NoneAnew
  <2>. QED
    BY <2>1, <2>2, <2>3
<1>. QED
  BY <1>5, <1>6, <1>7, <1>8 DEF StoreOK, StoreInv

LEMMA FailedInv ==
    ASSUME StoreOK, NEW q \in Requests, NEW code \in Codes,
           redis' = Failed(redis, q, code), UNCHANGED clock, NoneAnew
    PROVE  /\ StoreOK'
           /\ \A r \in Requests :
                 \/ redis'.rec[r].code \in {"", redis.rec[r].code}
                 \/ r = q /\ redis'.rec[r].code = code
<1>. DEFINE record == [status |-> "failed", code |-> code]
<1>1. redis \in Stores /\ record \in Records /\ record.status = "failed" /\ record.code = code
  BY DEF StoreOK, StoreType, Records
<1>. HIDE DEF record
<1>2. CASE redis.rec[q].status \in {"queued", "dispatched"}
  <2>1. redis' = SettledAs(redis, q, record)
    BY <1>2 DEF Failed, record
  <2>2. StoreOK'
    BY <1>1, <1>2, <2>1, SettledInv
  <2>. DEFINE trimmed == Len(Append(redis.terminal, q)) > MaxTerminal
              oldest == Head(Append(redis.terminal, q))
  <2>3. redis'.rec = [x \in Requests |-> IF trimmed /\ x = oldest THEN Gone
                                        ELSE IF x = q THEN record ELSE redis.rec[x]]
    BY <1>1, <1>2, <2>1, SettledStore
  <2>. HIDE DEF trimmed, oldest
  <2>4. ASSUME NEW r \in Requests
        PROVE  redis'.rec[r] \in {Gone, redis.rec[r]} \/ (r = q /\ redis'.rec[r] = record)
    BY <2>3
  <2>. QED
    BY <1>1, <2>2, <2>4, RecordTypes
<1>3. CASE ~(redis.rec[q].status \in {"queued", "dispatched"})
  <2>1. redis' = redis
    BY <1>3 DEF Failed
  <2>2. StoreOK'
    BY <1>1, <2>1, StoreKept
  <2>. QED
    BY <2>1, <2>2
<1>. QED
  BY <1>2, <1>3

LEMMA CompletedInv ==
    ASSUME StoreOK, NEW q \in Requests, redis' = Completed(redis, q), UNCHANGED clock, NoneAnew
    PROVE  /\ StoreOK'
           /\ \A r \in Requests : redis'.rec[r].code \in {"", redis.rec[r].code}
<1>. DEFINE record == [status |-> "completed", code |-> ""]
<1>1. redis \in Stores /\ record \in Records /\ record.status = "completed" /\ record.code = ""
  BY DEF StoreOK, StoreType, Records, Codes
<1>. HIDE DEF record
<1>2. CASE redis.rec[q].status = "dispatched"
  <2>1. redis' = SettledAs(redis, q, record)
    BY <1>2 DEF Completed, record
  <2>2. StoreOK'
    BY <1>1, <1>2, <2>1, SettledInv
  <2>. DEFINE trimmed == Len(Append(redis.terminal, q)) > MaxTerminal
              oldest == Head(Append(redis.terminal, q))
  <2>3. redis'.rec = [x \in Requests |-> IF trimmed /\ x = oldest THEN Gone
                                        ELSE IF x = q THEN record ELSE redis.rec[x]]
    BY <1>1, <1>2, <2>1, SettledStore
  <2>. HIDE DEF trimmed, oldest
  <2>4. ASSUME NEW r \in Requests
        PROVE  redis'.rec[r] \in {Gone, record, redis.rec[r]}
    BY <2>3
  <2>. QED
    BY <1>1, <2>2, <2>4, RecordTypes
<1>3. CASE redis.rec[q].status # "dispatched"
  <2>1. redis' = redis
    BY <1>3 DEF Completed
  <2>. QED
    BY <1>1, <2>1, StoreKept
<1>. QED
  BY <1>2, <1>3

LEMMA DispatchedInv ==
    ASSUME StoreOK, NEW q \in Requests, redis' = MarkDispatched(redis, q), UNCHANGED clock, NoneAnew
    PROVE  /\ StoreOK'
           /\ \A r \in Requests : redis'.rec[r].code = redis.rec[r].code
<1>1. CASE redis.rec[q].status = "queued"
  <2>1. redis \in Stores /\ redis' = [redis EXCEPT !.rec[q].status = "dispatched"]
    BY <1>1 DEF StoreOK, StoreType, MarkDispatched
  <2>2. [redis.rec EXCEPT ![q].status = "dispatched"] \in [Requests -> Records]
    BY <2>1 DEF Stores, Records
  <2>3. /\ redis' \in Stores /\ UNCHANGED <<redis.born, redis.terminal, redis.outstanding>>
        /\ redis'.rec = [redis.rec EXCEPT ![q].status = "dispatched"]
    BY <2>1, <2>2 DEF Stores
  <2>4. \A r \in Requests : /\ redis'.rec[r].code = redis.rec[r].code
                            /\ redis'.rec[r].status =
                                   IF r = q THEN "dispatched" ELSE redis.rec[r].status
                            /\ r # q => redis'.rec[r] = redis.rec[r]
    BY <2>1, <2>3 DEF Stores, Records
  <2>5. StoreType'
    BY <2>3 DEF StoreOK, StoreType
  <2>6. redis.rec[q] # NoRecord
    BY <1>1, RecordTypes
  <2>7. ASSUME NEW r \in Requests PROVE RequestInv(r)'
    BY <1>1, <2>3, <2>4, <2>6, <2>7 DEF StoreOK, StoreInv, RequestInv, Expired, NoneAnew
  <2>. QED
    BY <2>3, <2>4, <2>5, <2>7 DEF StoreOK, StoreInv
<1>2. CASE redis.rec[q].status # "queued"
  <2>1. redis' = redis /\ redis \in Stores
    BY <1>2 DEF MarkDispatched, StoreOK, StoreType
  <2>. QED
    BY <2>1, StoreKept
<1>. QED
  BY <1>1, <1>2

\* An expired record is gone, and every id expires after it was created.
LEMMA ExpiredInv ==
    ASSUME StoreOK, clock < Len(redis.born), clock' = clock + 1, NoneAnew,
           redis' = [redis EXCEPT !.rec[redis.born[clock + 1]] = Gone]
    PROVE  /\ StoreOK'
           /\ \A r \in Requests : redis'.rec[r].code \in {"", redis.rec[r].code}
<1>. DEFINE n == clock + 1
            q == redis.born[n]
<1>1. /\ redis \in Stores /\ redis.born \in Seq(Requests) /\ clock \in 0..Len(redis.born)
      /\ Len(redis.born) \in Nat
  BY DEF StoreOK, StoreType, Stores
<1>2. /\ n \in 1..Len(redis.born) /\ clock' = n /\ q \in Requests /\ q \in ToSet(redis.born)
      /\ 1..n = 1..clock \cup {n}
  <2>1. n \in 1..Len(redis.born) /\ 1..n = 1..clock \cup {n}
    BY <1>1
  <2>. QED
    BY <1>1, <2>1 DEF ToSet
<1>3. redis' = [redis EXCEPT !.rec[q] = Gone]
  OBVIOUS
<1>. HIDE DEF n
<1>4. [redis.rec EXCEPT ![q] = Gone] \in [Requests -> Records]
  BY <1>1, <1>2, RecordTypes DEF Stores
<1>5. /\ redis' \in Stores /\ UNCHANGED <<redis.born, redis.terminal, redis.outstanding>>
      /\ redis'.rec = [redis.rec EXCEPT ![q] = Gone]
  BY <1>1, <1>3, <1>4 DEF Stores
<1>6. \A r \in Requests : redis'.rec[r] = IF r = q THEN Gone ELSE redis.rec[r]
  BY <1>1, <1>5 DEF Stores
<1>7. StoreType'
  BY <1>1, <1>2, <1>5 DEF StoreOK, StoreType
<1>8. \A r \in Requests : Expired(r)' => Expired(r) \/ r = q
  BY <1>2, <1>5 DEF Expired
<1>9. ASSUME NEW r \in Requests PROVE RequestInv(r)'
  <2>1. CASE r = q
    <3>1. call'[r].at # "new"
      BY <1>2, <2>1 DEF StoreOK, StoreInv, RequestInv, NoneAnew
    <3>. QED
      BY <1>6, <2>1, <3>1, RecordTypes DEF RequestInv
  <2>2. CASE r # q
    BY <1>5, <1>6, <1>8, <2>2 DEF StoreOK, StoreInv, RequestInv, NoneAnew
  <2>. QED
    BY <2>1, <2>2
<1>. QED
  BY <1>5, <1>6, <1>7, <1>9, RecordTypes DEF StoreOK, StoreInv

-----------------------------------------------------------------------------
(* Steps that move no job.                                                 *)

AcceptedStays == \A r \in Requests : call[r].at = "accepted" => call'[r].at = "accepted"

\* A handler that moves on takes back no acceptance and makes no call new.
LEMMA CallMoves ==
    ASSUME call \in [Jobs -> Calls], NEW j \in Jobs, NEW c \in Calls,
           c.at # "new", j \in Hooks \/ call[j].at # "accepted", call' = [call EXCEPT ![j] = c]
    PROVE  call' \in [Jobs -> Calls] /\ NoneAnew /\ AcceptedStays
BY JobsAssumption DEF NoneAnew, AcceptedStays, Jobs

LEMMA Answers ==
    ASSUME call \in [Jobs -> Calls], NEW j \in Jobs, NEW at, Answer(j, at),
           at \in {"stash", "lookup", "send", "reject", "accepted", "refused", "deduped", "lost"},
           j \in Hooks \/ call[j].at # "accepted"
    PROVE  call' \in [Jobs -> Calls] /\ NoneAnew /\ AcceptedStays
<1>. DEFINE c == [call[j] EXCEPT !.at = at]
<1>1. c \in Calls /\ c.at = at /\ call' = [call EXCEPT ![j] = c]
  BY DEF Calls, Answer
<1>. HIDE DEF c
<1>. QED
  BY <1>1, CallMoves

LEMMA CallSame ==
    ASSUME UNCHANGED call
    PROVE  NoneAnew /\ AcceptedStays
BY DEF NoneAnew, AcceptedStays

LEMMA FaultSpent ==
    ASSUME spent \in SpentTypes, spent.open <= spent.faults, Fault
    PROVE  spent' \in SpentTypes /\ spent'.open <= spent'.faults
<1>1. /\ spent.faults \in 0..MaxSpent /\ spent.stops \in 0..MaxSpent
      /\ spent.replays \in 0..MaxSpent
      /\ spent.open \in 0..MaxSpent /\ MaxSpent \in Nat
  BY LimitsAssumption DEF SpentTypes
<1>. DEFINE n == spent.faults + 1
<1>2. n \in 0..MaxSpent /\ spent.open <= n
  BY <1>1 DEF Fault, Spendable
<1>3. spent' = [spent EXCEPT !.faults = n]
  BY DEF Fault
<1>. HIDE DEF n
<1>. QED
  BY <1>2, <1>3 DEF SpentTypes

\* A lapse is counted for one body.
LEMMA LapseSpent ==
    ASSUME spent \in SpentTypes, NEW b \in Bodies, BodyExpires(b)
    PROVE  /\ spent' \in SpentTypes
           /\ spent'.faults = spent.faults /\ spent'.open = spent.open
           /\ spent'.replays = spent.replays
           /\ spent'.lapses[b] = spent.lapses[b] + 1
           /\ \A c \in Bodies : c # b => spent'.lapses[c] = spent.lapses[c]
<1>. DEFINE n == spent.lapses[b] + 1
            f == [spent.lapses EXCEPT ![b] = n]
<1>1. /\ spent.lapses \in [Bodies -> 0..MaxSpent] /\ MaxSpent \in Nat
      /\ spent.faults \in Nat /\ spent.stops \in Nat /\ spent.replays \in Nat
  BY LimitsAssumption DEF SpentTypes
<1>2. spent.faults + spent.stops + spent.replays + spent.lapses[b] < MaxSpent
  BY DEF BodyExpires, Spendable
<1>3. n \in 0..MaxSpent
  BY <1>1, <1>2
<1>4. /\ f \in [Bodies -> 0..MaxSpent] /\ f[b] = n
      /\ \A c \in Bodies : c # b => f[c] = spent.lapses[c]
  BY <1>1, <1>3
<1>5. spent' = [spent EXCEPT !.lapses = f]
  BY DEF BodyExpires
<1>6. n = spent.lapses[b] + 1
  OBVIOUS
<1>. HIDE DEF f, n
<1>7. spent' \in SpentTypes /\ spent'.lapses = f
  BY <1>4, <1>5 DEF SpentTypes
<1>8. /\ spent'.faults = spent.faults /\ spent'.open = spent.open
      /\ spent'.replays = spent.replays
  BY <1>5 DEF SpentTypes
<1>. QED
  BY <1>4, <1>6, <1>7, <1>8

\* Everything about workers, places and answers survives a step that moves no job.
LEMMA WorkerKept ==
    ASSUME NEW p \in Replicas, WorkerOK(p), worker'[p] = worker[p], queue'[p].ch = queue[p].ch
    PROVE  WorkerOK(p)'
BY DEF WorkerOK

LEMMA PlaceKept ==
    ASSUME NEW r \in Requests, PlaceOK(r), AcceptedStays, deliveries'[r] = deliveries[r],
           \A p \in Replicas : In(p, r)' => In(p, r),
           \A p \in Replicas : With(p, r)' => With(p, r) /\ worker'[p].sent = worker[p].sent
    PROVE  PlaceOK(r)'
BY DEF PlaceOK, AcceptedStays

LEMMA AnswerKept ==
    ASSUME NEW r \in Requests, AnswerOK(r), AcceptedStays, deliveries'[r] = deliveries[r],
           redis'.rec[r].code \in {"", redis.rec[r].code},
           \A p \in Replicas : In(p, r)' => In(p, r),
           \A p \in Replicas : With(p, r)' => With(p, r)
    PROVE  AnswerOK(r)'
BY DEF AnswerOK, AcceptedStays, Queued, In, With

LEMMA Kept ==
    ASSUME IInv, AcceptedStays, UNCHANGED <<worker, deliveries>>,
           \A p \in Replicas : queue'[p].ch = queue[p].ch
    PROVE  /\ \A p \in Replicas : WorkerOK(p)'
           /\ \A r \in Requests : PlaceOK(r)'
           /\ (\A r \in Requests : redis'.rec[r].code \in {"", redis.rec[r].code})
                 => \A r \in Requests : AnswerOK(r)'
<1>1. ASSUME NEW p \in Replicas PROVE WorkerOK(p)'
  BY WorkerKept DEF IInv
<1>2. \A p \in Replicas, r \in Requests : (In(p, r)' <=> In(p, r)) /\ (With(p, r)' <=> With(p, r))
  BY DEF In, With
<1>3. ASSUME NEW r \in Requests PROVE PlaceOK(r)'
  BY <1>2, PlaceKept DEF IInv
<1>4. ASSUME NEW r \in Requests, redis'.rec[r].code \in {"", redis.rec[r].code} PROVE AnswerOK(r)'
  BY <1>2, <1>4, AnswerKept DEF IInv
<1>. QED
  BY <1>1, <1>3, <1>4

-----------------------------------------------------------------------------
(* The handlers.                                                           *)

LEMMA SubmitInv ==
    ASSUME IInv, NEW r \in Requests, NEW p \in Replicas, Submit(r, p)
    PROVE  IInv'
<1>1. /\ StoreOK /\ call \in [Jobs -> Calls] /\ call[r].at = "new" /\ r \in Jobs
      /\ UNCHANGED <<clock, queue, worker, deliveries>>
  BY Parts DEF Submit, Jobs
<1>2. PICK at \in {"refused", "lookup", "lost"} : call' = [call EXCEPT ![r] = [at |-> at, on |-> p]]
  BY DEF Submit
<1>3. call' \in [Jobs -> Calls] /\ NoneAnew /\ AcceptedStays /\ call'[r].at # "new"
  <2>1. [at |-> at, on |-> p] \in Calls
    BY DEF Calls
  <2>2. call' \in [Jobs -> Calls] /\ NoneAnew /\ AcceptedStays
    BY <1>1, <1>2, <2>1, CallMoves
  <2>. QED
    BY <1>1, <1>2, <2>2
<1>4. StoreOK' /\ \A x \in Requests : redis'.rec[x].code \in {"", redis.rec[x].code}
  <2>1. CASE redis' = Pruned(redis)
    BY <1>1, <1>3, <2>1, PrunedInv, PrunedStore DEF StoreOK, StoreType
  <2>2. CASE RoomFor(redis) /\ redis' = Created(redis, r)
    <3>1. StoreOK'
      BY <1>1, <1>3, <2>2, CreatedInv
    <3>2. redis'.rec = [redis.rec EXCEPT ![r] = [NoRecord EXCEPT !.status = "queued"]]
      BY <1>1, <2>2, CreatedStore DEF StoreOK, StoreType
    <3>. QED
      BY <1>1, <3>1, <3>2, RecordTypes DEF StoreOK, StoreType, Stores
  <2>. QED
    BY <2>1, <2>2 DEF Submit
<1>5. spent' \in SpentTypes /\ spent'.open <= spent'.faults
  BY Parts, FaultSpent DEF Submit
<1>. QED
  BY <1>1, <1>3, <1>4, <1>5, Kept, Parts, PartsNext

LEMMA PostInv ==
    ASSUME IInv, NEW h \in Hooks, NEW p \in Replicas, Post(h, p)
    PROVE  IInv'
<1>1. /\ StoreOK /\ call \in [Jobs -> Calls] /\ h \in Jobs
      /\ UNCHANGED <<clock, queue, worker, deliveries>>
  BY Parts DEF Post, Jobs
<1>2. PICK at \in {"deduped", "stash"} : call' = [call EXCEPT ![h] = [at |-> at, on |-> p]]
  BY DEF Post
<1>3. call' \in [Jobs -> Calls] /\ NoneAnew /\ AcceptedStays
  <2>1. [at |-> at, on |-> p] \in Calls
    BY DEF Calls
  <2>. QED
    BY <1>1, <1>2, <2>1, CallMoves
<1>4. redis' \in Stores /\ UNCHANGED <<redis.rec, redis.born, redis.terminal, redis.outstanding>>
  <2>1. CASE redis' = [redis EXCEPT !.bodies = @ \cup {BodyOf[h]}]
    BY <1>1, <2>1 DEF StoreOK, StoreType, Stores, Bodies
  <2>2. CASE redis' = redis
    BY <1>1, <2>2 DEF StoreOK, StoreType
  <2>. QED
    BY <2>1, <2>2 DEF Post
<1>5. spent' \in SpentTypes /\ spent'.open <= spent'.faults
  <2>1. spent \in SpentTypes /\ spent.open <= spent.faults
    BY Parts
  <2>2. CASE Spendable /\ spent' = [spent EXCEPT !.faults = @ + 1, !.open = @ + 1]
    <3>. DEFINE n == spent.faults + 1
                m == spent.open + 1
    <3>1. /\ spent.faults \in 0..MaxSpent /\ spent.stops \in 0..MaxSpent
          /\ spent.replays \in 0..MaxSpent /\ spent.open \in 0..MaxSpent /\ MaxSpent \in Nat
      BY <2>1, LimitsAssumption DEF SpentTypes
    <3>2. n \in 0..MaxSpent /\ m \in 0..MaxSpent /\ m <= n
      BY <2>1, <2>2, <3>1 DEF Spendable
    <3>3. spent' = [spent EXCEPT !.faults = n, !.open = m]
      BY <2>2
    <3>. HIDE DEF n, m
    <3>. QED
      BY <2>1, <3>2, <3>3 DEF SpentTypes
  <2>. QED
    BY <2>1, <2>2 DEF Post
<1>6. StoreOK'
  BY <1>1, <1>3, <1>4, StoreKept
<1>. QED
  BY <1>1, <1>3, <1>4, <1>5, <1>6, Kept, Parts, PartsNext

LEMMA BodyExpiresInv ==
    ASSUME IInv, NEW b \in Bodies, BodyExpires(b)
    PROVE  IInv'
<1>1. /\ StoreOK /\ redis \in Stores /\ call \in [Jobs -> Calls]
      /\ spent \in SpentTypes /\ spent.open <= spent.faults
      /\ redis' = [redis EXCEPT !.bodies = @ \ {b}]
      /\ UNCHANGED <<clock, call, queue, worker, deliveries>>
  BY Parts DEF BodyExpires, StoreOK, StoreType
<1>2. redis' \in Stores /\ UNCHANGED <<redis.rec, redis.born, redis.terminal, redis.outstanding>>
  BY <1>1 DEF Stores
<1>3. NoneAnew /\ AcceptedStays
  BY <1>1, CallSame
<1>4. spent' \in SpentTypes /\ spent'.open <= spent'.faults
  BY <1>1, LapseSpent
<1>5. StoreOK'
  BY <1>1, <1>2, <1>3, StoreKept
<1>. QED
  BY <1>1, <1>2, <1>3, <1>4, <1>5, Kept, Parts, PartsNext

LEMMA StashInv ==
    ASSUME IInv, NEW h \in Hooks, Stash(h)
    PROVE  IInv'
<1>1. /\ StoreOK /\ call \in [Jobs -> Calls] /\ h \in Jobs
      /\ UNCHANGED <<clock, queue, worker, deliveries>>
  BY Parts DEF Stash, Jobs
<1>2. call' \in [Jobs -> Calls] /\ NoneAnew /\ AcceptedStays
  <2>1. PICK at \in {"lookup", "refused"} : Answer(h, at)
    BY DEF Stash
  <2>. QED
    BY <1>1, <2>1, Answers
<1>3. redis' \in Stores /\ UNCHANGED <<redis.rec, redis.born, redis.terminal, redis.outstanding>>
  <2>1. CASE redis' = [redis EXCEPT !.envelopes = @ \cup {h}]
    BY <1>1, <2>1 DEF StoreOK, StoreType, Stores
  <2>2. CASE redis' = redis
    BY <1>1, <2>2 DEF StoreOK, StoreType
  <2>. QED
    BY <2>1, <2>2 DEF Stash
<1>4. spent' \in SpentTypes /\ spent'.open <= spent'.faults
  BY Parts, FaultSpent DEF Stash
<1>5. StoreOK'
  BY <1>1, <1>2, <1>3, StoreKept
<1>. QED
  BY <1>1, <1>2, <1>3, <1>4, <1>5, Kept, Parts, PartsNext

LEMMA ReplayInv ==
    ASSUME IInv, NEW h \in Hooks, NEW p \in Replicas, Replay(h, p)
    PROVE  IInv'
<1>1. /\ StoreOK /\ call \in [Jobs -> Calls] /\ h \in Jobs
      /\ UNCHANGED <<redis, clock, queue, worker, deliveries>>
  BY Parts DEF Replay, Jobs
<1>2. call' \in [Jobs -> Calls] /\ NoneAnew /\ AcceptedStays
  <2>1. [at |-> "lookup", on |-> p] \in Calls
    BY DEF Calls
  <2>. QED
    BY <1>1, <2>1, CallMoves DEF Replay
<1>3. spent' \in SpentTypes /\ spent'.open <= spent'.faults
  <2>1. /\ spent \in SpentTypes /\ spent.open <= spent.faults /\ Spendable
        /\ spent' = [spent EXCEPT !.replays = @ + 1]
    BY Parts DEF Replay
  <2>. QED
    BY <2>1, LimitsAssumption DEF SpentTypes, Spendable
<1>4. StoreOK'
  BY <1>1, <1>2, StoreKept DEF StoreOK, StoreType
<1>. QED
  BY <1>1, <1>2, <1>3, <1>4, Kept, Parts, PartsNext

LEMMA LookupInv ==
    ASSUME IInv, NEW j \in Jobs, Lookup(j)
    PROVE  IInv'
<1>. DEFINE p == call[j].on
<1>1. /\ StoreOK /\ call \in [Jobs -> Calls] /\ call[j].at = "lookup"
      /\ queue \in [Replicas -> Queues]
      /\ UNCHANGED <<redis, clock, worker, deliveries, spent>>
      /\ \A q \in Replicas : Len(queue[q].ch) <= QueueDepth
  BY Parts DEF Lookup
<1>2. call' \in [Jobs -> Calls] /\ NoneAnew /\ AcceptedStays
  <2>1. PICK at \in {"reject", "send"} : Answer(j, at)
    BY DEF Lookup
  <2>. QED
    BY <1>1, <2>1, Answers
<1>3. /\ queue' \in [Replicas -> Queues]
      /\ \A q \in Replicas : queue'[q].ch = queue[q].ch
  <2>1. CASE queue' = queue
    BY <1>1, <2>1
  <2>2. CASE queue' = [queue EXCEPT ![p].channel = IF @ = "none" THEN "open" ELSE @]
    BY <1>1, <2>2 DEF Queues
  <2>. QED
    BY <2>1, <2>2 DEF Lookup
<1>4. StoreOK'
  BY <1>1, <1>2, StoreKept DEF StoreOK, StoreType
<1>. QED
  BY <1>1, <1>2, <1>3, <1>4, Kept, Parts, PartsNext

\* The one step that puts a request in a place: its handler was still sending, so
\* it had none.
LEMMA SendInv ==
    ASSUME IInv, NEW j \in Jobs, Send(j)
    PROVE  IInv'
<1>. DEFINE p == call[j].on
<1>1. /\ StoreOK /\ call \in [Jobs -> Calls] /\ call[j].at = "send"
      /\ queue \in [Replicas -> Queues]
      /\ UNCHANGED <<redis, clock, worker, deliveries, spent>>
      /\ \A q \in Replicas : Len(queue[q].ch) <= QueueDepth
  BY Parts DEF Send
<1>2. call' \in [Jobs -> Calls] /\ NoneAnew /\ AcceptedStays
  <2>1. PICK at \in {"lost", "reject", "accepted"} : Answer(j, at)
    BY DEF Send
  <2>. QED
    BY <1>1, <2>1, Answers
<1>3. StoreOK'
  BY <1>1, <1>2, StoreKept DEF StoreOK, StoreType
<1>4. CASE queue' = queue
  <2>1. /\ \A q \in Replicas : WorkerOK(q)'
        /\ \A r \in Requests : PlaceOK(r)'
        /\ \A r \in Requests : AnswerOK(r)'
    BY <1>1, <1>2, <1>4, Kept
  <2>. QED
    BY <1>1, <1>2, <1>3, <1>4, <2>1, Parts, PartsNext
<1>5. CASE queue' # queue
  <2>1. /\ Len(queue[p].ch) < QueueDepth /\ Answer(j, "accepted")
        /\ queue' = [queue EXCEPT ![p].ch = Append(@, j)]
    <3>1. CASE queue[p].channel = "closed"
      BY <1>5, <3>1 DEF Send
    <3>2. CASE queue[p].channel # "closed" /\ Len(queue[p].ch) >= QueueDepth
      BY <1>5, <3>2 DEF Send
    <3>3. CASE queue[p].channel # "closed" /\ ~(Len(queue[p].ch) >= QueueDepth)
      <4>1. Answer(j, "accepted") /\ queue' = [queue EXCEPT ![p].ch = Append(@, j)]
        BY <3>3 DEF Send
      <4>2. p \in Replicas
        BY <1>1, <1>5, <4>1
      <4>3. Len(queue[p].ch) \in Nat /\ QueueDepth \in Nat
        BY <1>1, <4>2, LimitsAssumption DEF Queues
      <4>. QED
        BY <3>3, <4>1, <4>3
    <3>. QED
      BY <3>1, <3>2, <3>3
  <2>2. p \in Replicas
    BY <1>1, <1>5, <2>1
  <2>3. /\ queue[p].ch \in Seq(Jobs) /\ Len(queue[p].ch) \in Nat /\ QueueDepth \in Nat
    BY <1>1, <2>2, LimitsAssumption DEF Queues
  <2>4. /\ Append(queue[p].ch, j) \in Seq(Jobs) /\ Len(Append(queue[p].ch, j)) <= QueueDepth
        /\ ToSet(Append(queue[p].ch, j)) = ToSet(queue[p].ch) \cup {j}
    BY <2>1, <2>3, Appended
  <2>5. /\ queue' \in [Replicas -> Queues] /\ queue'[p].ch = Append(queue[p].ch, j)
        /\ \A q \in Replicas : q # p => queue'[q] = queue[q]
    BY <1>1, <2>1, <2>2, <2>4 DEF Queues
  <2>6. \A q \in Replicas : Len(queue'[q].ch) <= QueueDepth
    BY <1>1, <2>4, <2>5
  <2>7. j \in Requests => \A q \in Replicas : ~In(q, j) /\ ~With(q, j)
    BY <1>1 DEF IInv, PlaceOK
  <2>8. j \in Requests => deliveries[j] = 0 /\ redis.rec[j].code # "agent_unavailable"
    BY <1>1 DEF IInv, AnswerOK
  <2>9. call'[j].at = "accepted"
    BY <1>1, <2>1 DEF Answer, Calls
  <2>10. /\ \A q \in Replicas, r \in Requests : In(q, r)' <=> In(q, r) \/ (q = p /\ r = j)
         /\ \A q \in Replicas, r \in Requests : With(q, r)' <=> With(q, r)
    BY <1>1, <2>4, <2>5 DEF In, With
  <2>11. ASSUME NEW q \in Replicas PROVE WorkerOK(q)'
    <3>1. CASE q # p
      BY <1>1, <2>5, <3>1, WorkerKept DEF IInv
    <3>2. CASE q = p
      <4>1. Once(queue[p].ch) /\ (j \in ToSet(queue[p].ch) => j \notin Requests)
        BY <2>2, <2>7 DEF IInv, WorkerOK, In
      <4>2. Once(queue'[p].ch)
        BY <2>3, <2>5, <4>1, OnceAppended
      <4>. QED
        BY <1>1, <3>2, <4>2 DEF IInv, WorkerOK
    <3>. QED
      BY <3>1, <3>2
  <2>12. ASSUME NEW r \in Requests PROVE PlaceOK(r)'
    <3>1. CASE r = j
      BY <1>1, <2>2, <2>7, <2>8, <2>9, <2>10, <3>1 DEF PlaceOK
    <3>2. CASE r # j
      BY <1>1, <1>2, <2>10, <3>2, PlaceKept DEF IInv
    <3>. QED
      BY <3>1, <3>2
  <2>13. ASSUME NEW r \in Requests PROVE AnswerOK(r)'
    <3>1. CASE r = j
      BY <1>1, <2>8, <2>9, <3>1 DEF AnswerOK
    <3>2. CASE r # j
      BY <1>1, <1>2, <2>10, <3>2, AnswerKept DEF IInv
    <3>. QED
      BY <3>1, <3>2
  <2>. QED
    BY <1>1, <1>2, <1>3, <2>5, <2>6, <2>11, <2>12, <2>13, Parts, PartsNext
<1>. QED
  BY <1>4, <1>5

LEMMA RejectInv ==
    ASSUME IInv, NEW j \in Jobs, Reject(j)
    PROVE  IInv'
<1>1. /\ StoreOK /\ call \in [Jobs -> Calls] /\ call[j].at = "reject"
      /\ UNCHANGED <<clock, queue, worker, deliveries>>
  BY Parts DEF Reject
<1>2. call' \in [Jobs -> Calls] /\ NoneAnew /\ AcceptedStays
  BY <1>1, Answers DEF Reject
<1>3. /\ StoreOK'
      /\ \A r \in Requests : redis'.rec[r].code \in {"", redis.rec[r].code, "delivery_failed"}
  <2>1. CASE redis' = redis
    BY <1>1, <1>2, <2>1, StoreKept DEF StoreOK, StoreType
  <2>2. CASE j \in Requests /\ redis' = Failed(redis, j, "delivery_failed")
    BY <1>1, <1>2, <2>2, FailedInv DEF Codes
  <2>. QED
    BY <2>1, <2>2 DEF Reject
<1>4. spent' \in SpentTypes /\ spent'.open <= spent'.faults
  BY Parts, FaultSpent DEF Reject
<1>5. /\ \A p \in Replicas : WorkerOK(p)'
      /\ \A r \in Requests : PlaceOK(r)'
  BY <1>1, <1>2, Kept
<1>6. ASSUME NEW r \in Requests PROVE AnswerOK(r)'
  <2>1. (redis'.rec[r].code = "agent_unavailable" => redis.rec[r].code = "agent_unavailable")
    BY <1>3
  <2>. QED
    BY <1>1, <1>2, <2>1 DEF IInv, AnswerOK, AcceptedStays, Queued
<1>. QED
  BY <1>1, <1>2, <1>3, <1>4, <1>5, <1>6, Parts, PartsNext

-----------------------------------------------------------------------------
(* The workers.                                                            *)

LEMMA WorkerTyped ==
    ASSUME IInv, NEW p \in Replicas
    PROVE  /\ worker \in [Replicas -> Workers] /\ worker[p] \in Workers
           /\ queue \in [Replicas -> Queues] /\ queue[p] \in Queues
           /\ worker[p].at # "idle" => worker[p].job \in Jobs
BY Parts DEF WorkerOK, Workers

LEMMA IdleTyped ==
    /\ IdleWorker \in Workers /\ IdleWorker.job = None /\ IdleWorker.at = "idle"
    /\ IdleWorker.outcome = "" /\ ~IdleWorker.sent
BY DEF IdleWorker, Workers

\* A step of a worker that keeps its job, or drops it, and delivers nothing.
LEMMA WorkerMoves ==
    ASSUME IInv, NEW p \in Replicas, NEW w \in Workers, Does(p, w),
           w.job = worker[p].job \/ w.job = None,
           w.job # None => w.sent = worker[p].sent,
           w.at = "idle" <=> w.job = None,
           w.at = "wait" \/ w.outcome = "agent_unavailable" => ~w.sent,
           w.at # "record" => w.outcome = "",
           UNCHANGED <<call, queue, deliveries>>
    PROVE  /\ worker' \in [Replicas -> Workers] /\ NoneAnew
           /\ \A q \in Replicas : WorkerOK(q)'
           /\ \A r \in Requests : PlaceOK(r)'
           /\ \A r \in Requests : redis'.rec[r].code \in {"", redis.rec[r].code} => AnswerOK(r)'
<1>1. /\ worker \in [Replicas -> Workers] /\ worker' = [worker EXCEPT ![p] = w]
      /\ NoneAnew /\ AcceptedStays
  BY WorkerTyped, CallSame DEF Does
<1>2. /\ worker' \in [Replicas -> Workers] /\ worker'[p] = w
      /\ \A q \in Replicas : q # p => worker'[q] = worker[q]
  BY <1>1
<1>3. ASSUME NEW q \in Replicas PROVE WorkerOK(q)'
  BY <1>2 DEF IInv, WorkerOK
<1>4. ASSUME NEW r \in Requests, NEW q \in Replicas
      PROVE  /\ In(q, r)' <=> In(q, r)
             /\ With(q, r)' => With(q, r) /\ worker'[q].sent = worker[q].sent
  BY <1>2, JobsAssumption DEF In, With
<1>5. ASSUME NEW r \in Requests PROVE PlaceOK(r)'
  BY <1>1, <1>4, PlaceKept DEF IInv
<1>6. ASSUME NEW r \in Requests, redis'.rec[r].code \in {"", redis.rec[r].code} PROVE AnswerOK(r)'
  BY <1>1, <1>4, <1>6, AnswerKept DEF IInv
<1>. QED
  BY <1>1, <1>2, <1>3, <1>5, <1>6

\* The head of a channel goes to the worker, and is nowhere else.
LEMMA TakeInv ==
    ASSUME IInv, NEW p \in Replicas, Take(p)
    PROVE  IInv'
<1>. DEFINE j == Head(queue[p].ch)
            w == worker'[p]
<1>1. /\ StoreOK /\ worker[p].at = "idle" /\ queue[p].ch # <<>>
      /\ queue' = [queue EXCEPT ![p].ch = Tail(@)]
      /\ UNCHANGED <<redis, clock, call, deliveries, spent>>
      /\ \A q \in Replicas : Len(queue[q].ch) <= QueueDepth
      /\ worker \in [Replicas -> Workers] /\ queue \in [Replicas -> Queues] /\ QueueDepth \in Nat
  BY Parts, LimitsAssumption DEF Take
<1>2. /\ queue[p].ch \in Seq(Jobs) /\ j \in Jobs /\ Tail(queue[p].ch) \in Seq(Jobs)
      /\ Len(Tail(queue[p].ch)) = Len(queue[p].ch) - 1
      /\ ToSet(queue[p].ch) = ToSet(Tail(queue[p].ch)) \cup {j}
      /\ Once(Tail(queue[p].ch)) /\ (j \in Requests => j \notin ToSet(Tail(queue[p].ch)))
  <2>1. queue[p].ch \in Seq(Jobs) /\ Once(queue[p].ch)
    BY <1>1 DEF Queues, IInv, WorkerOK
  <2>. QED
    BY <1>1, <2>1, Tailed, OnceTailed
<1>. HIDE DEF j
<1>3. /\ queue' \in [Replicas -> Queues] /\ queue'[p].ch = Tail(queue[p].ch)
      /\ \A q \in Replicas : q # p => queue'[q] = queue[q]
  BY <1>1, <1>2 DEF Queues
<1>4. \A q \in Replicas : Len(queue'[q].ch) <= QueueDepth
  <2>1. Len(queue[p].ch) \in Nat /\ Len(queue[p].ch) <= QueueDepth
    BY <1>1, <1>2
  <2>. QED
    BY <1>1, <1>2, <1>3, <2>1
<1>5. /\ w \in Workers /\ w.job = j /\ w.at \in {"wait", "record"} /\ ~w.sent
      /\ w.at = "wait" => w.outcome = ""
      /\ \A q \in Replicas : q # p => worker'[q] = worker[q]
      /\ worker' \in [Replicas -> Workers]
  <2>. DEFINE v == [IdleWorker EXCEPT !.job = j, !.at = "wait"]
              u == [v EXCEPT !.at = "record", !.outcome = "agent_unavailable"]
  <2>1. /\ v \in Workers /\ v.job = j /\ v.at = "wait" /\ ~v.sent /\ v.outcome = ""
        /\ u \in Workers /\ u.job = j /\ u.at = "record" /\ ~u.sent
    BY <1>2 DEF IdleWorker, Workers
  <2>2. \E x \in {u, v} : worker' = [worker EXCEPT ![p] = x]
    BY DEF Take, Does, j
  <2>. HIDE DEF u, v
  <2>. QED
    BY <1>1, <2>1, <2>2
<1>. HIDE DEF w
<1>6. /\ NoneAnew /\ AcceptedStays
      /\ worker[p].job = None
  BY <1>1, CallSame DEF IInv, WorkerOK
<1>7. StoreOK'
  BY <1>1, <1>6, StoreKept DEF StoreOK, StoreType
<1>8. j \in Jobs /\ j # None
  BY <1>2, JobsAssumption DEF Jobs
<1>9. ASSUME NEW q \in Replicas PROVE WorkerOK(q)'
  <2>1. CASE q # p
    BY <1>3, <1>5, <2>1, WorkerKept DEF IInv
  <2>2. CASE q = p
    BY <1>2, <1>3, <1>5, <1>8, <2>2 DEF WorkerOK, w
  <2>. QED
    BY <2>1, <2>2
<1>10. ASSUME NEW r \in Requests, NEW q \in Replicas
       PROVE  /\ In(q, r)' => In(q, r)
              /\ q = p /\ r = j => ~In(q, r)'
              /\ With(q, r)' <=> (q = p /\ r = j) \/ (q # p /\ With(q, r))
              /\ q # p => worker'[q].sent = worker[q].sent
  BY <1>2, <1>3, <1>5, <1>10 DEF In, With, w
<1>11. In(p, j)
  BY <1>2 DEF In
<1>12. ASSUME NEW r \in Requests PROVE PlaceOK(r)'
  <2>1. PlaceOK(r)
    BY DEF IInv
  <2>2. CASE r = j
    <3>1. \A q \in Replicas : ~In(q, r)' /\ (With(q, r)' => q = p)
      BY <1>10, <1>11, <2>1, <2>2 DEF PlaceOK
    <3>2. deliveries'[r] = 0 /\ ~worker'[p].sent /\ call'[r].at = "accepted"
      BY <1>1, <1>5, <1>11, <2>1, <2>2 DEF PlaceOK, w
    <3>. QED
      BY <3>1, <3>2 DEF PlaceOK
  <2>3. CASE r # j
    BY <1>1, <1>6, <1>10, <2>1, <2>3, PlaceKept
  <2>. QED
    BY <2>2, <2>3
<1>13. ASSUME NEW r \in Requests PROVE AnswerOK(r)'
  <2>1. AnswerOK(r)
    BY DEF IInv
  <2>2. CASE r = j
    <3>1. redis.rec[r].code # "agent_unavailable"
      BY <1>11, <2>1, <2>2 DEF AnswerOK, Queued, In
    <3>. QED
      BY <1>1, <2>1, <3>1 DEF AnswerOK
  <2>3. CASE r # j
    BY <1>1, <1>6, <1>10, <2>1, <2>3, AnswerKept
  <2>. QED
    BY <2>2, <2>3
<1>. QED
  BY <1>1, <1>3, <1>4, <1>5, <1>7, <1>9, <1>12, <1>13, Parts, PartsNext

LEMMA DeadlineInv ==
    ASSUME IInv, NEW p \in Replicas, Deadline(p)
    PROVE  IInv'
<1>. DEFINE w == [worker[p] EXCEPT !.late = TRUE]
<1>1. /\ Does(p, w) /\ UNCHANGED <<redis, clock, call, queue, deliveries, spent>>
      /\ worker[p] \in Workers /\ WorkerOK(p) /\ StoreOK
  BY WorkerTyped, Parts DEF Deadline
<1>2. /\ w \in Workers /\ w.job = worker[p].job /\ w.sent = worker[p].sent
      /\ w.at = worker[p].at /\ w.outcome = worker[p].outcome
  BY <1>1 DEF Workers
<1>. HIDE DEF w
<1>3. /\ worker' \in [Replicas -> Workers] /\ NoneAnew
      /\ \A q \in Replicas : WorkerOK(q)'
      /\ \A r \in Requests : PlaceOK(r)'
      /\ \A r \in Requests : AnswerOK(r)'
  BY <1>1, <1>2, WorkerMoves DEF WorkerOK
<1>4. StoreOK'
  BY <1>1, <1>3, StoreKept DEF StoreOK, StoreType
<1>. QED
  BY <1>1, <1>3, <1>4, Parts, PartsNext

LEMMA WaitEndsInv ==
    ASSUME IInv, NEW p \in Replicas, WaitEnds(p)
    PROVE  IInv'
<1>1. /\ UNCHANGED <<redis, clock, call, queue, deliveries, spent>> /\ worker[p].at = "wait"
      /\ worker[p] \in Workers /\ WorkerOK(p) /\ StoreOK
  BY WorkerTyped, Parts DEF WaitEnds
<1>. DEFINE u == [worker[p] EXCEPT !.at = "deliver"]
            v == [worker[p] EXCEPT !.at = "record", !.outcome = "agent_unavailable"]
<1>2. PICK w \in {u, v} : Does(p, w)
  BY DEF WaitEnds, Outcome
<1>3. /\ w \in Workers /\ w.job = worker[p].job /\ w.sent = worker[p].sent /\ ~w.sent
      /\ w.at \in {"deliver", "record"} /\ (w.at # "record" => w.outcome = "")
  BY <1>1, <1>2 DEF Workers, WorkerOK
<1>. HIDE DEF u, v
<1>4. /\ worker' \in [Replicas -> Workers] /\ NoneAnew
      /\ \A q \in Replicas : WorkerOK(q)'
      /\ \A r \in Requests : PlaceOK(r)'
      /\ \A r \in Requests : AnswerOK(r)'
  BY <1>1, <1>2, <1>3, WorkerMoves DEF WorkerOK
<1>5. StoreOK'
  BY <1>1, <1>4, StoreKept DEF StoreOK, StoreType
<1>. QED
  BY <1>1, <1>4, <1>5, Parts, PartsNext

\* The one step that delivers: the worker holds the request and has not sent it.
LEMMA PromptInv ==
    ASSUME IInv, NEW p \in Replicas, Prompt(p)
    PROVE  IInv'
<1>. DEFINE j == worker[p].job
            w == [worker[p] EXCEPT !.sent = TRUE]
<1>1. /\ worker[p].at = "deliver" /\ ~worker[p].sent /\ worker' = [worker EXCEPT ![p] = w]
      /\ deliveries' = [deliveries EXCEPT ![j] = @ + 1]
      /\ UNCHANGED <<redis, clock, call, queue, spent>>
      /\ worker \in [Replicas -> Workers] /\ worker[p] \in Workers /\ j \in Jobs
      /\ deliveries \in [Jobs -> Nat] /\ StoreOK
  BY WorkerTyped, Parts DEF Prompt, Does
<1>2. /\ w \in Workers /\ w.job = j /\ w.sent /\ w.at = "deliver" /\ w.outcome = worker[p].outcome
  BY <1>1 DEF Workers
<1>. HIDE DEF w
<1>3. /\ worker' \in [Replicas -> Workers] /\ worker'[p] = w
      /\ \A q \in Replicas : q # p => worker'[q] = worker[q]
  BY <1>1, <1>2
<1>4. /\ deliveries' \in [Jobs -> Nat] /\ deliveries'[j] = deliveries[j] + 1
      /\ \A r \in Requests : r # j => deliveries'[r] = deliveries[r]
  BY <1>1 DEF Jobs
<1>5. NoneAnew /\ AcceptedStays
  BY <1>1, CallSame
<1>6. StoreOK'
  BY <1>1, <1>5, StoreKept DEF StoreOK, StoreType
<1>7. ASSUME NEW q \in Replicas PROVE WorkerOK(q)'
  BY <1>1, <1>2, <1>3 DEF IInv, WorkerOK
<1>8. \A q \in Replicas, r \in Requests : (In(q, r)' <=> In(q, r)) /\ (With(q, r)' <=> With(q, r))
  BY <1>1, <1>2, <1>3 DEF In, With
<1>9. ASSUME NEW r \in Requests PROVE PlaceOK(r)' /\ AnswerOK(r)'
  <2>1. PlaceOK(r) /\ AnswerOK(r)
    BY DEF IInv
  <2>2. CASE r = j
    <3>1. With(p, r) /\ call[r].at = "accepted" /\ deliveries[r] = 0
      BY <1>1, <2>1, <2>2 DEF PlaceOK, With
    <3>2. redis.rec[r].code # "agent_unavailable"
      BY <2>1, <3>1 DEF AnswerOK, Queued, With
    <3>3. deliveries'[r] = 1 /\ call'[r].at = "accepted" /\ redis'.rec[r].code # "agent_unavailable"
      BY <1>1, <1>4, <2>2, <3>1, <3>2
    <3>4. \A q \in Replicas : ~In(q, r)' /\ (With(q, r)' => q = p)
      BY <1>8, <2>1, <3>1 DEF PlaceOK
    <3>. QED
      BY <1>2, <1>3, <3>3, <3>4 DEF PlaceOK, AnswerOK
  <2>3. CASE r # j
    <3>1. \A q \in Replicas : With(q, r) => q # p
      BY <2>3 DEF With
    <3>. QED
      BY <1>1, <1>3, <1>4, <1>5, <1>8, <2>1, <2>3, <3>1, PlaceKept, AnswerKept
  <2>. QED
    BY <2>2, <2>3
<1>. QED
  BY <1>1, <1>3, <1>4, <1>6, <1>7, <1>9, Parts, PartsNext

LEMMA DeliverEndsInv ==
    ASSUME IInv, NEW p \in Replicas, DeliverEnds(p)
    PROVE  IInv'
<1>1. /\ UNCHANGED <<redis, clock, call, queue, deliveries, spent>> /\ worker[p].at = "deliver"
      /\ worker[p] \in Workers /\ WorkerOK(p) /\ StoreOK
  BY WorkerTyped, Parts DEF DeliverEnds
<1>2. PICK o \in {"dispatched", "delivery_failed"} :
         Does(p, [worker[p] EXCEPT !.at = "record", !.outcome = o])
  BY DEF DeliverEnds, Outcome
<1>. DEFINE w == [worker[p] EXCEPT !.at = "record", !.outcome = o]
<1>3. /\ w \in Workers /\ w.job = worker[p].job /\ w.sent = worker[p].sent
      /\ w.at = "record" /\ w.outcome = o /\ Does(p, w)
  BY <1>1, <1>2 DEF Workers
<1>. HIDE DEF w
<1>4. /\ worker' \in [Replicas -> Workers] /\ NoneAnew
      /\ \A q \in Replicas : WorkerOK(q)'
      /\ \A r \in Requests : PlaceOK(r)'
      /\ \A r \in Requests : AnswerOK(r)'
  BY <1>1, <1>3, WorkerMoves DEF WorkerOK
<1>5. StoreOK'
  BY <1>1, <1>4, StoreKept DEF StoreOK, StoreType
<1>. QED
  BY <1>1, <1>4, <1>5, Parts, PartsNext

\* Only an outcome of a worker that sent nothing says agent_unavailable.
LEMMA RecordInv ==
    ASSUME IInv, NEW p \in Replicas, Record(p)
    PROVE  IInv'
<1>. DEFINE j == worker[p].job
<1>1. /\ worker[p].at = "record" /\ Does(p, IdleWorker)
      /\ UNCHANGED <<clock, call, queue, deliveries>>
      /\ worker[p] \in Workers /\ worker \in [Replicas -> Workers] /\ j \in Jobs /\ StoreOK
  BY WorkerTyped, Parts DEF Record
<1>2. /\ worker' \in [Replicas -> Workers] /\ NoneAnew
      /\ \A q \in Replicas : WorkerOK(q)'
      /\ \A r \in Requests : PlaceOK(r)'
      /\ \A r \in Requests : redis'.rec[r].code \in {"", redis.rec[r].code} => AnswerOK(r)'
  BY <1>1, IdleTyped, WorkerMoves
<1>3. /\ StoreOK'
      /\ \A r \in Requests : \/ redis'.rec[r].code \in {"", redis.rec[r].code}
                             \/ r = j /\ redis'.rec[r].code = worker[p].outcome
  <2>1. CASE redis' = redis
    <3>1. StoreOK'
      BY <1>1, <1>2, <2>1, StoreKept DEF StoreOK, StoreType
    <3>. QED
      BY <2>1, <3>1
  <2>2. CASE j \in Requests /\ worker[p].outcome = "dispatched" /\ redis' = MarkDispatched(redis, j)
    BY <1>1, <1>2, <2>2, DispatchedInv
  <2>3. CASE /\ j \in Requests /\ worker[p].outcome # "dispatched"
             /\ redis' = Failed(redis, j, worker[p].outcome)
    <3>. DEFINE o == worker[p].outcome
    <3>1. o \in Codes /\ StoreOK /\ NoneAnew /\ UNCHANGED clock
      BY <1>1, <1>2, <2>3 DEF Workers, Codes
    <3>2. j \in Requests /\ redis' = Failed(redis, j, o)
      BY <2>3
    <3>. HIDE DEF j, o
    <3>3. /\ StoreOK'
          /\ \A r \in Requests : \/ redis'.rec[r].code \in {"", redis.rec[r].code}
                                 \/ r = j /\ redis'.rec[r].code = o
      BY <3>1, <3>2, FailedInv
    <3>. QED
      BY <3>3 DEF o
  <2>4. \/ redis' = redis
        \/ /\ j \in Requests
           /\ redis' = IF worker[p].outcome = "dispatched" THEN MarkDispatched(redis, j)
                       ELSE Failed(redis, j, worker[p].outcome)
    <3>1. j \in Hooks \/ j \in Requests
      BY <1>1 DEF Jobs
    <3>. QED
      BY <3>1 DEF Record
  <2>. QED
    BY <2>1, <2>2, <2>3, <2>4
<1>4. spent' \in SpentTypes /\ spent'.open <= spent'.faults
  BY Parts, FaultSpent DEF Record
<1>5. ASSUME NEW r \in Requests PROVE AnswerOK(r)'
  <2>1. CASE redis'.rec[r].code \in {"", redis.rec[r].code}
    BY <1>2, <2>1
  <2>2. CASE redis'.rec[r].code \notin {"", redis.rec[r].code}
    <3>1. r = j /\ redis'.rec[r].code = worker[p].outcome /\ With(p, r)
      BY <1>3, <2>2 DEF With
    <3>2. PlaceOK(r) /\ AnswerOK(r) /\ WorkerOK(p)
      BY DEF IInv
    <3>3. call[r].at = "accepted" /\ deliveries[r] = IF worker[p].sent THEN 1 ELSE 0
      BY <3>1, <3>2 DEF PlaceOK
    <3>4. redis'.rec[r].code = "agent_unavailable" => deliveries[r] = 0
      BY <3>1, <3>2, <3>3 DEF WorkerOK
    <3>5. worker' = [worker EXCEPT ![p] = IdleWorker] /\ IdleWorker.job # r
      BY <1>1, IdleTyped, JobsAssumption DEF Does
    <3>6. ~Queued(r)'
      BY <1>1, <3>1, <3>2, <3>5 DEF Queued, PlaceOK, In, With
    <3>. QED
      BY <1>1, <3>2, <3>3, <3>4, <3>6 DEF AnswerOK
  <2>. QED
    BY <2>1, <2>2
<1>. QED
  BY <1>1, <1>2, <1>3, <1>4, <1>5, Parts, PartsNext

-----------------------------------------------------------------------------
(* Replies, expiry, and the processes.                                     *)

LEMMA ReplyInv ==
    ASSUME IInv, NEW r \in Requests, Reply(r)
    PROVE  IInv'
<1>1. /\ StoreOK /\ redis' = Completed(redis, r)
      /\ UNCHANGED <<clock, call, queue, worker, deliveries, spent>>
  BY Parts DEF Reply
<1>2. NoneAnew /\ AcceptedStays
  BY <1>1, CallSame
<1>3. StoreOK' /\ \A x \in Requests : redis'.rec[x].code \in {"", redis.rec[x].code}
  BY <1>1, <1>2, CompletedInv
<1>. QED
  BY <1>1, <1>2, <1>3, Kept, Parts, PartsNext

LEMMA ExpireInv ==
    ASSUME IInv, Expire
    PROVE  IInv'
<1>1. /\ StoreOK /\ clock < Len(redis.born) /\ clock' = clock + 1
      /\ redis' = [redis EXCEPT !.rec[redis.born[clock + 1]] = Gone]
      /\ UNCHANGED <<call, queue, worker, deliveries, spent>>
  BY Parts DEF Expire
<1>2. NoneAnew /\ AcceptedStays
  BY <1>1, CallSame
<1>3. StoreOK' /\ \A x \in Requests : redis'.rec[x].code \in {"", redis.rec[x].code}
  BY <1>1, <1>2, ExpiredInv
<1>. QED
  BY <1>1, <1>2, <1>3, Kept, Parts, PartsNext

\* Queue.Stop touches neither the jobs in a channel nor those under way.
LEMMA StopsKept ==
    ASSUME IInv, NEW p \in Replicas, NEW q \in Queues, queue' = [queue EXCEPT ![p] = q],
           q.ch = queue[p].ch, UNCHANGED <<redis, clock, call, worker, deliveries>>,
           spent' \in SpentTypes, spent'.open <= spent'.faults
    PROVE  IInv'
<1>1. /\ StoreOK /\ queue \in [Replicas -> Queues] /\ NoneAnew /\ AcceptedStays
      /\ \A k \in Replicas : Len(queue[k].ch) <= QueueDepth
  BY Parts, CallSame
<1>2. queue' \in [Replicas -> Queues] /\ \A k \in Replicas : queue'[k].ch = queue[k].ch
  BY <1>1
<1>3. StoreOK'
  BY <1>1, StoreKept DEF StoreOK, StoreType
<1>. QED
  BY <1>1, <1>2, <1>3, Kept, Parts, PartsNext

LEMMA StopsInv ==
    ASSUME IInv, NEW p \in Replicas, Stop(p) \/ Stopping(p)
    PROVE  IInv'
<1>1. /\ queue \in [Replicas -> Queues] /\ queue[p] \in Queues
      /\ spent \in SpentTypes /\ spent.open <= spent.faults
  BY Parts
<1>2. CASE Stop(p)
  <2>. DEFINE q == [queue[p] EXCEPT !.stop = "marked"]
  <2>1. q \in Queues /\ q.ch = queue[p].ch
    BY <1>1 DEF Queues
  <2>2. queue' = [queue EXCEPT ![p] = q] /\ UNCHANGED <<redis, clock, call, worker, deliveries>>
    BY <1>2 DEF Stop, StopTo
  <2>3. spent' \in SpentTypes /\ spent'.open <= spent'.faults
    BY <1>1, <1>2, LimitsAssumption DEF Stop, Spendable, SpentTypes
  <2>. HIDE DEF q
  <2>. QED
    BY <2>1, <2>2, <2>3, StopsKept
<1>3. CASE CloseChannels(p)
  <2>. DEFINE q == [queue[p] EXCEPT !.stop = "closed",
                                    !.channel = IF @ = "open" THEN "closed" ELSE @]
  <2>1. q \in Queues /\ q.ch = queue[p].ch
    BY <1>1 DEF Queues
  <2>2. /\ queue' = [queue EXCEPT ![p] = q]
        /\ UNCHANGED <<redis, clock, call, worker, deliveries, spent>>
    BY <1>3 DEF CloseChannels
  <2>. HIDE DEF q
  <2>. QED
    BY <1>1, <2>1, <2>2, StopsKept
<1>4. CASE Cancel(p) \/ StopReturns(p)
  <2>1. PICK s \in {"canceled", "done"} : StopTo(p, s)
    BY <1>4 DEF Cancel, StopReturns
  <2>. DEFINE q == [queue[p] EXCEPT !.stop = s]
  <2>2. q \in Queues /\ q.ch = queue[p].ch
    BY <1>1 DEF Queues
  <2>3. /\ queue' = [queue EXCEPT ![p] = q]
        /\ UNCHANGED <<redis, clock, call, worker, deliveries, spent>>
    BY <1>4, <2>1 DEF Cancel, StopReturns, StopTo
  <2>. HIDE DEF q
  <2>. QED
    BY <1>1, <2>2, <2>3, StopsKept
<1>. QED
  BY <1>2, <1>3, <1>4 DEF Stopping

\* A replica that starts anew forgets its jobs, and nothing else does.
LEMMA FreshInv ==
    ASSUME IInv, NEW p \in Replicas, Restart(p) \/ Crash(p)
    PROVE  IInv'
<1>1. /\ StoreOK /\ call \in [Jobs -> Calls] /\ Fresh(p) /\ UNCHANGED <<redis, clock, deliveries>>
      /\ queue \in [Replicas -> Queues] /\ worker \in [Replicas -> Workers]
      /\ \A k \in Replicas : Len(queue[k].ch) <= QueueDepth
  BY Parts DEF Restart, Crash, Fresh
<1>2. call' \in [Jobs -> Calls] /\ NoneAnew /\ AcceptedStays
  <2>1. ASSUME NEW j \in Jobs
        PROVE  /\ call'[j] \in Calls
               /\ call'[j].at = "new" => call[j].at = "new"
               /\ call[j].at = "accepted" => call'[j].at = "accepted"
    BY <1>1, <2>1 DEF Fresh, Calls
  <2>2. call' = [j \in Jobs |-> call'[j]]
    BY <1>1 DEF Fresh
  <2>3. call' \in [Jobs -> Calls]
    BY <2>1, <2>2
  <2>. QED
    BY <1>1, <2>1, <2>3 DEF NoneAnew, AcceptedStays, Jobs
<1>3. /\ NewQueue \in Queues /\ NewQueue.ch = <<>> /\ Len(NewQueue.ch) = 0 /\ Once(NewQueue.ch)
      /\ ToSet(NewQueue.ch) = {}
  BY DEF NewQueue, Queues, Once, ToSet
<1>4. /\ queue' \in [Replicas -> Queues] /\ queue'[p] = NewQueue
      /\ worker' \in [Replicas -> Workers] /\ worker'[p] = IdleWorker
      /\ \A k \in Replicas : k # p => queue'[k] = queue[k] /\ worker'[k] = worker[k]
  BY <1>1, <1>3, IdleTyped DEF Fresh
<1>5. spent' \in SpentTypes /\ spent'.open <= spent'.faults
  BY Parts, FaultSpent DEF Restart, Crash
<1>6. StoreOK'
  BY <1>1, <1>2, StoreKept DEF StoreOK, StoreType
<1>7. \A k \in Replicas : Len(queue'[k].ch) <= QueueDepth
  BY <1>1, <1>3, <1>4, LimitsAssumption
<1>8. ASSUME NEW k \in Replicas PROVE WorkerOK(k)'
  BY <1>3, <1>4, IdleTyped DEF IInv, WorkerOK
<1>9. ASSUME NEW r \in Requests, NEW k \in Replicas
      PROVE  /\ In(k, r)' => In(k, r)
             /\ With(k, r)' => With(k, r) /\ worker'[k].sent = worker[k].sent
  BY <1>3, <1>4, IdleTyped, JobsAssumption DEF In, With
<1>10. ASSUME NEW r \in Requests PROVE PlaceOK(r)' /\ AnswerOK(r)'
  BY <1>1, <1>2, <1>9, PlaceKept, AnswerKept DEF IInv
<1>. QED
  BY <1>2, <1>4, <1>5, <1>6, <1>7, <1>8, <1>10, <1>1, Parts, PartsNext

-----------------------------------------------------------------------------
(* The theorems.                                                           *)

LEMMA InitInv == Init => IInv
<1>. SUFFICES ASSUME Init PROVE IInv
  OBVIOUS
<1>1. /\ redis \in Stores /\ redis.born = <<>> /\ redis.terminal = <<>> /\ redis.outstanding = {}
      /\ \A r \in Requests : redis.rec[r] = NoRecord
  <2>. DEFINE rec == [r \in Requests |-> NoRecord]
  <2>1. rec \in [Requests -> Records] /\ \A r \in Requests : rec[r] = NoRecord
    BY RecordTypes
  <2>2. redis = [rec |-> rec, born |-> <<>>, outstanding |-> {}, terminal |-> <<>>,
                 bodies |-> {}, envelopes |-> {}]
    BY DEF Init
  <2>3. <<>> \in Seq(Requests)
    OBVIOUS
  <2>. HIDE DEF rec
  <2>. QED
    BY <2>1, <2>2, <2>3 DEF Stores
<1>2. \A r \in Requests :
         r \notin ToSet(redis.born) /\ r \notin ToSet(redis.terminal) /\ ~Expired(r)
  BY <1>1 DEF ToSet, Expired, Init
<1>3. StoreOK
  <2>1. StoreType
    BY <1>1 DEF StoreType, IsInjective, Init
  <2>2. StoreInv
    <3>1. \A r \in Requests : RequestInv(r)
      BY <1>1, <1>2, RecordTypes DEF RequestInv
    <3>2. IsFiniteSet({}) /\ Cardinality({}) = 0 /\ Len(<<>>) = 0
      BY FS_EmptySet
    <3>. QED
      BY <1>1, <3>1, <3>2, LimitsAssumption DEF StoreInv
  <2>. QED
    BY <2>1, <2>2 DEF StoreOK
<1>4. /\ call \in [Jobs -> Calls] /\ \A j \in Jobs : call[j].at = "new"
      /\ deliveries \in [Jobs -> Nat] /\ \A j \in Jobs : deliveries[j] = 0
  BY DEF Init, Calls
<1>5. /\ queue \in [Replicas -> Queues]
      /\ \A p \in Replicas : queue[p] = NewQueue /\ queue[p].ch = <<>>
  <2>1. NewQueue \in Queues /\ NewQueue.ch = <<>>
    BY DEF NewQueue, Queues
  <2>. QED
    BY <2>1 DEF Init
<1>6. worker \in [Replicas -> Workers] /\ \A p \in Replicas : worker[p] = IdleWorker
  BY IdleTyped DEF Init
<1>7. spent \in SpentTypes /\ spent.open <= spent.faults
  BY LimitsAssumption DEF Init, SpentTypes
<1>8. ASSUME NEW p \in Replicas PROVE WorkerOK(p) /\ Len(queue[p].ch) <= QueueDepth
  <2>1. Once(<<>>) /\ Len(<<>>) = 0
    BY DEF Once
  <2>2. queue[p].ch = <<>> /\ worker[p] = IdleWorker
    BY <1>5, <1>6
  <2>3. /\ worker[p].job = None /\ worker[p].at = "idle" /\ worker[p].outcome = ""
        /\ ~worker[p].sent
    BY <2>2, IdleTyped
  <2>4. WorkerOK(p)
    BY <2>1, <2>2, <2>3 DEF WorkerOK
  <2>. QED
    BY <2>1, <2>2, <2>4, LimitsAssumption
<1>9. ASSUME NEW r \in Requests PROVE PlaceOK(r) /\ AnswerOK(r)
  <2>1. \A p \in Replicas : ~In(p, r) /\ ~With(p, r)
    <3>1. \A x : x \notin ToSet(<<>>)
      BY DEF ToSet
    <3>2. ASSUME NEW p \in Replicas PROVE ToSet(queue[p].ch) = ToSet(<<>>) /\ worker[p].job = None
      BY <1>5, <1>6, IdleTyped
    <3>3. r # None
      BY JobsAssumption
    <3>. QED
      BY <3>1, <3>2, <3>3 DEF In, With
  <2>2. r \in Jobs /\ redis.rec[r].code = ""
    BY <1>1, RecordTypes DEF Jobs
  <2>3. call[r].at = "new" /\ deliveries[r] = 0
    BY <1>4, <2>2
  <2>4. PlaceOK(r)
    BY <2>1 DEF PlaceOK
  <2>5. AnswerOK(r)
    <3>1. deliveries[r] <= 1
      BY <2>3
    <3>. QED
      BY <2>2, <2>3, <3>1 DEF AnswerOK
  <2>. QED
    BY <2>4, <2>5
<1>. QED
  BY <1>3, <1>4, <1>5, <1>6, <1>7, <1>8, <1>9, Parts

LEMMA NextInv ==
    ASSUME IInv, [Next]_vars
    PROVE  IInv'
<1>1. ASSUME NEW r \in Requests, Reply(r)
      PROVE  IInv'
  BY <1>1, ReplyInv
<1>2. ASSUME NEW r \in Requests, NEW p \in Replicas, Submit(r, p)
      PROVE  IInv'
  BY <1>2, SubmitInv
<1>3. ASSUME NEW h \in Hooks, Stash(h)
      PROVE  IInv'
  BY <1>3, StashInv
<1>4. ASSUME NEW h \in Hooks, NEW p \in Replicas, Post(h, p) \/ Replay(h, p)
      PROVE  IInv'
  BY <1>4, PostInv, ReplayInv
<1>5. ASSUME NEW j \in Jobs, Handler(j)
      PROVE  IInv'
  BY <1>5, LookupInv, SendInv, RejectInv DEF Handler
<1>6. ASSUME NEW p \in Replicas, Delivery(p) \/ Deadline(p)
      PROVE  IInv'
  BY <1>6, TakeInv, WaitEndsInv, PromptInv, DeliverEndsInv, RecordInv, DeadlineInv DEF Delivery
<1>7. ASSUME NEW p \in Replicas, Stop(p) \/ Stopping(p) \/ Restart(p) \/ Crash(p)
      PROVE  IInv'
  BY <1>7, StopsInv, FreshInv
<1>8. CASE Expire \/ \E b \in Bodies : BodyExpires(b)
  BY <1>8, ExpireInv, BodyExpiresInv
<1>9. CASE UNCHANGED vars
  <2>1. StoreOK' /\ AcceptedStays /\ UNCHANGED <<worker, deliveries, queue, call, spent, redis>>
    BY <1>9, Parts, CallSame, StoreKept DEF vars, StoreOK, StoreType
  <2>. QED
    BY <2>1, Kept, Parts, PartsNext
<1>. QED
  BY <1>1, <1>2, <1>3, <1>4, <1>5, <1>6, <1>7, <1>8, <1>9 DEF Next

\* The strengthening is inductive, so it holds of every reachable state.
LEMMA Inductive == Spec => []IInv
  BY InitInv, NextInv, PTL DEF Spec

\* The store, the handlers, the queues within their depth and the workers keep
\* their types; an id is created once and settled once.
THEOREM InboundTypeCorrect == Spec => []TypeOK
<1>1. IInv => TypeOK
  BY DEF IInv
<1>. QED
  BY Inductive, <1>1, PTL

\* redis.go's sorted sets keep both limits and lose no live record, for any limits
\* and any order of creation, expiry, trimming and late outcomes.
THEOREM StoreLimits == Spec => []LimitsKept
<1>1. IInv => LimitsKept
  BY DEF IInv, StoreInv, RequestInv, LimitsKept, Live
<1>. QED
  BY Inductive, <1>1, PTL

\* A caller that was refused, or told agent_unavailable, may submit again: no
\* replica has delivered the prompt or still will.
THEOREM RefusalsHonest == Spec => []RefusedMeansUnsent
<1>1. ASSUME IInv, NEW r \in Requests
      PROVE  /\ redis.rec[r].code = "agent_unavailable" => deliveries[r] = 0
             /\ call[r].at \in {"refused", "reject"} => deliveries[r] = 0 /\ ~Queued(r)
  BY <1>1 DEF IInv, AnswerOK, PlaceOK, Queued, In, With
<1>2. IInv => RefusedMeansUnsent
  BY <1>1 DEF RefusedMeansUnsent
<1>. QED
  BY Inductive, <1>2, PTL

-----------------------------------------------------------------------------
(* Webhooks. A body's prompts, those on their way to the agent included,    *)
(* never outnumber what was paid for them: the key the body has, each key of *)
(* its that has lapsed, a replay, or a post that the failing deduper let     *)
(* through.                                                                  *)

Waiting(b) == {h \in Posts(b) : call[h].at \in {"stash", "lookup", "send"}}
Lined(b) ==
    {t \in Replicas \X (1..QueueDepth) :
        t[2] \in DOMAIN queue[t[1]].ch /\ queue[t[1]].ch[t[2]] \in Posts(b)}
Held(b) ==
    {p \in Replicas : /\ worker[p].job \in Posts(b) /\ worker[p].at \in {"wait", "deliver"}
                      /\ ~worker[p].sent}

AllFinite(b) ==
    IsFiniteSet(Waiting(b)) /\ IsFiniteSet(Lined(b)) /\ IsFiniteSet(Held(b)) /\ IsFiniteSet(Prompted(b))
Copies(b) ==
    Cardinality(Waiting(b)) + Cardinality(Lined(b)) + Cardinality(Held(b)) + Cardinality(Prompted(b))
Paid(b) ==
    (IF b \in redis.bodies THEN 1 ELSE 0) + spent.lapses[b] + spent.replays + spent.open

BodyOK(b) == AllFinite(b) /\ Copies(b) <= Paid(b)
OnceInv == \A b \in Bodies : BodyOK(b)

LEMMA Added ==
    ASSUME NEW S, NEW x, IsFiniteSet(S)
    PROVE  /\ IsFiniteSet(S \cup {x}) /\ Cardinality(S \cup {x}) \in Nat /\ Cardinality(S) \in Nat
           /\ Cardinality(S \cup {x}) <= Cardinality(S) + 1
<1>1. Cardinality(S) \in Nat /\ IsFiniteSet(S \cup {x})
  BY FS_CardinalityType, FS_AddElement
<1>. QED
  BY <1>1, FS_CardinalityType, FS_AddElement

LEMMA Removed ==
    ASSUME NEW S, NEW x \in S, IsFiniteSet(S)
    PROVE  /\ IsFiniteSet(S \ {x}) /\ Cardinality(S \ {x}) \in Nat /\ Cardinality(S) \in Nat
           /\ Cardinality(S \ {x}) = Cardinality(S) - 1
<1>1. Cardinality(S) \in Nat /\ IsFiniteSet(S \ {x})
  BY FS_CardinalityType, FS_RemoveElement
<1>. QED
  BY <1>1, FS_CardinalityType, FS_RemoveElement

LEMMA PaidType ==
    ASSUME spent \in SpentTypes, NEW b \in Bodies
    PROVE  Paid(b) \in Nat
<1>1. spent.replays \in Nat /\ spent.open \in Nat /\ spent.lapses[b] \in Nat
  BY LimitsAssumption DEF SpentTypes
<1>. QED
  BY <1>1 DEF Paid

\* The sum of four sizes.
LEMMA Sizes ==
    ASSUME NEW b, AllFinite(b)
    PROVE  /\ Cardinality(Waiting(b)) \in Nat /\ Cardinality(Lined(b)) \in Nat
           /\ Cardinality(Held(b)) \in Nat /\ Cardinality(Prompted(b)) \in Nat
BY FS_CardinalityType DEF AllFinite

\* A step that sends no prompt on, but may lose some.
LEMMA FewerCopies ==
    ASSUME NEW b, BodyOK(b), Waiting(b)' \subseteq Waiting(b), Lined(b)' \subseteq Lined(b),
           Held(b)' \subseteq Held(b), Prompted(b)' = Prompted(b),
           Paid(b) \in Nat, Paid(b)' \in Nat, Paid(b) <= Paid(b)'
    PROVE  BodyOK(b)'
<1>1. /\ IsFiniteSet(Waiting(b)') /\ Cardinality(Waiting(b)') <= Cardinality(Waiting(b))
      /\ IsFiniteSet(Lined(b)') /\ Cardinality(Lined(b)') <= Cardinality(Lined(b))
      /\ IsFiniteSet(Held(b)') /\ Cardinality(Held(b)') <= Cardinality(Held(b))
      /\ IsFiniteSet(Prompted(b)') /\ Cardinality(Prompted(b)') = Cardinality(Prompted(b))
  BY FS_Subset DEF BodyOK, AllFinite
<1>2. /\ Cardinality(Waiting(b)') \in Nat /\ Cardinality(Lined(b)') \in Nat
      /\ Cardinality(Held(b)') \in Nat /\ Cardinality(Prompted(b)') \in Nat
  BY <1>1, FS_CardinalityType
<1>3. /\ Cardinality(Waiting(b)) \in Nat /\ Cardinality(Lined(b)) \in Nat
      /\ Cardinality(Held(b)) \in Nat /\ Cardinality(Prompted(b)) \in Nat
      /\ Copies(b) <= Paid(b)
  BY Sizes DEF BodyOK
<1>4. Copies(b)' <= Paid(b)'
  BY <1>1, <1>2, <1>3 DEF Copies
<1>. QED
  BY <1>1, <1>4 DEF BodyOK, AllFinite

\* A prompt that was paid for sets out.
LEMMA OneMoreWaits ==
    ASSUME NEW b, BodyOK(b), NEW h, Waiting(b)' \subseteq Waiting(b) \cup {h},
           Lined(b)' = Lined(b), Held(b)' = Held(b), Prompted(b)' = Prompted(b),
           Paid(b) \in Nat, Paid(b)' = Paid(b) + 1
    PROVE  BodyOK(b)'
<1>1. /\ IsFiniteSet(Waiting(b) \cup {h})
      /\ Cardinality(Waiting(b) \cup {h}) <= Cardinality(Waiting(b)) + 1
      /\ Cardinality(Waiting(b) \cup {h}) \in Nat
  BY Added DEF BodyOK, AllFinite
<1>2. /\ IsFiniteSet(Waiting(b)') /\ Cardinality(Waiting(b)') \in Nat
      /\ Cardinality(Waiting(b)') <= Cardinality(Waiting(b) \cup {h})
  BY <1>1, FS_Subset, FS_CardinalityType
<1>3. Copies(b)' <= Paid(b)'
  BY <1>1, <1>2, Sizes DEF BodyOK, Copies
<1>. QED
  BY <1>2, <1>3 DEF BodyOK, AllFinite

\* It goes from one place to the next, if it is one of the body's.
LEMMA WaitingToLined ==
    ASSUME NEW b, BodyOK(b), NEW h, NEW x, h \in Waiting(b), Waiting(b)' = Waiting(b) \ {h},
           Lined(b)' \subseteq Lined(b) \cup {x}, Held(b)' = Held(b), Prompted(b)' = Prompted(b),
           Paid(b)' = Paid(b), Paid(b) \in Nat
    PROVE  BodyOK(b)'
<1>. IsFiniteSet(Waiting(b)) /\ IsFiniteSet(Lined(b)) /\ IsFiniteSet(Held(b))
  BY DEF BodyOK, AllFinite
<1>1. /\ IsFiniteSet(Waiting(b)') /\ Cardinality(Waiting(b)') = Cardinality(Waiting(b)) - 1
      /\ Cardinality(Waiting(b)') \in Nat
      /\ IsFiniteSet(Lined(b) \cup {x})
      /\ Cardinality(Lined(b) \cup {x}) <= Cardinality(Lined(b)) + 1
      /\ Cardinality(Lined(b) \cup {x}) \in Nat
  <2>1. /\ IsFiniteSet(Waiting(b) \ {h}) /\ Cardinality(Waiting(b) \ {h}) \in Nat
        /\ Cardinality(Waiting(b) \ {h}) = Cardinality(Waiting(b)) - 1
    BY Removed
  <2>. QED
    BY <2>1, Added
<1>2. /\ IsFiniteSet(Lined(b)') /\ Cardinality(Lined(b)') \in Nat
      /\ Cardinality(Lined(b)') <= Cardinality(Lined(b) \cup {x})
  BY <1>1, FS_Subset, FS_CardinalityType
<1>3. Copies(b)' <= Paid(b)'
  BY <1>1, <1>2, Sizes DEF BodyOK, Copies
<1>. QED
  BY <1>1, <1>2, <1>3 DEF BodyOK, AllFinite

LEMMA LinedToHeld ==
    ASSUME NEW b, BodyOK(b), NEW x \in Lined(b), NEW f \in Injection(Lined(b)', Lined(b) \ {x}),
           NEW p, Held(b)' \subseteq Held(b) \cup {p}, Waiting(b)' = Waiting(b),
           Prompted(b)' = Prompted(b), Paid(b)' = Paid(b), Paid(b) \in Nat
    PROVE  BodyOK(b)'
<1>1. /\ IsFiniteSet(Lined(b) \ {x}) /\ Cardinality(Lined(b) \ {x}) = Cardinality(Lined(b)) - 1
      /\ IsFiniteSet(Held(b) \cup {p}) /\ Cardinality(Held(b) \cup {p}) <= Cardinality(Held(b)) + 1
      /\ Cardinality(Held(b) \cup {p}) \in Nat
  BY Added, Removed DEF BodyOK, AllFinite
<1>2. /\ IsFiniteSet(Lined(b)') /\ Cardinality(Lined(b)') <= Cardinality(Lined(b) \ {x})
      /\ Cardinality(Lined(b)') \in Nat
  BY <1>1, FS_Injection, FS_CardinalityType
<1>3. /\ IsFiniteSet(Held(b)') /\ Cardinality(Held(b)') \in Nat
      /\ Cardinality(Held(b)') <= Cardinality(Held(b) \cup {p})
  BY <1>1, FS_Subset, FS_CardinalityType
<1>4. Copies(b)' <= Paid(b)'
  BY <1>1, <1>2, <1>3, Sizes DEF BodyOK, Copies
<1>. QED
  BY <1>2, <1>3, <1>4 DEF BodyOK, AllFinite

LEMMA LinedElsewhere ==
    ASSUME NEW b, BodyOK(b), NEW f \in Injection(Lined(b)', Lined(b)),
           Held(b)' = Held(b), Waiting(b)' = Waiting(b),
           Prompted(b)' = Prompted(b), Paid(b)' = Paid(b), Paid(b) \in Nat
    PROVE  BodyOK(b)'
<1>1. /\ IsFiniteSet(Lined(b)') /\ Cardinality(Lined(b)') <= Cardinality(Lined(b))
      /\ Cardinality(Lined(b)') \in Nat
  BY FS_Injection, FS_CardinalityType DEF BodyOK, AllFinite
<1>2. Copies(b)' <= Paid(b)'
  BY <1>1, Sizes DEF BodyOK, Copies
<1>. QED
  BY <1>1, <1>2 DEF BodyOK, AllFinite

LEMMA HeldToPrompted ==
    ASSUME NEW b, BodyOK(b), NEW p \in Held(b), NEW x, Held(b)' = Held(b) \ {p},
           Prompted(b)' = Prompted(b) \cup {x}, Waiting(b)' = Waiting(b), Lined(b)' = Lined(b),
           Paid(b)' = Paid(b), Paid(b) \in Nat
    PROVE  BodyOK(b)'
<1>. IsFiniteSet(Held(b)) /\ IsFiniteSet(Prompted(b))
  BY DEF BodyOK, AllFinite
<1>1. /\ IsFiniteSet(Held(b)') /\ Cardinality(Held(b)') = Cardinality(Held(b)) - 1
      /\ Cardinality(Held(b)') \in Nat
  <2>1. /\ IsFiniteSet(Held(b) \ {p}) /\ Cardinality(Held(b) \ {p}) \in Nat
        /\ Cardinality(Held(b) \ {p}) = Cardinality(Held(b)) - 1
    BY Removed
  <2>. QED
    BY <2>1
<1>2. /\ IsFiniteSet(Prompted(b)') /\ Cardinality(Prompted(b)') <= Cardinality(Prompted(b)) + 1
      /\ Cardinality(Prompted(b)') \in Nat
  <2>1. /\ IsFiniteSet(Prompted(b) \cup {x}) /\ Cardinality(Prompted(b) \cup {x}) \in Nat
        /\ Cardinality(Prompted(b) \cup {x}) <= Cardinality(Prompted(b)) + 1
    BY Added
  <2>. QED
    BY <2>1
<1>3. Copies(b)' <= Paid(b)'
  BY <1>1, <1>2, Sizes DEF BodyOK, Copies
<1>. QED
  BY <1>1, <1>2, <1>3 DEF BodyOK, AllFinite

OnItsWay(h) == call[h].at \in {"stash", "lookup", "send"}
Holds(p, h) ==
    worker[p].job = h /\ worker[p].at \in {"wait", "deliver"} /\ ~worker[p].sent

PricesKept == UNCHANGED <<spent.replays, spent.open, spent.lapses>>

\* Steps that take no post on, but may lose one.
NothingSent ==
    /\ \A h \in Hooks : OnItsWay(h)' => OnItsWay(h)
    /\ \A p \in Replicas : queue'[p].ch = queue[p].ch \/ queue'[p].ch = <<>>
    /\ \A p \in Replicas, h \in Hooks : Holds(p, h)' => Holds(p, h)
    /\ deliveries' = deliveries
    /\ redis'.bodies = redis.bodies
    /\ PricesKept

LEMMA NothingSentKeeps ==
    ASSUME IInv, OnceInv, NothingSent
    PROVE  OnceInv'
<1>. SUFFICES ASSUME NEW b \in Bodies PROVE BodyOK(b)'
  BY DEF OnceInv
<1>1. BodyOK(b) /\ Paid(b) \in Nat /\ Paid(b)' = Paid(b)
  BY Parts, PaidType DEF OnceInv, NothingSent, PricesKept, Paid
<1>2. Waiting(b)' \subseteq Waiting(b)
  BY DEF Waiting, Posts, NothingSent, OnItsWay
<1>3. Lined(b)' \subseteq Lined(b)
  <2>. SUFFICES ASSUME NEW t \in Lined(b)' PROVE t \in Lined(b)
    OBVIOUS
  <2>1. /\ t \in Replicas \X (1..QueueDepth) /\ t[1] \in Replicas
        /\ t[2] \in DOMAIN queue'[t[1]].ch /\ queue'[t[1]].ch[t[2]] \in Posts(b)
    BY DEF Lined, Posts
  <2>2. queue'[t[1]].ch = queue[t[1]].ch
    BY <2>1 DEF NothingSent
  <2>. QED
    BY <2>1, <2>2 DEF Lined
<1>4. Held(b)' \subseteq Held(b)
  BY DEF Held, Posts, NothingSent, Holds
<1>5. Prompted(b)' = Prompted(b)
  BY DEF Prompted, Posts, NothingSent
<1>. QED
  BY <1>1, <1>2, <1>3, <1>4, <1>5, FewerCopies

\* The scripts of the request store leave the dedupe keys alone.
LEMMA BodiesKept ==
    ASSUME redis \in Stores, NEW r \in Requests
    PROVE  /\ Pruned(redis).bodies = redis.bodies /\ Created(redis, r).bodies = redis.bodies
           /\ MarkDispatched(redis, r).bodies = redis.bodies
           /\ \A code : Failed(redis, r, code).bodies = redis.bodies
           /\ Completed(redis, r).bodies = redis.bodies
           /\ \A x : [redis EXCEPT !.rec[r] = x].bodies = redis.bodies
           /\ \A x : [redis EXCEPT !.envelopes = x].bodies = redis.bodies
<1>1. \A record : SettledAs(redis, r, record).bodies = redis.bodies
  BY DEF SettledAs, Stores
<1>2. Pruned(redis).bodies = redis.bodies /\ Created(redis, r).bodies = redis.bodies
  BY DEF Pruned, Created, Stores
<1>3. MarkDispatched(redis, r).bodies = redis.bodies
  BY DEF MarkDispatched, Stores
<1>4. /\ \A x : [redis EXCEPT !.rec[r] = x].bodies = redis.bodies
      /\ \A x : [redis EXCEPT !.envelopes = x].bodies = redis.bodies
  BY DEF Stores
<1>. QED
  BY <1>1, <1>2, <1>3, <1>4 DEF Failed, Completed

LEMMA SpendsElsewhere ==
    ASSUME spent \in SpentTypes
    PROVE  /\ Fault => PricesKept
           /\ \A n : spent' = [spent EXCEPT !.stops = n] => PricesKept
           /\ UNCHANGED spent => PricesKept
BY DEF Fault, SpentTypes, PricesKept

\* A request's handler moves no post on.
LEMMA RequestsAside ==
    ASSUME call \in [Jobs -> Calls], NEW r \in Requests, NEW c, call' = [call EXCEPT ![r] = c]
    PROVE  \A h \in Hooks : OnItsWay(h)' => OnItsWay(h)
BY JobsAssumption DEF OnItsWay

\* A handler's answer.
LEMMA AnswersOn ==
    ASSUME call \in [Jobs -> Calls], NEW j \in Jobs, NEW at, Answer(j, at),
           OnItsWay(j) \/ at \notin {"stash", "lookup", "send"}
    PROVE  \A h \in Hooks : OnItsWay(h)' => OnItsWay(h)
<1>1. call' = [call EXCEPT ![j] = [call[j] EXCEPT !.at = at]]
  BY DEF Answer
<1>2. call'[j].at = at /\ \A h \in Hooks : h # j => call'[h] = call[h]
  BY <1>1 DEF Jobs, Calls
<1>. QED
  BY <1>2 DEF OnItsWay

\* A worker that drops its job or goes on with it.
LEMMA WorksOn ==
    ASSUME IInv, NEW p \in Replicas, NEW w, Does(p, w),
           w.at \in {"wait", "deliver"} => /\ w.job = worker[p].job /\ w.sent = worker[p].sent
                                           /\ worker[p].at \in {"wait", "deliver"}
    PROVE  \A q \in Replicas, h \in Hooks : Holds(q, h)' => Holds(q, h)
<1>1. worker'[p] = w /\ \A q \in Replicas : q # p => worker'[q] = worker[q]
  BY WorkerTyped DEF Does
<1>. QED
  BY <1>1 DEF Holds

\* The steps that send nothing.
LEMMA HandlersCalm ==
    ASSUME IInv,
           \/ \E r \in Requests : Reply(r) \/ \E p \in Replicas : Submit(r, p)
           \/ \E h \in Hooks : Stash(h)
           \/ \E j \in Jobs : Lookup(j) \/ Reject(j)
           \/ Expire \/ UNCHANGED vars
    PROVE  NothingSent
<1>1. /\ redis \in Stores /\ spent \in SpentTypes /\ call \in [Jobs -> Calls]
      /\ queue \in [Replicas -> Queues]
  BY Parts DEF StoreOK, StoreType
<1>2. ASSUME NEW r \in Requests, Reply(r) PROVE NothingSent
  BY <1>1, <1>2, BodiesKept DEF Reply, NothingSent, PricesKept, OnItsWay, Holds
<1>3. ASSUME NEW r \in Requests, NEW p \in Replicas, Submit(r, p) PROVE NothingSent
  <2>1. redis'.bodies = redis.bodies
    BY <1>1, <1>3, BodiesKept DEF Submit
  <2>2. PricesKept
    BY <1>1, <1>3, SpendsElsewhere DEF Submit
  <2>3. \A h \in Hooks : OnItsWay(h)' => OnItsWay(h)
    <3>1. \E c : call' = [call EXCEPT ![r] = c]
      BY <1>3 DEF Submit
    <3>. QED
      BY <1>1, <3>1, RequestsAside
  <2>. QED
    BY <1>3, <2>1, <2>2, <2>3 DEF Submit, NothingSent, Holds
<1>4. ASSUME NEW h \in Hooks, Stash(h) PROVE NothingSent
  <2>1. redis'.bodies = redis.bodies
    BY <1>1, <1>4 DEF Stash, Stores
  <2>2. PricesKept
    BY <1>1, <1>4, SpendsElsewhere DEF Stash
  <2>3. \A g \in Hooks : OnItsWay(g)' => OnItsWay(g)
    <3>1. OnItsWay(h) /\ h \in Jobs /\ \E at : Answer(h, at)
      BY <1>4 DEF Stash, OnItsWay, Jobs
    <3>. QED
      BY <1>1, <3>1, AnswersOn
  <2>. QED
    BY <1>4, <2>1, <2>2, <2>3 DEF Stash, NothingSent, Holds
<1>5. ASSUME NEW j \in Jobs, Lookup(j) PROVE NothingSent
  <2>1. \A g \in Hooks : OnItsWay(g)' => OnItsWay(g)
    <3>1. OnItsWay(j) /\ \E at : Answer(j, at)
      BY <1>5 DEF Lookup, OnItsWay
    <3>. QED
      BY <1>1, <3>1, AnswersOn
  <2>2. \A p \in Replicas : queue'[p].ch = queue[p].ch
    <3>. DEFINE k == call[j].on
                c == IF queue[k].channel = "none" THEN "open" ELSE queue[k].channel
    <3>1. queue' = queue \/ queue' = [queue EXCEPT ![k].channel = c]
      BY <1>5 DEF Lookup
    <3>. HIDE DEF c, k
    <3>2. ASSUME NEW p \in Replicas, queue' = [queue EXCEPT ![k].channel = c]
          PROVE  queue'[p].ch = queue[p].ch
      <4>1. queue[p].ch = [queue[p] EXCEPT !.channel = c].ch
        BY <1>1 DEF Queues
      <4>2. queue'[p] \in {queue[p], [queue[p] EXCEPT !.channel = c]}
        BY <1>1, <3>2
      <4>. QED
        BY <4>1, <4>2
    <3>. QED
      BY <3>1, <3>2
  <2>. QED
    BY <1>5, <2>1, <2>2 DEF Lookup, NothingSent, PricesKept, Holds
<1>6. ASSUME NEW j \in Jobs, Reject(j) PROVE NothingSent
  <2>1. redis'.bodies = redis.bodies
    BY <1>1, <1>6, BodiesKept DEF Reject
  <2>2. PricesKept
    BY <1>1, <1>6, SpendsElsewhere DEF Reject
  <2>3. \A g \in Hooks : OnItsWay(g)' => OnItsWay(g)
    BY <1>1, <1>6, AnswersOn DEF Reject
  <2>. QED
    BY <1>6, <2>1, <2>2, <2>3 DEF Reject, NothingSent, Holds
<1>7. CASE Expire
  <2>1. redis'.bodies = redis.bodies
    <3>1. \E r : redis' = [redis EXCEPT !.rec[r] = Gone]
      BY <1>7 DEF Expire
    <3>. QED
      BY <1>1, <3>1 DEF Stores
  <2>. QED
    BY <1>7, <2>1 DEF Expire, NothingSent, PricesKept, Holds, OnItsWay
<1>8. CASE UNCHANGED vars
  BY <1>8 DEF vars, NothingSent, PricesKept, Holds, OnItsWay
<1>. QED
  BY <1>2, <1>3, <1>4, <1>5, <1>6, <1>7, <1>8

LEMMA WorkersCalm ==
    ASSUME IInv, NEW p \in Replicas, Deadline(p) \/ WaitEnds(p) \/ DeliverEnds(p) \/ Record(p)
    PROVE  NothingSent
<1>1. /\ redis \in Stores /\ spent \in SpentTypes /\ worker[p] \in Workers
      /\ worker \in [Replicas -> Workers] /\ UNCHANGED <<call, queue, deliveries>>
  BY Parts, WorkerTyped DEF StoreOK, StoreType, Deadline, WaitEnds, DeliverEnds, Record
<1>2. redis'.bodies = redis.bodies /\ PricesKept
  <2>1. CASE Deadline(p) \/ WaitEnds(p) \/ DeliverEnds(p)
    BY <2>1 DEF Deadline, WaitEnds, DeliverEnds, PricesKept
  <2>2. CASE Record(p)
    <3>1. PricesKept
      BY <1>1, <2>2, SpendsElsewhere DEF Record
    <3>2. worker[p].job \in Requests \cup Hooks
      BY <2>2, WorkerTyped DEF Record, Jobs
    <3>3. \/ redis' = redis
          \/ worker[p].job \in Requests /\ \/ redis' = MarkDispatched(redis, worker[p].job)
                                           \/ redis' = Failed(redis, worker[p].job, worker[p].outcome)
      BY <2>2, <3>2 DEF Record
    <3>4. redis'.bodies = redis.bodies
      BY <1>1, <3>3, BodiesKept
    <3>. QED
      BY <3>1, <3>4
  <2>. QED
    BY <2>1, <2>2
<1>3. \A q \in Replicas, h \in Hooks : Holds(q, h)' => Holds(q, h)
  <2>1. CASE Deadline(p)
    <3>1. PICK w : w = [worker[p] EXCEPT !.late = TRUE]
      OBVIOUS
    <3>2. Does(p, w) /\ w.job = worker[p].job /\ w.sent = worker[p].sent /\ w.at = worker[p].at
      BY <1>1, <2>1, <3>1 DEF Deadline, Workers
    <3>3. worker'[p] = w /\ \A q \in Replicas : q # p => worker'[q] = worker[q]
      BY <1>1, <3>2 DEF Does
    <3>. QED
      BY <3>2, <3>3 DEF Holds
  <2>2. CASE WaitEnds(p) \/ DeliverEnds(p)
    <3>1. PICK w : /\ Does(p, w)
                   /\ \/ w = [worker[p] EXCEPT !.at = "deliver"]
                      \/ \E o : w = [worker[p] EXCEPT !.at = "record", !.outcome = o]
      BY <2>2 DEF WaitEnds, DeliverEnds, Outcome
    <3>2. worker[p].at \in {"wait", "deliver"}
      BY <2>2 DEF WaitEnds, DeliverEnds
    <3>3. w.job = worker[p].job /\ w.sent = worker[p].sent
      BY <1>1, <3>1 DEF Workers
    <3>. QED
      BY <3>1, <3>2, <3>3, WorksOn
  <2>3. CASE Record(p)
    BY <2>3, IdleTyped, WorksOn DEF Record
  <2>. QED
    BY <2>1, <2>2, <2>3
<1>. QED
  BY <1>1, <1>2, <1>3 DEF NothingSent, OnItsWay

LEMMA StopsCalm ==
    ASSUME IInv, NEW p \in Replicas, Stop(p) \/ Stopping(p) \/ Restart(p) \/ Crash(p)
    PROVE  NothingSent
<1>1. /\ spent \in SpentTypes /\ call \in [Jobs -> Calls] /\ queue \in [Replicas -> Queues]
      /\ worker \in [Replicas -> Workers] /\ UNCHANGED <<redis, deliveries>>
  BY Parts DEF Stop, Stopping, CloseChannels, Cancel, StopReturns, StopTo, Restart, Crash, Fresh
<1>2. PricesKept
  <2>1. UNCHANGED spent \/ Fault \/ \E n : spent' = [spent EXCEPT !.stops = n]
    BY DEF Stop, Stopping, CloseChannels, Cancel, StopReturns, Restart, Crash
  <2>. QED
    BY <1>1, <2>1, SpendsElsewhere
<1>3. CASE Stop(p) \/ Stopping(p)
  <2>1. UNCHANGED <<call, worker>>
    BY <1>3 DEF Stop, Stopping, CloseChannels, Cancel, StopReturns, StopTo
  <2>2. \E s : \/ queue' = [queue EXCEPT ![p].stop = s]
               \/ \E c : queue' = [queue EXCEPT ![p].stop = s, ![p].channel = c]
    <3>1. CASE CloseChannels(p)
      BY <3>1 DEF CloseChannels
    <3>2. CASE Stop(p) \/ Cancel(p) \/ StopReturns(p)
      BY <3>2 DEF Stop, Cancel, StopReturns, StopTo
    <3>. QED
      BY <1>3, <3>1, <3>2 DEF Stopping
  <2>3. \A q \in Replicas : queue'[q].ch = queue[q].ch
    <3>1. PICK s : \/ queue' = [queue EXCEPT ![p].stop = s]
                   \/ \E c : queue' = [queue EXCEPT ![p].stop = s, ![p].channel = c]
      BY <2>2
    <3>2. CASE queue' = [queue EXCEPT ![p].stop = s]
      BY <1>1, <3>2 DEF Queues
    <3>3. ASSUME NEW c, queue' = [queue EXCEPT ![p].stop = s, ![p].channel = c]
          PROVE  \A q \in Replicas : queue'[q].ch = queue[q].ch
      BY <1>1, <3>3 DEF Queues
    <3>. QED
      BY <3>1, <3>2, <3>3
  <2>. QED
    BY <1>1, <1>2, <2>1, <2>3 DEF NothingSent, OnItsWay, Holds
<1>4. CASE Restart(p) \/ Crash(p)
  <2>1. Fresh(p)
    BY <1>4 DEF Restart, Crash
  <2>2. \A h \in Hooks : OnItsWay(h)' => OnItsWay(h)
    <3>1. \A h \in Hooks : call'[h] \in {call[h], [call[h] EXCEPT !.at = "lost"]}
      BY <2>1 DEF Fresh, Jobs
    <3>2. \A h \in Hooks : [call[h] EXCEPT !.at = "lost"].at = "lost"
      BY <1>1 DEF Jobs, Calls
    <3>. QED
      BY <3>1, <3>2 DEF OnItsWay
  <2>3. \A q \in Replicas : queue'[q].ch = queue[q].ch \/ queue'[q].ch = <<>>
    BY <1>1, <2>1 DEF Fresh, NewQueue
  <2>4. \A q \in Replicas, h \in Hooks : Holds(q, h)' => Holds(q, h)
    BY <1>1, <2>1, IdleTyped DEF Fresh, Holds
  <2>. QED
    BY <1>1, <1>2, <2>2, <2>3, <2>4 DEF NothingSent
<1>. QED
  BY <1>3, <1>4

-----------------------------------------------------------------------------
(* The steps that do.                                                      *)

\* Nothing in line, held or delivered changes.
LEMMA PlacesSame ==
    ASSUME UNCHANGED <<queue, worker, deliveries>>, NEW b
    PROVE  Lined(b)' = Lined(b) /\ Held(b)' = Held(b) /\ Prompted(b)' = Prompted(b)
BY DEF Lined, Held, Prompted, Posts

LEMMA PostOnce ==
    ASSUME IInv, OnceInv, NEW h \in Hooks, NEW p \in Replicas, Post(h, p)
    PROVE  OnceInv'
<1>1. /\ call \in [Jobs -> Calls] /\ h \in Jobs /\ redis \in Stores /\ spent \in SpentTypes
      /\ UNCHANGED <<queue, worker, deliveries>>
      /\ spent.replays \in Nat /\ spent.open \in Nat
  BY Parts, LimitsAssumption DEF Post, Jobs, StoreOK, StoreType, SpentTypes
<1>. SUFFICES ASSUME NEW b \in Bodies PROVE BodyOK(b)'
  BY DEF OnceInv
<1>2. BodyOK(b) /\ Paid(b) \in Nat /\ spent.lapses[b] \in Nat
  BY <1>1, PaidType, LimitsAssumption DEF OnceInv, SpentTypes
<1>3. PICK at \in {"deduped", "stash"} :
         /\ call' = [call EXCEPT ![h] = [at |-> at, on |-> p]]
         /\ \/ /\ redis' = [redis EXCEPT !.bodies = @ \cup {BodyOf[h]}] /\ UNCHANGED spent
               /\ at = IF BodyOf[h] \in redis.bodies THEN "deduped" ELSE "stash"
            \/ /\ spent' = [spent EXCEPT !.faults = @ + 1, !.open = @ + 1] /\ UNCHANGED redis
  BY DEF Post
<1>4. call'[h].at = at /\ \A g \in Hooks : g # h => call'[g] = call[g]
  BY <1>1, <1>3 DEF Jobs
<1>5. /\ Waiting(b)' \subseteq Waiting(b) \cup {h}
      /\ at = "deduped" \/ BodyOf[h] # b => Waiting(b)' \subseteq Waiting(b)
  BY <1>4 DEF Waiting, Posts
<1>6. CASE /\ redis' = [redis EXCEPT !.bodies = @ \cup {BodyOf[h]}] /\ UNCHANGED spent
           /\ at = IF BodyOf[h] \in redis.bodies THEN "deduped" ELSE "stash"
  <2>1. redis'.bodies = redis.bodies \cup {BodyOf[h]}
    BY <1>1, <1>6 DEF Stores
  <2>2. CASE BodyOf[h] \in redis.bodies \/ BodyOf[h] # b
    <3>1. Paid(b)' = Paid(b)
      BY <1>6, <2>1, <2>2 DEF Paid
    <3>2. Waiting(b)' \subseteq Waiting(b)
      BY <1>5, <1>6, <2>2
    <3>. QED
      BY <1>1, <1>2, <3>1, <3>2, PlacesSame, FewerCopies
  <2>3. CASE BodyOf[h] \notin redis.bodies /\ BodyOf[h] = b
    <3>1. Paid(b)' = Paid(b) + 1
      BY <1>1, <1>2, <1>6, <2>1, <2>3 DEF Paid
    <3>. QED
      BY <1>1, <1>2, <1>5, <3>1, PlacesSame, OneMoreWaits
  <2>. QED
    BY <2>2, <2>3
<1>7. CASE spent' = [spent EXCEPT !.faults = @ + 1, !.open = @ + 1] /\ UNCHANGED redis
  <2>1. /\ spent'.open = spent.open + 1 /\ spent'.replays = spent.replays
        /\ spent'.lapses = spent.lapses
    BY <1>1, <1>7 DEF SpentTypes
  <2>2. Paid(b)' = Paid(b) + 1
    BY <1>1, <1>2, <1>7, <2>1 DEF Paid
  <2>. QED
    BY <1>1, <1>2, <1>5, <2>2, PlacesSame, OneMoreWaits
<1>. QED
  BY <1>3, <1>6, <1>7

\* A lapse is paid for by the key that goes.
LEMMA BodyExpiresOnce ==
    ASSUME IInv, OnceInv, NEW e \in Bodies, BodyExpires(e)
    PROVE  OnceInv'
<1>1. /\ redis \in Stores /\ spent \in SpentTypes /\ e \in redis.bodies
      /\ UNCHANGED <<call, queue, worker, deliveries>>
      /\ redis' = [redis EXCEPT !.bodies = @ \ {e}]
  BY Parts DEF BodyExpires, StoreOK, StoreType
<1>. SUFFICES ASSUME NEW b \in Bodies PROVE BodyOK(b)'
  BY DEF OnceInv
<1>2. /\ BodyOK(b) /\ Paid(b) \in Nat /\ spent.lapses[b] \in Nat
      /\ spent.replays \in Nat /\ spent.open \in Nat
  BY <1>1, PaidType, LimitsAssumption DEF OnceInv, SpentTypes
<1>3. redis'.bodies = redis.bodies \ {e}
  BY <1>1 DEF Stores
<1>4. /\ spent'.replays = spent.replays /\ spent'.open = spent.open
      /\ spent'.lapses[e] = spent.lapses[e] + 1
      /\ b # e => spent'.lapses[b] = spent.lapses[b]
  BY <1>1, LapseSpent
<1>5. Paid(b)' = Paid(b)
  <2>1. CASE b = e
    BY <1>1, <1>2, <1>3, <1>4, <2>1 DEF Paid
  <2>2. CASE b # e
    BY <1>3, <1>4, <2>2 DEF Paid
  <2>. QED
    BY <2>1, <2>2
<1>6. Waiting(b)' = Waiting(b)
  BY <1>1 DEF Waiting, Posts
<1>. QED
  BY <1>1, <1>2, <1>5, <1>6, PlacesSame, FewerCopies

LEMMA ReplayOnce ==
    ASSUME IInv, OnceInv, NEW h \in Hooks, NEW p \in Replicas, Replay(h, p)
    PROVE  OnceInv'
<1>1. /\ call \in [Jobs -> Calls] /\ spent \in SpentTypes
      /\ UNCHANGED <<redis, queue, worker, deliveries>>
      /\ spent.replays \in Nat /\ spent.open \in Nat
      /\ call' = [call EXCEPT ![h] = [at |-> "lookup", on |-> p]]
      /\ spent' = [spent EXCEPT !.replays = @ + 1]
  BY Parts, LimitsAssumption DEF Replay, SpentTypes
<1>. SUFFICES ASSUME NEW b \in Bodies PROVE BodyOK(b)'
  BY DEF OnceInv
<1>2. BodyOK(b) /\ Paid(b) \in Nat /\ spent.lapses[b] \in Nat
  BY <1>1, PaidType, LimitsAssumption DEF OnceInv, SpentTypes
<1>3. Waiting(b)' \subseteq Waiting(b) \cup {h}
  BY <1>1 DEF Waiting, Posts, Jobs
<1>4. /\ spent'.open = spent.open /\ spent'.replays = spent.replays + 1
      /\ spent'.lapses = spent.lapses
  BY <1>1 DEF SpentTypes
<1>5. Paid(b)' = Paid(b) + 1
  BY <1>1, <1>2, <1>4 DEF Paid
<1>. QED
  BY <1>1, <1>2, <1>3, <1>5, PlacesSame, OneMoreWaits

LEMMA SendOnce ==
    ASSUME IInv, OnceInv, NEW j \in Jobs, Send(j)
    PROVE  OnceInv'
<1>. DEFINE p == call[j].on
<1>1. /\ call \in [Jobs -> Calls] /\ call[j].at = "send"
      /\ queue \in [Replicas -> Queues]
      /\ UNCHANGED <<redis, clock, worker, deliveries, spent>>
      /\ spent \in SpentTypes /\ redis \in Stores
  BY Parts DEF Send, StoreOK, StoreType
<1>2. CASE queue' = queue
  <2>1. \A h \in Hooks : OnItsWay(h)' => OnItsWay(h)
    <3>1. OnItsWay(j) /\ \E at : Answer(j, at)
      BY <1>1 DEF Send, OnItsWay
    <3>. QED
      BY <1>1, <3>1, AnswersOn
  <2>. QED
    BY <1>1, <1>2, <2>1, NothingSentKeeps DEF NothingSent, PricesKept, Holds
<1>3. CASE queue' # queue
  <2>1. /\ ~(Len(queue[p].ch) >= QueueDepth) /\ Answer(j, "accepted")
        /\ queue' = [queue EXCEPT ![p].ch = Append(@, j)]
    BY <1>3 DEF Send
  <2>2. p \in Replicas
    BY <1>1, <1>3, <2>1
  <2>3. /\ queue[p].ch \in Seq(Jobs) /\ Len(queue[p].ch) \in Nat /\ QueueDepth \in Nat
    BY <1>1, <2>2, LimitsAssumption DEF Queues
  <2>. DEFINE n == Len(queue[p].ch) + 1
              x == <<p, n>>
  <2>4. /\ Append(queue[p].ch, j) \in Seq(Jobs) /\ Len(Append(queue[p].ch, j)) = n
        /\ \A i \in 1..Len(queue[p].ch) : Append(queue[p].ch, j)[i] = queue[p].ch[i]
        /\ Append(queue[p].ch, j)[n] = j
        /\ DOMAIN Append(queue[p].ch, j) = 1..n
        /\ n \in 1..QueueDepth
    <3>1. n \in Nat /\ n \in 1..QueueDepth
      BY <2>1, <2>3
    <3>2. /\ Append(queue[p].ch, j) \in Seq(Jobs) /\ Len(Append(queue[p].ch, j)) = n
          /\ \A i \in 1..Len(queue[p].ch) : Append(queue[p].ch, j)[i] = queue[p].ch[i]
          /\ Append(queue[p].ch, j)[n] = j
      <4>. DEFINE s == queue[p].ch
      <4>1. s \in Seq(Jobs) /\ j \in Jobs
        BY <2>3
      <4>. HIDE DEF s, p
      <4>2. /\ Append(s, j) \in Seq(Jobs) /\ Len(Append(s, j)) = Len(s) + 1
            /\ \A i \in 1..Len(s) : Append(s, j)[i] = s[i]
            /\ Append(s, j)[Len(s) + 1] = j
        BY <4>1, Appended
      <4>. QED
        BY <4>2 DEF s
    <3>3. DOMAIN Append(queue[p].ch, j) = 1..n
      BY <3>2
    <3>. QED
      BY <3>1, <3>2, <3>3
  <2>5. /\ queue'[p].ch = Append(queue[p].ch, j)
        /\ \A q \in Replicas : q # p => queue'[q] = queue[q]
    BY <1>1, <2>1, <2>2, <2>4 DEF Queues
  <2>6. call'[j].at = "accepted" /\ \A h \in Jobs : h # j => call'[h] = call[h]
    BY <1>1, <2>1 DEF Answer, Calls
  <2>. SUFFICES ASSUME NEW b \in Bodies PROVE BodyOK(b)'
    BY DEF OnceInv
  <2>7. BodyOK(b) /\ Paid(b) \in Nat /\ Paid(b)' = Paid(b)
    BY <1>1, PaidType DEF OnceInv, Paid
  <2>8. Held(b)' = Held(b) /\ Prompted(b)' = Prompted(b)
    BY <1>1 DEF Held, Prompted, Posts
  <2>9. Waiting(b)' = Waiting(b) \ {j}
    <3>1. \A h \in Hooks : h \in Jobs
      BY DEF Jobs
    <3>. QED
      BY <2>6, <3>1 DEF Waiting, Posts
  <2>. HIDE DEF n
  <2>10. ASSUME NEW t \in Lined(b)'
         PROVE  t \in Lined(b) \/ (t = x /\ j \in Posts(b))
    <3>1. /\ t \in Replicas \X (1..QueueDepth)
          /\ t[2] \in DOMAIN queue'[t[1]].ch /\ queue'[t[1]].ch[t[2]] \in Posts(b)
      BY DEF Lined, Posts
    <3>2. CASE t[1] # p
      BY <2>5, <3>1, <3>2 DEF Lined
    <3>3. CASE t[1] = p
      <4>1. t[2] \in 1..n /\ Append(queue[p].ch, j)[t[2]] \in Posts(b)
        BY <2>4, <2>5, <3>1, <3>3
      <4>2. CASE t[2] = n
        <5>1. t = x
          BY <3>1, <3>3, <4>2
        <5>. QED
          BY <2>4, <4>1, <4>2, <5>1
      <4>3. CASE t[2] # n
        <5>1. t[2] \in 1..Len(queue[p].ch)
          BY <2>3, <4>1, <4>3 DEF n
        <5>. QED
          BY <2>3, <2>4, <3>1, <3>3, <4>1, <5>1 DEF Lined
      <4>. QED
        BY <4>2, <4>3
    <3>. QED
      BY <3>2, <3>3
  <2>11. CASE j \in Posts(b)
    <3>1. j \in Waiting(b)
      BY <1>1, <2>11 DEF Waiting
    <3>2. Lined(b)' \subseteq Lined(b) \cup {x}
      BY <2>10
    <3>. HIDE DEF x
    <3>. QED
      BY <2>7, <2>8, <2>9, <3>1, <3>2, WaitingToLined
  <2>12. CASE j \notin Posts(b)
    <3>1. Lined(b)' \subseteq Lined(b)
      BY <2>10, <2>12
    <3>2. Waiting(b)' \subseteq Waiting(b)
      BY <2>9
    <3>. QED
      BY <2>7, <2>8, <3>1, <3>2, FewerCopies
  <2>. QED
    BY <2>11, <2>12
<1>. QED
  BY <1>2, <1>3

LEMMA TakeOnce ==
    ASSUME IInv, OnceInv, NEW p \in Replicas, Take(p)
    PROVE  OnceInv'
<1>. DEFINE j == Head(queue[p].ch)
<1>1. /\ worker[p].at = "idle" /\ queue[p].ch # <<>>
      /\ queue' = [queue EXCEPT ![p].ch = Tail(@)]
      /\ UNCHANGED <<redis, clock, call, deliveries, spent>>
      /\ Len(queue[p].ch) <= QueueDepth /\ spent \in SpentTypes
      /\ worker \in [Replicas -> Workers] /\ queue \in [Replicas -> Queues] /\ QueueDepth \in Nat
  BY Parts, LimitsAssumption DEF Take
<1>2. /\ queue[p].ch \in Seq(Jobs) /\ j \in Jobs /\ j = queue[p].ch[1]
      /\ Len(queue[p].ch) \in Nat /\ Len(queue[p].ch) > 0
      /\ Tail(queue[p].ch) \in Seq(Jobs) /\ Len(Tail(queue[p].ch)) = Len(queue[p].ch) - 1
      /\ \A i \in 1..(Len(queue[p].ch) - 1) : Tail(queue[p].ch)[i] = queue[p].ch[i + 1]
  <2>1. queue[p].ch \in Seq(Jobs)
    BY <1>1 DEF Queues
  <2>. QED
    BY <1>1, <2>1, Tailed
<1>. HIDE DEF j
<1>3. /\ queue'[p].ch = Tail(queue[p].ch)
      /\ \A q \in Replicas : q # p => queue'[q] = queue[q]
  BY <1>1, <1>2 DEF Queues
<1>4. worker'[p].job = j /\ \A q \in Replicas : q # p => worker'[q] = worker[q]
  <2>. DEFINE v == [IdleWorker EXCEPT !.job = j, !.at = "wait"]
              u == [v EXCEPT !.at = "record", !.outcome = "agent_unavailable"]
  <2>1. v.job = j /\ u.job = j
    BY DEF IdleWorker
  <2>2. \E w \in {u, v} : worker' = [worker EXCEPT ![p] = w]
    BY DEF Take, Does, j
  <2>. HIDE DEF u, v
  <2>. QED
    BY <1>1, <2>1, <2>2
<1>. SUFFICES ASSUME NEW b \in Bodies PROVE BodyOK(b)'
  BY DEF OnceInv
<1>5. BodyOK(b) /\ Paid(b) \in Nat /\ Paid(b)' = Paid(b)
  BY <1>1, PaidType DEF OnceInv, Paid
<1>6. Waiting(b)' = Waiting(b) /\ Prompted(b)' = Prompted(b)
  BY <1>1 DEF Waiting, Prompted, Posts
<1>. DEFINE x == <<p, 1>>
            moved(t) == IF t[1] = p THEN <<p, t[2] + 1>> ELSE t
            f == [t \in Lined(b)' |-> moved(t)]
\* A place in line was one further back, or is in another replica's line.
<1>7. ASSUME NEW t \in Lined(b)'
      PROVE  /\ moved(t) \in Lined(b) \ {x}
             /\ t \in Replicas \X (1..QueueDepth)
  <2>1. /\ t \in Replicas \X (1..QueueDepth)
        /\ t[2] \in DOMAIN queue'[t[1]].ch /\ queue'[t[1]].ch[t[2]] \in Posts(b)
    BY DEF Lined, Posts
  <2>2. CASE t[1] # p
    <3>1. t \in Lined(b)
      BY <1>3, <2>1, <2>2 DEF Lined
    <3>. QED
      BY <2>1, <2>2, <3>1
  <2>3. CASE t[1] = p
    <3>. DEFINE i == t[2] + 1
    <3>1. t[2] \in 1..(Len(queue[p].ch) - 1) /\ Tail(queue[p].ch)[t[2]] \in Posts(b)
      <4>1. DOMAIN Tail(queue[p].ch) = 1..(Len(queue[p].ch) - 1)
        BY <1>2
      <4>2. t[2] \in DOMAIN Tail(queue[p].ch) /\ Tail(queue[p].ch)[t[2]] \in Posts(b)
        BY <1>3, <2>1, <2>3
      <4>. QED
        BY <4>1, <4>2
    <3>2. /\ i \in 1..Len(queue[p].ch) /\ i \in 1..QueueDepth /\ i # 1
          /\ queue[p].ch[i] \in Posts(b)
      BY <1>1, <1>2, <3>1
    <3>. HIDE DEF i
    <3>3. <<p, i>> \in Replicas \X (1..QueueDepth) /\ <<p, i>>[1] = p /\ <<p, i>>[2] = i
      BY <3>2
    <3>4. i \in DOMAIN queue[p].ch
      BY <1>2, <3>2
    <3>5. <<p, i>> \in Lined(b) /\ <<p, i>> # x
      BY <3>2, <3>3, <3>4 DEF Lined
    <3>. QED
      BY <2>1, <2>3, <3>5 DEF i
  <2>. QED
    BY <2>2, <2>3
<1>8. ASSUME NEW s \in Lined(b)', NEW t \in Lined(b)', moved(s) = moved(t)
      PROVE  s = t
  <2>1. /\ s \in Replicas \X (1..QueueDepth) /\ t \in Replicas \X (1..QueueDepth)
        /\ s = <<s[1], s[2]>> /\ t = <<t[1], t[2]>> /\ s[2] \in Nat /\ t[2] \in Nat
    <3>1. s \in Replicas \X (1..QueueDepth) /\ t \in Replicas \X (1..QueueDepth)
      BY <1>7
    <3>. QED
      BY <1>1, <3>1
  <2>2. moved(s)[1] = s[1] /\ moved(t)[1] = t[1]
    OBVIOUS
  <2>3. s[1] = t[1]
    BY <1>8, <2>2
  <2>4. CASE s[1] = p
    <3>1. s[2] + 1 = t[2] + 1
      BY <1>8, <2>3, <2>4
    <3>. QED
      BY <2>1, <2>3, <3>1
  <2>5. CASE s[1] # p
    BY <1>8, <2>3, <2>5
  <2>. QED
    BY <2>4, <2>5
<1>. HIDE DEF moved, x
<1>9. f \in Injection(Lined(b)', Lined(b) \ {x}) /\ f \in Injection(Lined(b)', Lined(b))
  BY <1>7, <1>8 DEF Injection, IsInjective
<1>. HIDE DEF f
<1>10. CASE j \in Posts(b)
  <2>1. x \in Lined(b)
    <3>1. x \in Replicas \X (1..QueueDepth) /\ x[1] = p /\ x[2] = 1
      BY <1>1, <1>2 DEF x
    <3>2. 1 \in DOMAIN queue[p].ch
      BY <1>2
    <3>. QED
      BY <1>2, <1>10, <3>1, <3>2 DEF Lined
  <2>2. Held(b)' \subseteq Held(b) \cup {p}
    BY <1>4 DEF Held, Posts
  <2>. QED
    BY <1>5, <1>6, <1>9, <2>1, <2>2, LinedToHeld
<1>11. CASE j \notin Posts(b)
  <2>1. Held(b)' = Held(b)
    <3>1. p \notin Held(b)' /\ p \notin Held(b)
      BY <1>1, <1>4, <1>11 DEF Held, Posts
    <3>2. \A q \in Replicas : q # p => (q \in Held(b)' <=> q \in Held(b))
      BY <1>4 DEF Held, Posts
    <3>3. Held(b)' \subseteq Replicas /\ Held(b) \subseteq Replicas
      BY DEF Held
    <3>. QED
      BY <3>1, <3>2, <3>3
  <2>. QED
    BY <1>5, <1>6, <1>9, <2>1, LinedElsewhere
<1>. QED
  BY <1>10, <1>11

\* The prompts after one more of a job.
LEMMA PromptedMore ==
    ASSUME deliveries \in [Jobs -> Nat], NEW j \in Jobs, NEW b,
           deliveries' = [deliveries EXCEPT ![j] = @ + 1]
    PROVE  Prompted(b)' = IF j \in Posts(b) THEN Prompted(b) \cup {<<j, deliveries[j] + 1>>}
                          ELSE Prompted(b)
<1>. DEFINE n == deliveries[j] + 1
<1>1. /\ \A h \in Posts(b) : h \in Jobs
      /\ \A h \in Posts(b) : deliveries'[h] = IF h = j THEN n ELSE deliveries[h]
  BY DEF Posts, Jobs
<1>2. 1..n = 1..deliveries[j] \cup {n}
  OBVIOUS
<1>3. Prompted(b)' = UNION {{h} \X (1..deliveries'[h]) : h \in Posts(b)}
  BY DEF Prompted, Posts
<1>. HIDE DEF n
<1>4. ASSUME NEW t \in Prompted(b)'
      PROVE  t \in Prompted(b) \/ (j \in Posts(b) /\ t = <<j, n>>)
  <2>1. PICK h \in Posts(b) : t \in {h} \X (1..deliveries'[h])
    BY <1>3
  <2>2. CASE h # j
    BY <1>1, <2>1, <2>2 DEF Prompted
  <2>3. CASE h = j
    <3>1. t \in {j} \X (1..n)
      BY <1>1, <2>1, <2>3
    <3>2. t \in {j} \X (1..deliveries[j]) \/ t = <<j, n>>
      BY <1>2, <3>1
    <3>. QED
      BY <2>3, <3>2 DEF Prompted
  <2>. QED
    BY <2>2, <2>3
<1>5. ASSUME NEW t \in Prompted(b)
      PROVE  t \in Prompted(b)'
  <2>1. PICK h \in Posts(b) : t \in {h} \X (1..deliveries[h])
    BY DEF Prompted
  <2>2. t \in {h} \X (1..deliveries'[h])
    <3>1. CASE h # j
      BY <1>1, <2>1, <3>1
    <3>2. CASE h = j
      <4>1. {j} \X (1..deliveries[j]) \subseteq {j} \X (1..n)
        BY <1>2
      <4>. QED
        BY <1>1, <2>1, <3>2, <4>1
    <3>. QED
      BY <3>1, <3>2
  <2>. QED
    BY <1>3, <2>2
<1>6. ASSUME j \in Posts(b)
      PROVE  <<j, n>> \in Prompted(b)'
  <2>1. <<j, n>> \in {j} \X (1..n) /\ deliveries'[j] = n
    BY <1>1, <1>2, <1>6
  <2>. QED
    BY <1>3, <1>6, <2>1
<1>. QED
  BY <1>4, <1>5, <1>6 DEF n

LEMMA PromptOnce ==
    ASSUME IInv, OnceInv, NEW p \in Replicas, Prompt(p)
    PROVE  OnceInv'
<1>. DEFINE j == worker[p].job
            w == [worker[p] EXCEPT !.sent = TRUE]
<1>1. /\ worker[p].at = "deliver" /\ ~worker[p].sent /\ worker' = [worker EXCEPT ![p] = w]
      /\ deliveries' = [deliveries EXCEPT ![j] = @ + 1]
      /\ UNCHANGED <<redis, clock, call, queue, spent>>
      /\ worker \in [Replicas -> Workers] /\ worker[p] \in Workers /\ j \in Jobs
      /\ deliveries \in [Jobs -> Nat] /\ spent \in SpentTypes
  BY WorkerTyped, Parts DEF Prompt, Does
<1>2. w.sent
  BY <1>1 DEF Workers
<1>. HIDE DEF w
<1>3. worker'[p].sent /\ \A q \in Replicas : q # p => worker'[q] = worker[q]
  BY <1>1, <1>2
<1>. SUFFICES ASSUME NEW b \in Bodies PROVE BodyOK(b)'
  BY DEF OnceInv
<1>4. BodyOK(b) /\ Paid(b) \in Nat /\ Paid(b)' = Paid(b)
  BY <1>1, PaidType DEF OnceInv, Paid
<1>5. Waiting(b)' = Waiting(b) /\ Lined(b)' = Lined(b)
  BY <1>1 DEF Waiting, Lined, Posts
<1>6. Held(b)' = Held(b) \ {p}
  <2>1. p \notin Held(b)'
    BY <1>3 DEF Held
  <2>2. \A q \in Replicas : q # p => (q \in Held(b)' <=> q \in Held(b))
    BY <1>3 DEF Held, Posts
  <2>3. Held(b)' \subseteq Replicas /\ Held(b) \subseteq Replicas
    BY DEF Held
  <2>. QED
    BY <2>1, <2>2, <2>3
<1>. DEFINE x == <<j, deliveries[j] + 1>>
<1>7. Prompted(b)' = IF j \in Posts(b) THEN Prompted(b) \cup {x} ELSE Prompted(b)
  BY <1>1, PromptedMore
<1>. HIDE DEF x
<1>8. CASE j \in Posts(b)
  <2>1. p \in Held(b)
    BY <1>1, <1>8 DEF Held
  <2>2. Prompted(b)' = Prompted(b) \cup {x}
    BY <1>7, <1>8
  <2>. QED
    BY <1>4, <1>5, <1>6, <2>1, <2>2, HeldToPrompted
<1>9. CASE j \notin Posts(b)
  <2>1. Prompted(b)' = Prompted(b) /\ Held(b)' \subseteq Held(b)
    BY <1>6, <1>7, <1>9
  <2>. QED
    BY <1>4, <1>5, <2>1, FewerCopies
<1>. QED
  BY <1>8, <1>9

LEMMA InitOnce == Init => OnceInv
<1>. SUFFICES ASSUME Init, NEW b \in Bodies PROVE BodyOK(b)
  BY DEF OnceInv
<1>1. IInv
  BY InitInv
<1>2. Waiting(b) = {}
  BY DEF Init, Waiting, Posts, Jobs
<1>3. Lined(b) = {}
  <2>1. \A q \in Replicas : queue[q].ch = <<>> /\ DOMAIN queue[q].ch = {}
    <3>1. NewQueue.ch = <<>>
      BY DEF NewQueue
    <3>. QED
      BY <3>1 DEF Init
  <2>. QED
    BY <2>1 DEF Lined
<1>4. Held(b) = {}
  <2>1. \A q \in Replicas : worker[q].at = "idle"
    BY IdleTyped DEF Init
  <2>. QED
    BY <2>1 DEF Held
<1>5. Prompted(b) = {}
  <2>1. \A h \in Posts(b) : deliveries[h] = 0
    BY DEF Init, Posts, Jobs
  <2>2. 1..0 = {}
    OBVIOUS
  <2>3. \A h \in Posts(b) : {h} \X (1..deliveries[h]) = {}
    BY <2>1, <2>2
  <2>. QED
    BY <2>3 DEF Prompted
<1>6. IsFiniteSet({}) /\ Cardinality({}) = 0
  BY FS_EmptySet
<1>7. Paid(b) \in Nat
  BY <1>1, Parts, PaidType
<1>. QED
  BY <1>2, <1>3, <1>4, <1>5, <1>6, <1>7 DEF BodyOK, AllFinite, Copies

LEMMA NextOnce ==
    ASSUME IInv, OnceInv, [Next]_vars
    PROVE  OnceInv'
<1>1. ASSUME \/ \E r \in Requests : Reply(r) \/ \E p \in Replicas : Submit(r, p)
             \/ \E h \in Hooks : Stash(h)
             \/ \E j \in Jobs : Lookup(j) \/ Reject(j)
             \/ Expire \/ UNCHANGED vars
      PROVE  OnceInv'
  BY <1>1, HandlersCalm, NothingSentKeeps
<1>2. ASSUME NEW h \in Hooks, NEW p \in Replicas, Post(h, p) \/ Replay(h, p)
      PROVE  OnceInv'
  BY <1>2, PostOnce, ReplayOnce
<1>3. ASSUME NEW j \in Jobs, Send(j)
      PROVE  OnceInv'
  BY <1>3, SendOnce
<1>4. ASSUME NEW p \in Replicas, Take(p) \/ Prompt(p)
      PROVE  OnceInv'
  BY <1>4, TakeOnce, PromptOnce
<1>5. ASSUME NEW p \in Replicas, Deadline(p) \/ WaitEnds(p) \/ DeliverEnds(p) \/ Record(p)
      PROVE  OnceInv'
  BY <1>5, WorkersCalm, NothingSentKeeps
<1>6. ASSUME NEW p \in Replicas, Stop(p) \/ Stopping(p) \/ Restart(p) \/ Crash(p)
      PROVE  OnceInv'
  BY <1>6, StopsCalm, NothingSentKeeps
<1>7. ASSUME NEW b \in Bodies, BodyExpires(b)
      PROVE  OnceInv'
  BY <1>7, BodyExpiresOnce
<1>. QED
  BY <1>1, <1>2, <1>3, <1>4, <1>5, <1>6, <1>7 DEF Next, Handler, Delivery

\* No crash, restart, late worker or repeated post delivers a request a second time,
\* or a webhook's body more often than once for each life of its dedupe key and once
\* for every replay and every post that the failing deduper let through.
THEOREM DeliveriesOnce == Spec => []DeliveredOnce
<1>1. ASSUME IInv, OnceInv
      PROVE  DeliveredOnce
  <2>1. \A r \in Requests : deliveries[r] <= 1
    BY <1>1 DEF IInv, AnswerOK
  <2>2. ASSUME NEW b \in Bodies
        PROVE  Cardinality(Prompted(b)) <= 1 + spent.lapses[b] + spent.replays + spent.open
    <3>1. spent.replays \in Nat /\ spent.open \in Nat /\ spent.lapses[b] \in Nat
      BY <1>1, Parts, LimitsAssumption DEF SpentTypes
    <3>2. Paid(b) \in Nat /\ Paid(b) <= 1 + spent.lapses[b] + spent.replays + spent.open
      BY <3>1 DEF Paid
    <3>3. AllFinite(b) /\ Copies(b) <= Paid(b)
      BY <1>1 DEF OnceInv, BodyOK
    <3>4. /\ Cardinality(Prompted(b)) \in Nat /\ Cardinality(Prompted(b)) <= Copies(b)
          /\ Copies(b) \in Nat
      BY <3>3, Sizes DEF Copies
    <3>. QED
      BY <3>1, <3>2, <3>3, <3>4
  <2>. QED
    BY <2>1, <2>2 DEF DeliveredOnce
<1>2. Spec => []OnceInv
  BY Inductive, InitOnce, NextOnce, PTL DEF Spec
<1>. QED
  BY Inductive, <1>1, <1>2, PTL
=============================================================================
