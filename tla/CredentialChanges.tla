------------------------- MODULE CredentialChanges -------------------------
(* Changes of operator keys (pkg/api/routes_operator_credential_mutations.go, *)
(* operator_credential_mutation.go, operator_credential_delivery.go,          *)
(* pkg/operatorcredentials, pkg/securityaudit/credential_operations.go). The  *)
(* keys live in one Kubernetes Secret, written whole under its resource       *)
(* version; what was asked for and what came of it lives in a PostgreSQL      *)
(* journal. The two cannot be written together: the Secret carries a          *)
(* reference to every change until its success is in the journal, and an      *)
(* interrupted change is settled by fencing the version it was prepared for.  *)
EXTENDS Naturals, FiniteSets

CONSTANTS
    Keys,            \* credentials of the registry at the start, administrators all
    Ops,             \* operation ids the clients choose
    Posts, OpsOf,    \* POSTs of changes and the operation ids each may carry
    Asked,           \* the changes that may be asked for under an operation id
    Recoveries,      \* explicit recovery requests that can be under way at once
    None,
    MaxOperations,   \* references the registry can hold
    MaxInspected,    \* references one delivery pass looks at
    MaxFaults        \* bound: failed calls, lost answers, handlers cut short

ASSUME OpsAssumption == /\ Ops \subseteq Nat \ {0} /\ IsFiniteSet(Ops)
                        /\ OpsOf \in [Posts -> SUBSET Ops]
ASSUME KeysAssumption == Keys # {} /\ Keys \cap Ops = {} /\ None \notin Ops
ASSUME LimitsAssumption == {MaxOperations, MaxInspected, MaxFaults} \subseteq Nat

VARIABLES
    registry,   \* the Secret: version, credentials, references to changes
    journal,    \* operator_credential_operations: intent and outcome
    wire,       \* updates sent and given up on; the API server may still get them
    post,       \* handlers of POST .../credentials
    recovery,   \* handlers of POST .../reconcile
    pass,       \* the leader's delivery pass
    applied,    \* history: the changes that have reached the registry
    faults

vars == <<registry, journal, wire, post, recovery, pass, applied, faults>>

(* A created credential is named after the operation that creates it.        *)
Credentials == Keys \cup Ops
Credential == [state: {"absent", "active", "revoked"}, administrator: BOOLEAN,
               expires: BOOLEAN, generation: Nat]
References == {"none", "pending", "delivered"}
Document == [credential: [Credentials -> Credential], reference: [Ops -> References]]
Registry == [version: Nat, document: Document]

Policies == {p \in [administrator: BOOLEAN, expires: BOOLEAN] : p.administrator \/ ~p.expires}
Changes == [action: {"create", "update"}, target: Credentials, policy: Policies, actor: Credentials]
             \cup [action: {"rotate", "revoke"}, target: Credentials, policy: {None},
                   actor: Credentials]

ASSUME AskedAssumption == \A o \in Ops : Asked[o] \subseteq Changes

----------------------------------------------------------------------------
(* prepareManagedCredentialMutation: pure, from one snapshot.                *)

CurrentAdministrator(document, k) ==
    document.credential[k].state = "active" /\ document.credential[k].administrator

DurableAdministrators(document) ==
    {k \in Credentials : /\ CurrentAdministrator(document, k)
                         /\ ~document.credential[k].expires}

TargetOK(document, o, c) ==
    IF c.action = "create"
      THEN c.target = o /\ document.credential[o].state = "absent"
      ELSE document.credential[c.target].state = "active"

(* An absent credential has generation 0, so creating it is its first step.  *)
Changed(credential, c) ==
    LET policy == IF c.action \in {"create", "update"} THEN c.policy ELSE credential IN
    [state |-> IF c.action = "revoke" THEN "revoked" ELSE "active",
     administrator |-> policy.administrator,
     expires |-> policy.expires,
     generation |-> IF c.action \in {"create", "rotate"} THEN credential.generation + 1
                                                         ELSE credential.generation]

Prepared(document, o, c) ==
    [credential |-> [document.credential EXCEPT ![c.target] = Changed(@, c)],
     reference |-> [document.reference EXCEPT ![o] = "pending"]]

(* Faulty variant: an administrator that expires counts as one that remains. *)
ExpiringSuffices(document, o, c) ==
    /\ CurrentAdministrator(document, c.actor)
    /\ TargetOK(document, o, c)
    /\ Cardinality({q \in Ops : document.reference[q] # "none"}) < MaxOperations
    /\ \E k \in Credentials : CurrentAdministrator(Prepared(document, o, c), k)

CanPrepare(document, o, c) ==
    /\ CurrentAdministrator(document, c.actor)
    /\ TargetOK(document, o, c)
    /\ Cardinality({q \in Ops : document.reference[q] # "none"}) < MaxOperations
    /\ DurableAdministrators(Prepared(document, o, c)) # {}

----------------------------------------------------------------------------
(* The registry. AuthorityStore.Replace and Fence read the selected Secret   *)
(* once more and send one update, which the API server takes only at the     *)
(* version it was read at. What a client gave up on may still arrive.        *)

Update(version, document, o) == [version |-> version, document |-> document, op |-> o]

(* Faulty variant: the update carries no resource version.                   *)
AlwaysCurrent(version) == version \in Nat

Current(version) == version = registry.version

Commit(u) ==
    /\ registry' = [version |-> registry.version + 1, document |-> u.document]
    /\ applied' = applied \cup ({u.op} \ {None})

Refuse == UNCHANGED <<registry, applied>>

Replace(u) == (Current(u.version) /\ Commit(u)) \/ (~Current(u.version) /\ Refuse)

(* transition: what the store lets no writer do to the stored document. That *)
(* the actor of a new reference is an administrator, which it checks again   *)
(* here, CanPrepare has asked of the same version.                           *)
Transition(old, next) ==
    /\ \A o \in Ops : /\ old.reference[o] = "none" => next.reference[o] # "delivered"
                      /\ old.reference[o] = "pending" => next.reference[o] # "none"
                      /\ old.reference[o] = "delivered" => next.reference[o] # "pending"
    /\ \A k \in Credentials :
         /\ old.credential[k].state = "revoked" => next.credential[k] = old.credential[k]
         /\ next.credential[k].state = "absent" => old.credential[k].state = "absent"
         /\ next.credential[k].generation \in
              {old.credential[k].generation, old.credential[k].generation + 1}
         /\ next.credential[k] # old.credential[k] =>
              \E o \in Ops : old.reference[o] = "none" /\ next.reference[o] = "pending"

(* The client stops waiting: the update stays under way.                     *)
Unanswered(u) ==
    /\ Current(u.version)
    /\ wire' = wire \cup {u}
    /\ UNCHANGED <<registry, applied>>

Fault == faults < MaxFaults /\ faults' = faults + 1
NoFault == UNCHANGED faults

(* The API server receives an update nobody waits for any more.              *)
Arrives(u) ==
    /\ u \in wire
    /\ Current(u.version)
    /\ Commit(u)
    /\ wire' = wire \ {u}
    /\ NoFault
    /\ UNCHANGED <<journal, post, recovery, pass>>

----------------------------------------------------------------------------
(* The journal.                                                              *)

NoIntent == [outcome |-> "none", version |-> 0, actor |-> None, generation |-> 0]
Intent == [outcome: {"none", "pending", "success", "failure"}, version: Nat,
           actor: Credentials \cup {None}, generation: Nat]

(* FinishCredentialOperation: the first outcome stays.                       *)
Finished(o, outcome) ==
    IF journal[o].outcome = "pending" THEN [journal EXCEPT ![o].outcome = outcome] ELSE journal

----------------------------------------------------------------------------
(* handleOperatorCredentialMutation                                          *)

NoPost == [at |-> "idle", op |-> None, version |-> 0, document |-> None, actor |-> None,
           generation |-> 0, outcome |-> "none"]

PostAt(p, step) == post' = [post EXCEPT ![p].at = step]
PostDone(p) == post' = [post EXCEPT ![p] = [NoPost EXCEPT !.at = "done"]]
PostUpdate(p) == Update(post[p].version, post[p].document, post[p].op)

(* Load, the If-Match test and the preparation, from one snapshot, then the  *)
(* look at the journal, which turns a repeated POST away. The admission asks *)
(* again, so nothing depends on what happens between the two reads.          *)
PostLoads(p) ==
    /\ post[p].at = "idle"
    /\ \E o \in OpsOf[p] : \E c \in Asked[o] :
         /\ CanPrepare(registry.document, o, c)
         /\ journal[o].outcome = "none"
         /\ post' = [post EXCEPT ![p] =
              [at |-> "admit", op |-> o, version |-> registry.version,
               document |-> Prepared(registry.document, o, c), actor |-> c.actor,
               generation |-> registry.document.credential[c.actor].generation,
               outcome |-> "none"]]
    /\ NoFault
    /\ UNCHANGED <<registry, journal, wire, recovery, pass, applied>>

Admitted(p) ==
    [journal EXCEPT ![post[p].op] = [outcome |-> "pending", version |-> post[p].version,
                                  actor |-> post[p].actor, generation |-> post[p].generation]]

PostAdmits(p) ==
    /\ post[p].at = "admit"
    /\ IF journal[post[p].op].outcome = "none"
         THEN journal' = Admitted(p) /\ PostAt(p, "recheck")
         ELSE UNCHANGED journal /\ PostDone(p)
    /\ NoFault
    /\ UNCHANGED <<registry, wire, recovery, pass, applied>>

(* The admission commits and its answer is lost: no write follows.           *)
PostAdmissionLost(p) ==
    /\ post[p].at = "admit"
    /\ journal[post[p].op].outcome = "none"
    /\ journal' = Admitted(p)
    /\ PostDone(p)
    /\ Fault
    /\ UNCHANGED <<registry, wire, recovery, pass, applied>>

PostEnds(p, outcome) == post' = [post EXCEPT ![p] = [NoPost EXCEPT !.at = "finish", !.op = post[p].op,
                                                           !.outcome = outcome]]

PostRechecks(p) ==
    /\ post[p].at = "recheck"
    /\ IF Current(post[p].version) THEN PostAt(p, "replace") ELSE PostEnds(p, "failure")
    /\ NoFault
    /\ UNCHANGED <<registry, journal, wire, recovery, pass, applied>>

PostReplaces(p) ==
    /\ post[p].at = "replace"
    /\ IF Current(post[p].version) /\ Transition(registry.document, post[p].document)
         THEN Commit(PostUpdate(p)) /\ PostEnds(p, "success")
         ELSE Refuse /\ PostEnds(p, "failure")
    /\ NoFault
    /\ UNCHANGED <<journal, wire, recovery, pass>>

(* An update without an answer leaves the operation pending.                 *)
PostUnanswered(p) ==
    /\ post[p].at = "replace"
    /\ Transition(registry.document, post[p].document)
    /\ Unanswered(PostUpdate(p))
    /\ PostDone(p)
    /\ Fault
    /\ UNCHANGED <<journal, recovery, pass>>

PostFinishes(p) ==
    /\ post[p].at = "finish"
    /\ journal' = Finished(post[p].op, post[p].outcome)
    /\ PostDone(p)
    /\ NoFault
    /\ UNCHANGED <<registry, wire, recovery, pass, applied>>

(* A failed call, the eight-second deadline or a crash between two calls.    *)
PostGivesUp(p) ==
    /\ post[p].at \notin {"idle", "done"}
    /\ PostDone(p)
    /\ Fault
    /\ UNCHANGED <<registry, journal, wire, recovery, pass, applied>>

----------------------------------------------------------------------------
(* handleReconcileOperatorCredentialOperation: an administrator asks for the *)
(* outcome of an interrupted change.                                         *)

NoRecovery == [at |-> "idle", op |-> None, outcome |-> "none"]

(* Faulty variant: no reference is taken for no effect, without a fence.     *)
HastyEvidence(o) ==
    IF registry.document.reference[o] # "none" THEN "success" ELSE "failure"

(* credentialRecoveryEvidence: what the registry says about a change.        *)
Evidence(o) ==
    IF registry.document.reference[o] # "none" THEN "success"
    ELSE IF registry.version # journal[o].version THEN "failure" ELSE "none"

RecoveryStarts(r) ==
    /\ recovery[r].at = "idle"
    /\ \E o \in Ops :
         /\ journal[o].outcome = "pending"
         /\ recovery' = [recovery EXCEPT ![r] = [at |-> "load", op |-> o, outcome |-> "none"]]
    /\ NoFault
    /\ UNCHANGED <<registry, journal, wire, post, pass, applied>>

RecoveryLoads(r) ==
    /\ recovery[r].at = "load"
    /\ LET e == Evidence(recovery[r].op) IN
         recovery' = [recovery EXCEPT ![r].at = IF e = "none" THEN "fence" ELSE "finish",
                                      ![r].outcome = e]
    /\ NoFault
    /\ UNCHANGED <<registry, journal, wire, post, pass, applied>>

Fence(r) == Update(journal[recovery[r].op].version, registry.document, None)
RecoveryReloadsNext(r) == recovery' = [recovery EXCEPT ![r].at = "reload"]

(* Faulty variant: the version is only looked at, not advanced.              *)
FenceOmitted(r) ==
    /\ recovery[r].at = "fence"
    /\ RecoveryReloadsNext(r)
    /\ NoFault
    /\ UNCHANGED <<registry, journal, wire, post, pass, applied>>

RecoveryFences(r) ==
    /\ recovery[r].at = "fence"
    /\ Replace(Fence(r))
    /\ RecoveryReloadsNext(r)
    /\ NoFault
    /\ UNCHANGED <<journal, wire, post, pass>>

RecoveryUnanswered(r) ==
    /\ recovery[r].at = "fence"
    /\ Unanswered(Fence(r))
    /\ RecoveryReloadsNext(r)
    /\ Fault
    /\ UNCHANGED <<journal, post, pass>>

RecoveryReloads(r) ==
    /\ recovery[r].at = "reload"
    /\ LET e == Evidence(recovery[r].op) IN
         recovery' = [recovery EXCEPT ![r] =
           IF e = "none" THEN NoRecovery ELSE [@ EXCEPT !.at = "finish", !.outcome = e]]
    /\ NoFault
    /\ UNCHANGED <<registry, journal, wire, post, pass, applied>>

RecoveryFinishes(r) ==
    /\ recovery[r].at = "finish"
    /\ journal' = Finished(recovery[r].op, recovery[r].outcome)
    /\ recovery' = [recovery EXCEPT ![r] = NoRecovery]
    /\ NoFault
    /\ UNCHANGED <<registry, wire, post, pass, applied>>

RecoveryGivesUp(r) ==
    /\ recovery[r].at # "idle"
    /\ recovery' = [recovery EXCEPT ![r] = NoRecovery]
    /\ Fault
    /\ UNCHANGED <<registry, journal, wire, post, pass, applied>>

----------------------------------------------------------------------------
(* OperatorCredentialDelivery.RunOnce, every five seconds on the leader.     *)

NoPass == [at |-> "idle", version |-> 0, document |-> None, left |-> 0, after |-> 0,
           mark |-> {}, prune |-> {}]

Referenced(document) == {o \in Ops : document.reference[o] # "none"}
SmallerOf(m, n) == IF m <= n THEN m ELSE n

(* The reference after the cursor, from the start again after the last.      *)
NextReference ==
    LET refs == Referenced(pass.document)
        later == {o \in refs : o > pass.after}
        from == IF later = {} THEN refs ELSE later
    IN CHOOSE o \in from : \A q \in from : o <= q

PassStarts ==
    /\ pass.at = "idle"
    /\ Referenced(registry.document) # {}
    /\ pass' = [pass EXCEPT !.at = "inspect", !.version = registry.version,
                            !.document = registry.document,
                            !.left = SmallerOf(Cardinality(Referenced(registry.document)),
                                               MaxInspected)]
    /\ NoFault
    /\ UNCHANGED <<registry, journal, wire, post, recovery, applied>>

(* Faulty variant: a reference found delivered is taken to be done with.     *)
DeliveredSkipped ==
    /\ pass.at = "inspect" /\ pass.left > 0
    /\ journal' = Finished(NextReference, "success")
    /\ pass' = [pass EXCEPT
          !.left = @ - 1, !.after = NextReference,
          !.mark = IF pass.document.reference[NextReference] = "pending"
                     THEN @ \cup {NextReference} ELSE @]
    /\ NoFault
    /\ UNCHANGED <<registry, wire, post, recovery, applied>>

(* The success is made durable first; a reference is marked delivered by one *)
(* pass and removed by a later one, which asks the journal again.            *)
PassInspects ==
    /\ pass.at = "inspect" /\ pass.left > 0
    /\ LET o == NextReference
           confirmed == Finished(o, "success")[o].outcome = "success"
           delivered == pass.document.reference[o] = "delivered"
       IN /\ journal' = Finished(o, "success")
          /\ pass' = [pass EXCEPT
                !.left = @ - 1, !.after = o,
                !.mark = IF confirmed /\ ~delivered THEN @ \cup {o} ELSE @,
                !.prune = IF confirmed /\ delivered THEN @ \cup {o} ELSE @]
    /\ NoFault
    /\ UNCHANGED <<registry, wire, post, recovery, applied>>

(* A journal call fails, with or without its commit; the cursor moves on.    *)
PassSkips ==
    /\ pass.at = "inspect" /\ pass.left > 0
    /\ journal' \in {journal, Finished(NextReference, "success")}
    /\ pass' = [pass EXCEPT !.left = @ - 1, !.after = NextReference]
    /\ Fault
    /\ UNCHANGED <<registry, wire, post, recovery, applied>>

Confirmed ==
    [pass.document EXCEPT !.reference =
       [o \in Ops |-> IF o \in pass.prune THEN "none"
                      ELSE IF o \in pass.mark THEN "delivered" ELSE @[o]]]

PassEnds == pass' = [NoPass EXCEPT !.after = pass.after]
PassUpdate == Update(pass.version, Confirmed, None)

PassWrites ==
    /\ pass.at = "inspect" /\ pass.left = 0
    /\ IF pass.mark \cup pass.prune = {} \/ ~Current(pass.version)
         THEN Refuse
         ELSE IF Transition(registry.document, Confirmed) THEN Commit(PassUpdate) ELSE Refuse
    /\ PassEnds
    /\ NoFault
    /\ UNCHANGED <<journal, wire, post, recovery>>

PassUnanswered ==
    /\ pass.at = "inspect" /\ pass.left = 0
    /\ pass.mark \cup pass.prune # {}
    /\ Transition(registry.document, Confirmed)
    /\ Unanswered(PassUpdate)
    /\ PassEnds
    /\ Fault
    /\ UNCHANGED <<journal, post, recovery>>

(* The deadline passes, or another replica becomes the leader: the cursor is *)
(* the process's own.                                                        *)
PassGivesUp ==
    /\ pass.at # "idle"
    /\ pass' \in {NoPass, [NoPass EXCEPT !.after = pass.after]}
    /\ Fault
    /\ UNCHANGED <<registry, journal, wire, post, recovery, applied>>

----------------------------------------------------------------------------
Init ==
    /\ registry = [version |-> 1,
                   document |-> [credential |-> [k \in Credentials |->
                                   [state |-> IF k \in Keys THEN "active" ELSE "absent",
                                    administrator |-> k \in Keys, expires |-> FALSE,
                                    generation |-> IF k \in Keys THEN 1 ELSE 0]],
                                 reference |-> [o \in Ops |-> "none"]]]
    /\ journal = [o \in Ops |-> NoIntent]
    /\ wire = {}
    /\ post = [p \in Posts |-> NoPost]
    /\ recovery = [r \in Recoveries |-> NoRecovery]
    /\ pass = NoPass
    /\ applied = {}
    /\ faults = 0

PostStep(p) ==
    \/ PostLoads(p) \/ PostAdmits(p) \/ PostAdmissionLost(p)
    \/ PostRechecks(p) \/ PostReplaces(p) \/ PostUnanswered(p) \/ PostFinishes(p)
    \/ PostGivesUp(p)

RecoveryProceeds(r) ==
    RecoveryLoads(r) \/ RecoveryFences(r) \/ RecoveryReloads(r) \/ RecoveryFinishes(r)

RecoveryStep(r) ==
    RecoveryStarts(r) \/ RecoveryProceeds(r) \/ RecoveryUnanswered(r) \/ RecoveryGivesUp(r)

PassProceeds == PassStarts \/ PassInspects \/ PassWrites

PassStep == PassProceeds \/ PassSkips \/ PassUnanswered \/ PassGivesUp

Next ==
    \/ \E p \in Posts : PostStep(p)
    \/ \E r \in Recoveries : RecoveryStep(r)
    \/ PassStep
    \/ \E u \in wire : Arrives(u)

Spec == Init /\ [][Next]_vars

(* Handlers of changes may stop anywhere and late updates may never arrive.  *)
(* A recovery's handler runs on while its calls return, and the leader's     *)
(* ticker starts a pass every five seconds.                                  *)
FairSpec ==
    /\ Spec
    /\ \A r \in Recoveries : WF_vars(RecoveryProceeds(r))
    /\ WF_vars(PassProceeds)

----------------------------------------------------------------------------
Updates == [version: Nat, document: Document, op: Ops \cup {None}]
PostRecord == [at: {"idle", "admit", "recheck", "replace", "finish", "done"},
               op: Ops \cup {None}, version: Nat, document: Document \cup {None},
               actor: Credentials \cup {None}, generation: Nat,
               outcome: {"none", "success", "failure"}]
RecoveryRecord == [at: {"idle", "load", "fence", "reload", "finish"}, op: Ops \cup {None},
                   outcome: {"none", "success", "failure"}]
PassRecord == [at: {"idle", "inspect"}, version: Nat, document: Document \cup {None}, left: Nat,
               after: Ops \cup {0}, mark: SUBSET Ops, prune: SUBSET Ops]

TypeOK ==
    /\ registry \in Registry
    /\ journal \in [Ops -> Intent]
    /\ wire \subseteq Updates
    /\ post \in [Posts -> PostRecord]
    /\ recovery \in [Recoveries -> RecoveryRecord]
    /\ pass \in PassRecord
    /\ applied \subseteq Ops
    /\ faults \in 0..MaxFaults

(* What the journal says of a change is true and stays true: one recorded as *)
(* failed has not reached the registry and no late update can still bring it *)
(* there, one recorded as successful has; and the registry drops its         *)
(* reference to a change only when the success is recorded                   *)
(* (credential_operations.go:227 "a delayed CAS must be fenced or observed   *)
(* committed before failure/success can become final").                      *)
JournalTruthful ==
    \A o \in Ops :
        /\ journal[o].outcome = "failure" =>
             /\ o \notin applied
             /\ \A u \in wire : u.op = o => ~Current(u.version)
        /\ journal[o].outcome = "success" => o \in applied
        /\ o \in applied /\ registry.document.reference[o] = "none" =>
             journal[o].outcome = "success"

(* However changes race, are fenced or arrive late, an administrator key     *)
(* that does not expire remains (operator_credential_mutation.go:189).       *)
AdministratorRemains == DurableAdministrators(registry.document) # {}

(* Access changes only by the one change that lands: on its own target, for  *)
(* an actor that is an administrator of the same generation at that moment,  *)
(* never bringing a revoked key back; fences and delivery passes, which      *)
(* write the whole document, change no access.                               *)
ChangesAuthorized ==
    [][LET before == registry.document.credential
           after == registry.document'.credential
       IN before # after =>
            \E o \in applied' \ applied :
               /\ CurrentAdministrator(registry.document, journal[o].actor)
               /\ before[journal[o].actor].generation = journal[o].generation
               /\ \E t \in Credentials : /\ before[t].state # "revoked"
                                          /\ \A k \in Credentials \ {t} : after[k] = before[k]]_vars

(* Once calls stop failing, a recovery settles the change it was asked       *)
(* about, whatever became of the handler and of its update.                  *)
RecoverySettles ==
    \A r \in Recoveries, o \in Ops :
        recovery[r].at = "load" /\ recovery[r].op = o /\ faults = MaxFaults
          ~> journal[o].outcome \in {"success", "failure"}

(* Every change that took effect is recorded as successful and leaves the    *)
(* bounded outbox, by the delivery passes alone.                             *)
OutboxDrains ==
    \A o \in Ops : o \in applied ~> registry.document.reference[o] = "none"

=============================================================================
