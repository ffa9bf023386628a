---------------------- MODULE CredentialChangesProofs ----------------------
(* Safety of key changes for any keys, operations, posts and limits.         *)
EXTENDS CredentialChanges, FiniteSetTheorems, WellFoundedInduction, TLAPS

Writing == {"admit", "recheck", "replace"}
Owning == {"recheck", "replace"}

(* Who may stand in a document that is on its way to the registry.           *)
SoundDocument(document) ==
    /\ document \in Document
    /\ DurableAdministrators(document) # {}

(* The one change of access that an admitted operation stands for.           *)
AccessBy(actor, generation, document) ==
    LET before == registry.document.credential IN
    /\ actor \in Credentials
    /\ CurrentAdministrator(registry.document, actor)
    /\ before[actor].generation = generation
    /\ \E t \in Credentials : /\ before[t].state # "revoked"
                              /\ \A k \in Credentials \ {t} : document.credential[k] = before[k]

(* What an update does if the API server takes it in this state.             *)
Fits(u) ==
    /\ SoundDocument(u.document)
    /\ \A o \in Ops : /\ u.document.reference[o] # "none" => o \in applied \/ o = u.op
                      /\ u.document.reference[o] = "none" /\ o \in applied =>
                           journal[o].outcome = "success"
    /\ u.op = None => u.document.credential = registry.document.credential
    /\ u.op # None => /\ u.document.reference[u.op] # "none"
                      /\ AccessBy(journal[u.op].actor, journal[u.op].generation, u.document)

(* An update for an operation carries the version the journal recorded.      *)
Aimed(o, version) == journal[o].outcome # "none" /\ journal[o].version = version

RegistryInv ==
    /\ SoundDocument(registry.document)
    /\ \A o \in Ops : registry.document.reference[o] # "none" => o \in applied

JournalInv ==
    \A o \in Ops :
      /\ journal[o].version <= registry.version
      /\ o \in applied => journal[o].outcome # "none" /\ journal[o].version < registry.version
      /\ journal[o].outcome = "failure" =>
           o \notin applied /\ journal[o].version < registry.version
      /\ journal[o].outcome = "success" => o \in applied
      /\ o \in applied /\ registry.document.reference[o] = "none" =>
           journal[o].outcome = "success"

WireOK(u) ==
    /\ u.version <= registry.version
    /\ u.op # None => Aimed(u.op, u.version)
    /\ u.version = registry.version => Fits(u)

PreparedPost(p) ==
    \E c \in Changes :
      /\ CanPrepare(registry.document, post[p].op, c)
      /\ post[p].document = Prepared(registry.document, post[p].op, c)
      /\ post[p].actor = c.actor
      /\ post[p].generation = registry.document.credential[c.actor].generation

PostOK(p) ==
    /\ post[p].at \in Writing =>
         /\ post[p].op \in Ops
         /\ post[p].document \in Document
         /\ post[p].version <= registry.version
         /\ post[p].version = registry.version => PreparedPost(p)
    /\ post[p].at \in Owning =>
         /\ Aimed(post[p].op, post[p].version)
         /\ journal[post[p].op].actor = post[p].actor
         /\ journal[post[p].op].generation = post[p].generation
    /\ post[p].at = "finish" =>
         /\ post[p].op \in Ops
         /\ post[p].outcome = "success" => post[p].op \in applied
         /\ post[p].outcome # "success" =>
              /\ post[p].outcome = "failure"
              /\ post[p].op \notin applied
              /\ journal[post[p].op].outcome # "none"
              /\ journal[post[p].op].version < registry.version

(* An operation has one handler that may still write for it, or an update    *)
(* under way, never both, and none once it has been applied.                 *)
SoleOwner ==
    \A p \in Posts : post[p].at \in Owning =>
      /\ post[p].op \notin applied
      /\ \A u \in wire : u.op # post[p].op
      /\ \A q \in Posts \ {p} : post[q].at \in Owning => post[q].op # post[p].op

RecoveryOK(r) ==
    /\ recovery[r].at # "idle" =>
         recovery[r].op \in Ops /\ journal[recovery[r].op].outcome # "none"
    /\ recovery[r].at = "finish" =>
         /\ recovery[r].outcome \in {"success", "failure"}
         /\ recovery[r].outcome = "success" => recovery[r].op \in applied
         /\ recovery[r].outcome = "failure" =>
              /\ journal[recovery[r].op].version < registry.version
              /\ recovery[r].op \in applied => journal[recovery[r].op].outcome = "success"

PassOK ==
    /\ pass.at = "idle" => pass.mark = {} /\ pass.prune = {}
    /\ pass.at = "inspect" =>
         /\ pass.document \in Document
         /\ Referenced(pass.document) # {}
         /\ Referenced(pass.document) \subseteq applied
         /\ pass.version <= registry.version
         /\ pass.version = registry.version => pass.document = registry.document
         /\ \A o \in pass.mark : pass.document.reference[o] # "none"
         /\ \A o \in pass.prune : journal[o].outcome = "success"

(* The inductive invariant.                                                  *)
Inv ==
    /\ TypeOK
    /\ RegistryInv
    /\ JournalInv
    /\ \A u \in wire : WireOK(u)
    /\ \A p \in Posts : PostOK(p)
    /\ SoleOwner
    /\ \A r \in Recoveries : RecoveryOK(r)
    /\ PassOK

(* An update that may be committed now.                                      *)
Lawful(u) ==
    /\ u.op \in Ops \cup {None}
    /\ Fits(u)
    /\ u.op # None => Aimed(u.op, registry.version)

----------------------------------------------------------------------------
(* Every update that reaches the registry is lawful.                         *)

(* A changed credential is again one, keeps away from revoked ones and moves *)
(* its generation by at most one.                                            *)
LEMMA ChangedCredential ==
    ASSUME NEW document \in Document, NEW o \in Ops, NEW c \in Changes,
           TargetOK(document, o, c)
    PROVE  LET old == document.credential[c.target]
               new == Changed(old, c)
           IN /\ c.target \in Credentials /\ c.actor \in Credentials
              /\ old.state # "revoked"
              /\ new \in Credential
              /\ new.state # "absent"
              /\ new.generation \in {old.generation, old.generation + 1}
<1>1. c.target \in Credentials /\ c.actor \in Credentials
  BY DEF Changes
<1>2. document.credential[c.target] \in Credential
  BY <1>1 DEF Document
<1>3. CASE c.action = "create"
  BY <1>1, <1>2, <1>3 DEF Changes, Policies, Credential, Changed, TargetOK, Credentials
<1>4. CASE c.action = "update"
  BY <1>1, <1>2, <1>4 DEF Changes, Policies, Credential, Changed, TargetOK
<1>5. CASE c.action = "rotate"
  BY <1>1, <1>2, <1>5 DEF Changes, Credential, Changed, TargetOK
<1>6. CASE c.action = "revoke"
  BY <1>1, <1>2, <1>6 DEF Changes, Credential, Changed, TargetOK
<1> QED
  BY <1>3, <1>4, <1>5, <1>6 DEF Changes

(* A prepared document is sound, a legal successor of its snapshot, and      *)
(* changes one credential that was not revoked.                              *)
LEMMA PreparedSound ==
    ASSUME NEW document \in Document, NEW o \in Ops, NEW c \in Changes,
           SoundDocument(document), CanPrepare(document, o, c), document.reference[o] = "none"
    PROVE  LET next == Prepared(document, o, c)
           IN /\ SoundDocument(next)
              /\ Transition(document, next)
              /\ c.target \in Credentials /\ c.actor \in Credentials
              /\ document.credential[c.target].state # "revoked"
              /\ \A k \in Credentials \ {c.target} : next.credential[k] = document.credential[k]
              /\ \A q \in Ops : next.reference[q] = IF q = o THEN "pending"
                                                     ELSE document.reference[q]
<1> DEFINE next == Prepared(document, o, c)
<1>1. TargetOK(document, o, c) /\ DurableAdministrators(next) # {}
  BY DEF CanPrepare
<1>2. /\ c.target \in Credentials /\ c.actor \in Credentials
      /\ document.credential[c.target].state # "revoked"
      /\ Changed(document.credential[c.target], c) \in Credential
      /\ Changed(document.credential[c.target], c).state # "absent"
      /\ Changed(document.credential[c.target], c).generation \in
           {document.credential[c.target].generation, document.credential[c.target].generation + 1}
  BY <1>1, ChangedCredential DEF SoundDocument
<1>3. /\ document.credential \in [Credentials -> Credential]
      /\ document.reference \in [Ops -> References]
  BY DEF Document
<1>4. /\ next.credential = [document.credential EXCEPT ![c.target] =
                              Changed(document.credential[c.target], c)]
      /\ next.reference = [document.reference EXCEPT ![o] = "pending"]
      /\ next = [credential |-> next.credential, reference |-> next.reference]
  BY <1>2, <1>3 DEF Prepared
<1>5. /\ next.credential[c.target] = Changed(document.credential[c.target], c)
      /\ \A k \in Credentials \ {c.target} : next.credential[k] = document.credential[k]
      /\ \A q \in Ops : next.reference[q] = IF q = o THEN "pending" ELSE document.reference[q]
  BY <1>2, <1>3, <1>4
<1>6. next \in Document
  BY <1>2, <1>3, <1>4 DEF Document, References
<1>7. SoundDocument(next)
  BY <1>1, <1>2, <1>5, <1>6 DEF SoundDocument
<1>8. Transition(document, next)
  <2>1. \A q \in Ops : /\ document.reference[q] = "none" => next.reference[q] # "delivered"
                       /\ document.reference[q] = "pending" => next.reference[q] # "none"
                       /\ document.reference[q] = "delivered" => next.reference[q] # "pending"
    BY <1>5
  <2>2. ASSUME NEW k \in Credentials
        PROVE  /\ document.credential[k].state = "revoked" =>
                    next.credential[k] = document.credential[k]
               /\ next.credential[k].state = "absent" => document.credential[k].state = "absent"
               /\ next.credential[k].generation \in
                    {document.credential[k].generation, document.credential[k].generation + 1}
    BY <1>2, <1>5
  <2>3. \E q \in Ops : document.reference[q] = "none" /\ next.reference[q] = "pending"
    BY <1>5
  <2> QED
    BY <2>1, <2>2, <2>3 DEF Transition
<1> QED
  BY <1>2, <1>5, <1>7, <1>8

(* An update that arrives late was lawful when it was sent, and its version  *)
(* has not moved since.                                                      *)
LEMMA ArrivesLawful ==
    ASSUME Inv, NEW u \in wire, Current(u.version)
    PROVE  Lawful(u)
<1>1. u.op \in Ops \cup {None}
  BY DEF Inv, TypeOK, Updates
<1> QED
  BY <1>1 DEF Inv, WireOK, Lawful, Aimed, Current

(* The store does not refuse what a post prepared for the current version.   *)
LEMMA PostLawful ==
    ASSUME Inv, NEW p \in Posts, post[p].at = "replace", Current(post[p].version)
    PROVE  /\ Transition(registry.document, post[p].document)
           /\ Lawful(PostUpdate(p))
<1> DEFINE o == post[p].op
           u == PostUpdate(p)
<1>1. /\ o \in Ops /\ PreparedPost(p) /\ Aimed(o, registry.version)
      /\ journal[o].actor = post[p].actor /\ journal[o].generation = post[p].generation
  BY DEF Inv, PostOK, Writing, Owning, Current
<1>2. PICK c \in Changes :
        /\ CanPrepare(registry.document, o, c)
        /\ post[p].document = Prepared(registry.document, o, c)
        /\ post[p].actor = c.actor
        /\ post[p].generation = registry.document.credential[c.actor].generation
  BY <1>1 DEF PreparedPost
<1>3. o \notin applied
  BY <1>1 DEF Inv, JournalInv, Aimed, TypeOK, Registry, Intent
<1>4. registry.document \in Document /\ SoundDocument(registry.document)
  BY DEF Inv, RegistryInv, SoundDocument
<1>5. registry.document.reference[o] = "none"
  BY <1>1, <1>3 DEF Inv, RegistryInv
<1>6. LET next == post[p].document
      IN /\ SoundDocument(next)
         /\ Transition(registry.document, next)
         /\ c.target \in Credentials /\ c.actor \in Credentials
         /\ registry.document.credential[c.target].state # "revoked"
         /\ \A k \in Credentials \ {c.target} :
              next.credential[k] = registry.document.credential[k]
         /\ \A q \in Ops : next.reference[q] = IF q = o THEN "pending"
                                                ELSE registry.document.reference[q]
  BY <1>1, <1>2, <1>4, <1>5, PreparedSound
<1>7. CurrentAdministrator(registry.document, c.actor)
  BY <1>2 DEF CanPrepare
<1>8. u.op = o /\ u.document = post[p].document
  BY DEF PostUpdate, Update
<1>9. o # None
  BY <1>1, KeysAssumption
<1>10. AccessBy(journal[o].actor, journal[o].generation, u.document)
  BY <1>1, <1>2, <1>6, <1>7, <1>8 DEF AccessBy
<1>11. ASSUME NEW q \in Ops
       PROVE  /\ u.document.reference[q] # "none" => q \in applied \/ q = u.op
              /\ u.document.reference[q] = "none" /\ q \in applied =>
                   journal[q].outcome = "success"
  BY <1>6, <1>8 DEF Inv, RegistryInv, JournalInv
<1>12. Fits(u)
  BY <1>1, <1>6, <1>8, <1>9, <1>10, <1>11 DEF Fits
<1> QED
  BY <1>1, <1>6, <1>8, <1>12 DEF Lawful

(* A fence leaves the document as it is.                                     *)
LEMMA FenceLawful ==
    ASSUME Inv, NEW r \in Recoveries
    PROVE  Lawful(Fence(r))
<1>1. Fence(r).op = None /\ Fence(r).document = registry.document
  BY DEF Fence, Update
<1> QED
  BY <1>1 DEF Lawful, Fits, Inv, RegistryInv, JournalInv

(* A delivery pass removes only references whose success is recorded and     *)
(* changes no credential.                                                    *)
LEMMA PassLawful ==
    ASSUME Inv, pass.at = "inspect", Current(pass.version)
    PROVE  Lawful(PassUpdate)
<1>1. /\ pass.document = registry.document
      /\ \A o \in pass.mark : registry.document.reference[o] # "none"
      /\ \A o \in pass.prune : journal[o].outcome = "success"
  BY DEF Inv, PassOK, Current
<1>2. /\ registry.document \in Document /\ SoundDocument(registry.document)
      /\ pass.mark \subseteq Ops /\ pass.prune \subseteq Ops
  BY DEF Inv, RegistryInv, SoundDocument, TypeOK, PassRecord
<1>3. PassUpdate.op = None /\ PassUpdate.document = Confirmed
  BY DEF PassUpdate, Update
<1>4. /\ Confirmed.credential = registry.document.credential
      /\ Confirmed.reference = [o \in Ops |-> IF o \in pass.prune THEN "none"
                                  ELSE IF o \in pass.mark THEN "delivered"
                                  ELSE registry.document.reference[o]]
      /\ Confirmed = [credential |-> Confirmed.credential, reference |-> Confirmed.reference]
  BY <1>1, <1>2 DEF Confirmed, Document
<1>5. Confirmed \in Document
  BY <1>2, <1>4 DEF Document, References
<1>6. SoundDocument(Confirmed)
  BY <1>2, <1>4, <1>5 DEF SoundDocument, DurableAdministrators, CurrentAdministrator
<1>7. ASSUME NEW o \in Ops
      PROVE  /\ Confirmed.reference[o] # "none" => o \in applied
             /\ Confirmed.reference[o] = "none" /\ o \in applied =>
                  journal[o].outcome = "success"
  BY <1>1, <1>4 DEF Inv, RegistryInv, JournalInv
<1> QED
  BY <1>3, <1>4, <1>6, <1>7 DEF Lawful, Fits

----------------------------------------------------------------------------
(* What a step on the registry or the journal leaves true of everything that *)
(* does not move itself.                                                     *)
Kept ==
    /\ registry' \in Registry /\ applied' \subseteq Ops /\ journal' \in [Ops -> Intent]
    /\ RegistryInv'
    /\ JournalInv'
    /\ \A u \in wire : WireOK(u)'
    /\ \A p \in Posts : post'[p] = post[p] => PostOK(p)'
    /\ \A r \in Recoveries : recovery'[r] = recovery[r] => RecoveryOK(r)'
    /\ pass' = pass => PassOK'

(* Nothing that the invariant speaks of has moved.                           *)
LEMMA StillKeeps ==
    ASSUME Inv, UNCHANGED <<registry, journal, applied>>
    PROVE  Kept
<1>1. registry' \in Registry /\ applied' \subseteq Ops /\ journal' \in [Ops -> Intent]
  BY DEF Inv, TypeOK
<1>2. RegistryInv' /\ JournalInv'
  BY DEF Inv, RegistryInv, JournalInv
<1>3. \A u \in wire : WireOK(u)'
  BY DEF Inv, WireOK, Aimed, Fits, AccessBy
<1>4. ASSUME NEW p \in Posts, post'[p] = post[p] PROVE PostOK(p)'
  BY <1>4 DEF Inv, PostOK, PreparedPost, Aimed
<1>5. ASSUME NEW r \in Recoveries, recovery'[r] = recovery[r] PROVE RecoveryOK(r)'
  BY <1>5 DEF Inv, RecoveryOK
<1>6. ASSUME pass' = pass PROVE PassOK'
  BY <1>6 DEF Inv, PassOK
<1> QED
  BY <1>1, <1>2, <1>3, <1>4, <1>5, <1>6 DEF Kept

(* A lawful update: every other update under way now has an old version.     *)
LEMMA CommitKeeps ==
    ASSUME Inv, NEW u, Lawful(u), Commit(u), UNCHANGED journal
    PROVE  Kept
<1>0. /\ registry \in Registry /\ journal \in [Ops -> Intent] /\ applied \subseteq Ops
      /\ u.document \in Document /\ None \notin Ops
  BY KeysAssumption DEF Inv, TypeOK, Lawful, Fits, SoundDocument
<1>1. /\ registry.version \in Nat /\ registry'.version = registry.version + 1
      /\ registry'.document = u.document /\ registry' \in Registry
      /\ applied' = applied \cup ({u.op} \ {None}) /\ applied' \subseteq Ops
      /\ \A o \in Ops : journal[o].version \in Nat
  BY <1>0 DEF Commit, Registry, Lawful, Intent
<1>2. \A o \in Ops : o \in applied' => o \in applied \/ (o = u.op /\ o # None)
  BY <1>1
<1>3. RegistryInv'
  BY <1>0, <1>1 DEF RegistryInv, Lawful, Fits
<1>4. JournalInv'
  <2> SUFFICES ASSUME NEW o \in Ops
               PROVE  /\ journal[o].version <= registry'.version
                      /\ o \in applied' => /\ journal[o].outcome # "none"
                                           /\ journal[o].version < registry'.version
                      /\ journal[o].outcome = "failure" =>
                           o \notin applied' /\ journal[o].version < registry'.version
                      /\ journal[o].outcome = "success" => o \in applied'
                      /\ o \in applied' /\ u.document.reference[o] = "none" =>
                           journal[o].outcome = "success"
    BY <1>1 DEF JournalInv
  <2>1. journal[o].version \in Nat /\ journal[o].version <= registry.version
    BY <1>1 DEF Inv, JournalInv
  <2>2. o = u.op => Aimed(o, registry.version)
    BY <1>0 DEF Lawful
  <2>3. journal[o].outcome = "failure" => o \notin applied'
    BY <1>1, <1>2, <2>1, <2>2 DEF Inv, JournalInv, Aimed
  <2>4. o \in applied' => journal[o].outcome # "none"
    BY <1>2, <2>2 DEF Inv, JournalInv, Aimed
  <2>5. o \in applied' /\ u.document.reference[o] = "none" => journal[o].outcome = "success"
    BY <1>2 DEF Lawful, Fits
  <2>6. journal[o].outcome = "success" => o \in applied'
    BY <1>1 DEF Inv, JournalInv
  <2> QED
    BY <1>1, <2>1, <2>3, <2>4, <2>5, <2>6
<1>5. ASSUME NEW w \in wire PROVE WireOK(w)'
  <2>1. w.version \in Nat /\ w.version <= registry.version /\ (w.op # None => Aimed(w.op, w.version))
    BY DEF Inv, TypeOK, WireOK, Updates
  <2> QED
    BY <1>1, <2>1 DEF WireOK, Aimed
<1>6. ASSUME NEW p \in Posts, post'[p] = post[p] PROVE PostOK(p)'
  <2>1. post[p].version \in Nat
    BY DEF Inv, TypeOK, PostRecord
  <2>2. PostOK(p)
    BY DEF Inv
  <2>3. post[p].at = "finish" /\ post[p].outcome # "success" => post[p].op \notin applied'
    BY <1>1, <1>2, <2>2 DEF PostOK, Lawful, Aimed
  <2> QED
    BY <1>1, <1>6, <2>1, <2>2, <2>3 DEF PostOK, Aimed, Writing, Owning
<1>7. ASSUME NEW r \in Recoveries, recovery'[r] = recovery[r] PROVE RecoveryOK(r)'
  <2>1. RecoveryOK(r)
    BY DEF Inv
  <2>2. recovery[r].at = "finish" /\ recovery[r].outcome = "failure" /\ recovery[r].op \in applied'
          => recovery[r].op \in applied
    BY <1>1, <1>2, <2>1 DEF RecoveryOK, Lawful, Aimed
  <2> QED
    BY <1>1, <1>7, <2>1, <2>2 DEF RecoveryOK
<1>8. ASSUME pass' = pass PROVE PassOK'
  <2>1. pass.version \in Nat
    BY DEF Inv, TypeOK, PassRecord
  <2> QED
    BY <1>1, <1>8, <2>1 DEF Inv, PassOK
<1> QED
  BY <1>0, <1>1, <1>3, <1>4, <1>5, <1>6, <1>7, <1>8 DEF Kept

(* A true outcome enters the journal; an earlier one stays.                  *)
LEMMA FinishKeeps ==
    ASSUME Inv, NEW o \in Ops, NEW outcome \in {"success", "failure"},
           outcome = "success" => o \in applied,
           outcome = "failure" /\ journal[o].outcome = "pending" =>
             o \notin applied /\ journal[o].version < registry.version,
           journal' = Finished(o, outcome), UNCHANGED <<registry, applied>>
    PROVE  Kept
<1>0. /\ registry \in Registry /\ journal \in [Ops -> Intent] /\ applied \subseteq Ops
  BY DEF Inv, TypeOK
<1>1. /\ journal' \in [Ops -> Intent]
      /\ \A q \in Ops : /\ journal'[q].version = journal[q].version
                         /\ journal'[q].actor = journal[q].actor
                         /\ journal'[q].generation = journal[q].generation
                         /\ \/ journal'[q].outcome = journal[q].outcome
                            \/ /\ q = o /\ journal[q].outcome = "pending"
                               /\ journal'[q].outcome = outcome
  BY <1>0 DEF Finished, Intent
<1>2. \A q \in Ops : /\ journal[q].outcome = "success" => journal'[q].outcome = "success"
                     /\ journal[q].outcome # "none" => journal'[q].outcome # "none"
                     /\ journal[q].outcome = "none" => journal'[q].outcome = "none"
  BY <1>1
<1>3. RegistryInv'
  BY DEF Inv, RegistryInv, SoundDocument
<1>4. JournalInv'
  BY <1>1, <1>2 DEF Inv, JournalInv
<1>5. ASSUME NEW w \in wire PROVE WireOK(w)'
  <2>1. w.op \in Ops \cup {None} /\ WireOK(w)
    BY DEF Inv, TypeOK, Updates
  <2>2. w.op # None => Aimed(w.op, w.version)'
    BY <1>1, <1>2, <2>1 DEF WireOK, Aimed
  <2>3. w.version = registry.version => Fits(w)'
    BY <1>1, <1>2, <2>1 DEF WireOK, Fits, AccessBy
  <2> QED
    BY <2>1, <2>2, <2>3 DEF WireOK
<1>6. ASSUME NEW p \in Posts, post'[p] = post[p] PROVE PostOK(p)'
  <2>1. PostOK(p)
    BY DEF Inv
  <2>2. PreparedPost(p) => PreparedPost(p)'
    BY <1>6 DEF PreparedPost
  <2> QED
    BY <1>1, <1>2, <1>6, <2>1, <2>2 DEF PostOK, Aimed, Writing, Owning
<1>7. ASSUME NEW r \in Recoveries, recovery'[r] = recovery[r] PROVE RecoveryOK(r)'
  BY <1>1, <1>2, <1>7 DEF Inv, RecoveryOK
<1>8. ASSUME pass' = pass PROVE PassOK'
  <2>1. pass.prune \subseteq Ops
    BY DEF Inv, TypeOK, PassRecord
  <2> QED
    BY <1>2, <1>8, <2>1 DEF Inv, PassOK
<1> QED
  BY <1>0, <1>1, <1>3, <1>4, <1>5, <1>6, <1>7, <1>8 DEF Kept

(* An intent enters the journal; nobody could have relied on its absence.    *)
LEMMA AdmitKeeps ==
    ASSUME Inv, NEW p \in Posts, post[p].at = "admit", journal[post[p].op].outcome = "none",
           journal' = Admitted(p), UNCHANGED <<registry, applied>>
    PROVE  Kept
<1> DEFINE o == post[p].op
<1>0. /\ registry \in Registry /\ journal \in [Ops -> Intent] /\ applied \subseteq Ops
      /\ post[p] \in PostRecord
  BY DEF Inv, TypeOK
<1>1. o \in Ops /\ post[p].version <= registry.version
  BY DEF Inv, PostOK, Writing
<1>2. /\ journal' \in [Ops -> Intent]
      /\ journal'[o].version = post[p].version /\ journal'[o].outcome = "pending"
      /\ \A q \in Ops : q # o => journal'[q] = journal[q]
  BY <1>0, <1>1 DEF Admitted, Intent, PostRecord
<1>3. o \notin applied
  BY <1>1 DEF Inv, JournalInv
<1>4. RegistryInv'
  BY DEF Inv, RegistryInv, SoundDocument
<1>5. JournalInv'
  BY <1>1, <1>2, <1>3 DEF Inv, JournalInv
<1>6. ASSUME NEW w \in wire PROVE WireOK(w)'
  <2>1. w.op \in Ops \cup {None} /\ WireOK(w)
    BY DEF Inv, TypeOK, Updates
  <2>2. w.op # None => w.op \in Ops /\ w.op # o /\ journal'[w.op] = journal[w.op]
    BY <1>2, <2>1 DEF WireOK, Aimed
  <2>3. w.op # None => Aimed(w.op, w.version)'
    BY <2>1, <2>2 DEF WireOK, Aimed
  <2>4. w.version = registry.version => Fits(w)'
    BY <1>2, <1>3, <2>1, <2>2 DEF WireOK, Fits, AccessBy
  <2> QED
    BY <2>1, <2>3, <2>4 DEF WireOK
<1>7. ASSUME NEW q \in Posts, post'[q] = post[q] PROVE PostOK(q)'
  <2>1. PostOK(q)
    BY DEF Inv
  <2>2. PreparedPost(q) => PreparedPost(q)'
    BY <1>7 DEF PreparedPost
  <2>3. post[q].at \in Owning => post[q].op \in Ops /\ journal'[post[q].op] = journal[post[q].op]
    BY <1>2, <2>1 DEF PostOK, Aimed, Owning, Writing
  <2>4. post[q].at = "finish" => journal'[post[q].op] = journal[post[q].op]
    BY <1>2, <1>3, <2>1 DEF PostOK, Inv, JournalInv
  <2> QED
    BY <1>7, <2>1, <2>2, <2>3, <2>4 DEF PostOK, Aimed, Writing, Owning
<1>8. ASSUME NEW r \in Recoveries, recovery'[r] = recovery[r] PROVE RecoveryOK(r)'
  BY <1>2, <1>8 DEF Inv, RecoveryOK
<1>9. ASSUME pass' = pass PROVE PassOK'
  <2>1. pass.prune \subseteq Ops
    BY DEF Inv, TypeOK, PassRecord
  <2> QED
    BY <1>2, <1>9, <2>1 DEF Inv, PassOK
<1> QED
  BY <1>0, <1>2, <1>4, <1>5, <1>6, <1>7, <1>8, <1>9 DEF Kept

----------------------------------------------------------------------------
(* One actor moves, the others stand still.                                  *)

(* A post moves: its own part of the invariant is enough.                    *)
LEMMA PostMoves ==
    ASSUME Inv, Kept, NEW p \in Posts, NEW new \in PostRecord,
           post' = [post EXCEPT ![p] = new], PostOK(p)', SoleOwner',
           wire' \subseteq Updates, \A u \in wire' : WireOK(u)',
           UNCHANGED <<recovery, pass>>, faults' \in 0..MaxFaults
    PROVE  Inv'
<1>1. TypeOK'
  BY DEF Inv, Kept, TypeOK
<1>2. \A q \in Posts : PostOK(q)'
  BY DEF Inv, TypeOK, Kept
<1> QED
  BY <1>1, <1>2 DEF Inv, Kept

(* A recovery moves: its own part of the invariant is enough.                *)
LEMMA RecoveryMoves ==
    ASSUME Inv, Kept, NEW r \in Recoveries, NEW new \in RecoveryRecord,
           recovery' = [recovery EXCEPT ![r] = new], RecoveryOK(r)', SoleOwner',
           wire' \subseteq Updates, \A u \in wire' : WireOK(u)',
           UNCHANGED <<post, pass>>, faults' \in 0..MaxFaults
    PROVE  Inv'
<1>1. TypeOK'
  BY DEF Inv, Kept, TypeOK
<1>2. \A q \in Recoveries : RecoveryOK(q)'
  BY DEF Inv, TypeOK, Kept
<1> QED
  BY <1>1, <1>2 DEF Inv, Kept

(* The delivery pass moves: its own part is enough.                          *)
LEMMA PassMoves ==
    ASSUME Inv, Kept, pass' \in PassRecord, PassOK', SoleOwner',
           wire' \subseteq Updates, \A u \in wire' : WireOK(u)',
           UNCHANGED <<post, recovery>>, faults' \in 0..MaxFaults
    PROVE  Inv'
<1>1. TypeOK'
  BY DEF Inv, Kept, TypeOK
<1> QED
  BY <1>1 DEF Inv, Kept

(* The count of faults stays within its bound.                               *)
LEMMA FaultsBounded ==
    ASSUME Inv, Fault \/ NoFault
    PROVE  faults' \in 0..MaxFaults
BY LimitsAssumption DEF Inv, TypeOK, Fault, NoFault

(* Fences and passes write for no operation.                                 *)
LEMMA OwnersStay ==
    ASSUME Inv, UNCHANGED <<post, applied>>, \A u \in wire' : u \in wire \/ u.op = None
    PROVE  SoleOwner'
<1>1. \A p \in Posts : post[p].at \in Owning => post[p].op \in Ops
  BY DEF Inv, PostOK, Owning, Writing
<1> QED
  BY <1>1, KeysAssumption DEF Inv, SoleOwner

(* A handler that does not begin to own takes nothing from the others.       *)
LEMMA OwnerLeaves ==
    ASSUME Inv, NEW p \in Posts, NEW new \in PostRecord, post' = [post EXCEPT ![p] = new],
           new.at \in Owning => post[p].at \in Owning /\ new.op = post[p].op,
           UNCHANGED <<wire, applied>>
    PROVE  SoleOwner'
<1>1. \A q \in Posts : post'[q] = IF q = p THEN new ELSE post[q]
  BY DEF Inv, TypeOK
<1> QED
  BY <1>1 DEF Inv, SoleOwner

(* Updates whose version is current may be given up on.                      *)
LEMMA UnansweredWire ==
    ASSUME Inv, NEW u \in Updates, Lawful(u), Unanswered(u), UNCHANGED journal
    PROVE  /\ Kept
           /\ wire' = wire \cup {u} /\ wire' \subseteq Updates
           /\ \A w \in wire' : WireOK(w)'
<1>1. Kept /\ wire' = wire \cup {u} /\ UNCHANGED <<registry, journal, applied>>
  BY StillKeeps DEF Unanswered
<1>2. u.version = registry.version /\ registry.version \in Nat
  BY DEF Unanswered, Current, Inv, TypeOK, Registry
<1>3. WireOK(u)
  BY <1>2 DEF WireOK, Lawful
<1>4. WireOK(u)'
  BY <1>1, <1>3 DEF WireOK, Aimed, Fits, AccessBy
<1>5. wire' \subseteq Updates
  BY <1>1 DEF Inv, TypeOK
<1> QED
  BY <1>1, <1>4, <1>5 DEF Kept

(* A refused change: the version has moved on, so nothing can apply it.      *)
LEMMA RefusedPost ==
    ASSUME Inv, NEW p \in Posts, post[p].at \in Owning, ~Current(post[p].version)
    PROVE  /\ post[p].op \in Ops /\ post[p].op \notin applied
           /\ journal[post[p].op].outcome # "none"
           /\ journal[post[p].op].version < registry.version
<1>1. /\ post[p].op \in Ops /\ post[p].version <= registry.version
      /\ Aimed(post[p].op, post[p].version)
  BY DEF Inv, PostOK, Owning, Writing
<1>2. post[p].version \in Nat /\ registry.version \in Nat
  BY DEF Inv, TypeOK, PostRecord, Registry
<1> QED
  BY <1>1, <1>2 DEF Inv, SoleOwner, Aimed, Current

----------------------------------------------------------------------------
(* The steps of a post.                                                      *)

(* A post prepares its change from one snapshot of the registry.             *)
LEMMA PostLoadsStep ==
    ASSUME Inv, NEW p \in Posts, PostLoads(p)
    PROVE  Inv'
<1>0. PICK o \in OpsOf[p] : \E c \in Asked[o] :
        /\ CanPrepare(registry.document, o, c)
        /\ journal[o].outcome = "none"
        /\ post' = [post EXCEPT ![p] =
             [at |-> "admit", op |-> o, version |-> registry.version,
              document |-> Prepared(registry.document, o, c), actor |-> c.actor,
              generation |-> registry.document.credential[c.actor].generation,
              outcome |-> "none"]]
  BY DEF PostLoads
<1>1. PICK c \in Asked[o] :
        /\ CanPrepare(registry.document, o, c)
        /\ journal[o].outcome = "none"
        /\ post' = [post EXCEPT ![p] =
             [at |-> "admit", op |-> o, version |-> registry.version,
              document |-> Prepared(registry.document, o, c), actor |-> c.actor,
              generation |-> registry.document.credential[c.actor].generation,
              outcome |-> "none"]]
  BY <1>0
<1>2. o \in Ops /\ c \in Changes
  BY <1>1, OpsAssumption, AskedAssumption
<1>3. /\ registry.document \in Document /\ SoundDocument(registry.document)
      /\ registry.version \in Nat /\ registry.document.reference[o] = "none"
  BY <1>1, <1>2 DEF Inv, RegistryInv, JournalInv, SoundDocument, TypeOK, Registry
<1>4. SoundDocument(Prepared(registry.document, o, c)) /\ c.actor \in Credentials
  BY <1>1, <1>2, <1>3, PreparedSound
<1>5. registry.document.credential[c.actor].generation \in Nat
  BY <1>3, <1>4 DEF Document, Credential
<1> DEFINE new == [at |-> "admit", op |-> o, version |-> registry.version,
                   document |-> Prepared(registry.document, o, c), actor |-> c.actor,
                   generation |-> registry.document.credential[c.actor].generation,
                   outcome |-> "none"]
<1>6. new \in PostRecord
  BY <1>2, <1>3, <1>4, <1>5 DEF PostRecord, SoundDocument
<1>7. UNCHANGED <<registry, journal, applied, wire, recovery, pass>> /\ NoFault
  BY DEF PostLoads
<1>8. Kept
  BY <1>7, StillKeeps
<1>9. post'[p] = new
  BY <1>1 DEF Inv, TypeOK
<1>10. PreparedPost(p)'
  BY <1>1, <1>2, <1>7, <1>9 DEF PreparedPost
<1>11. PostOK(p)'
  BY <1>2, <1>3, <1>4, <1>7, <1>9, <1>10 DEF PostOK, Writing, Owning, SoundDocument
<1>12. SoleOwner'
  BY <1>1, <1>6, <1>7, OwnerLeaves DEF Owning
<1>13. wire' \subseteq Updates /\ \A u \in wire' : WireOK(u)'
  BY <1>7, <1>8 DEF Kept, Inv, TypeOK
<1>14. faults' \in 0..MaxFaults
  BY <1>7, FaultsBounded
<1> HIDE DEF new
<1> QED
  BY <1>1, <1>6, <1>7, <1>8, <1>11, <1>12, <1>13, <1>14, PostMoves DEF new

(* A handler that ends without a new effect of its own.                      *)
LEMMA PostDoneStep ==
    ASSUME Inv, Kept, NEW p \in Posts, PostDone(p),
           UNCHANGED <<wire, applied, recovery, pass>>, Fault \/ NoFault
    PROVE  Inv'
<1> DEFINE new == [NoPost EXCEPT !.at = "done"]
<1>1. new \in PostRecord /\ new.at = "done"
  BY DEF NoPost, PostRecord
<1>2. post' = [post EXCEPT ![p] = new] /\ post'[p] = new
  BY DEF PostDone, Inv, TypeOK
<1> HIDE DEF new
<1>3. PostOK(p)'
  BY <1>1, <1>2 DEF PostOK, Writing, Owning
<1>4. SoleOwner'
  BY <1>1, <1>2, OwnerLeaves DEF Owning
<1>5. wire' \subseteq Updates /\ \A u \in wire' : WireOK(u)'
  BY DEF Kept, Inv, TypeOK
<1> QED
  BY <1>1, <1>2, <1>3, <1>4, <1>5, FaultsBounded, PostMoves

(* AdmitCredentialOperation: an id is admitted at most once.                 *)
LEMMA PostAdmitsStep ==
    ASSUME Inv, NEW p \in Posts, PostAdmits(p)
    PROVE  Inv'
<1>1. CASE journal[post[p].op].outcome # "none"
  <2>1. PostDone(p) /\ NoFault /\ UNCHANGED <<registry, journal, applied, wire, recovery, pass>>
    BY <1>1 DEF PostAdmits
  <2> QED
    BY <2>1, StillKeeps, PostDoneStep
<1>2. CASE journal[post[p].op].outcome = "none"
  <2> DEFINE o == post[p].op
             new == [post[p] EXCEPT !.at = "recheck"]
  <2>1. /\ journal' = Admitted(p) /\ post' = [post EXCEPT ![p].at = "recheck"] /\ NoFault
        /\ post[p].at = "admit" /\ UNCHANGED <<registry, applied, wire, recovery, pass>>
    BY <1>2 DEF PostAdmits, PostAt
  <2>2. Kept
    BY <1>2, <2>1, AdmitKeeps
  <2>3. /\ post' = [post EXCEPT ![p] = new] /\ new \in PostRecord /\ new.at = "recheck"
        /\ new.op = o /\ post'[p] = new /\ PostOK(p)
        /\ new.version = post[p].version /\ new.document = post[p].document
        /\ new.actor = post[p].actor /\ new.generation = post[p].generation
        /\ \A q \in Posts : post'[q] = IF q = p THEN new ELSE post[q]
    BY <2>1 DEF Inv, TypeOK, PostRecord
  <2>4. o \in Ops /\ journal \in [Ops -> Intent]
    BY <2>1, <2>3 DEF PostOK, Writing, Inv, TypeOK
  <2>5. /\ journal'[o].outcome = "pending" /\ journal'[o].version = post[p].version
        /\ journal'[o].actor = post[p].actor /\ journal'[o].generation = post[p].generation
    BY <2>1, <2>4 DEF Admitted
  <2>6. PreparedPost(p) => PreparedPost(p)'
    BY <2>1, <2>3 DEF PreparedPost
  <2>7. PostOK(p)'
    BY <2>1, <2>3, <2>4, <2>5, <2>6 DEF PostOK, Writing, Owning, Aimed
  <2>8. SoleOwner'
    <3>1. o \notin applied
      BY <1>2, <2>4 DEF Inv, JournalInv
    <3>2. \A u \in wire : u.op # o
      BY <1>2, <2>4, KeysAssumption DEF Inv, WireOK, Aimed
    <3>3. \A q \in Posts : post[q].at \in Owning => post[q].op # o
      BY <1>2, <2>4 DEF Inv, PostOK, Aimed
    <3> QED
      BY <2>1, <2>3, <3>1, <3>2, <3>3 DEF Inv, SoleOwner
  <2>9. wire' \subseteq Updates /\ \A u \in wire' : WireOK(u)'
    BY <2>1, <2>2 DEF Kept, Inv, TypeOK
  <2> HIDE DEF new
  <2> QED
    BY <2>1, <2>2, <2>3, <2>7, <2>8, <2>9, FaultsBounded, PostMoves
<1> QED
  BY <1>1, <1>2

(* The admission's answer is lost: the intent stays pending.                 *)
LEMMA PostAdmissionLostStep ==
    ASSUME Inv, NEW p \in Posts, PostAdmissionLost(p)
    PROVE  Inv'
<1>1. Kept
  BY AdmitKeeps DEF PostAdmissionLost
<1> QED
  BY <1>1, PostDoneStep DEF PostAdmissionLost

(* A handler that knows its outcome.                                         *)
LEMMA PostEndsStep ==
    ASSUME Inv, Kept, NEW p \in Posts, NEW outcome \in {"success", "failure"},
           post[p].at \in Owning, PostEnds(p, outcome), NoFault,
           UNCHANGED <<wire, journal, recovery, pass>>, SoleOwner',
           post[p].op \in Ops,
           outcome = "success" => post[p].op \in applied',
           outcome = "failure" => /\ post[p].op \notin applied'
                                  /\ journal[post[p].op].outcome # "none"
                                  /\ journal[post[p].op].version < registry'.version
    PROVE  Inv'
<1> DEFINE new == [NoPost EXCEPT !.at = "finish", !.op = post[p].op, !.outcome = outcome]
<1>1. new \in PostRecord /\ new.at = "finish" /\ new.op = post[p].op /\ new.outcome = outcome
  BY DEF NoPost, PostRecord
<1>2. post' = [post EXCEPT ![p] = new] /\ post'[p] = new
  BY DEF PostEnds, Inv, TypeOK
<1> HIDE DEF new
<1>3. PostOK(p)'
  BY <1>1, <1>2 DEF PostOK, Writing, Owning
<1>4. wire' \subseteq Updates /\ \A u \in wire' : WireOK(u)'
  BY DEF Kept, Inv, TypeOK
<1> QED
  BY <1>1, <1>2, <1>3, <1>4, FaultsBounded, PostMoves

(* Where a handler stops owning, the others keep what they own.              *)
LEMMA EndedOwner ==
    ASSUME Inv, NEW p \in Posts, NEW outcome, PostEnds(p, outcome), post[p].at \in Owning,
           UNCHANGED wire, applied' \subseteq applied \cup {post[p].op}
    PROVE  SoleOwner'
<1>1. /\ post'[p].at = "finish"
      /\ \A q \in Posts \ {p} : post'[q] = post[q]
  BY DEF PostEnds, NoPost, Inv, TypeOK
<1>2. \A q \in Posts : post'[q].at \in Owning => q # p /\ post'[q] = post[q]
  BY <1>1 DEF Owning
<1> QED
  BY <1>1, <1>2 DEF Inv, SoleOwner

(* The second Load turns a post away whose version is no longer current.     *)
LEMMA PostRechecksStep ==
    ASSUME Inv, NEW p \in Posts, PostRechecks(p)
    PROVE  Inv'
<1>1. /\ post[p].at \in Owning /\ NoFault
      /\ UNCHANGED <<registry, journal, wire, recovery, pass, applied>>
  BY DEF PostRechecks, Owning
<1>2. Kept
  BY <1>1, StillKeeps
<1>3. CASE ~Current(post[p].version)
  <2>1. PostEnds(p, "failure")
    BY <1>3 DEF PostRechecks
  <2> QED
    BY <1>1, <1>2, <1>3, <2>1, RefusedPost, EndedOwner, PostEndsStep
<1>4. CASE Current(post[p].version)
  <2> DEFINE new == [post[p] EXCEPT !.at = "replace"]
  <2>1. /\ post' = [post EXCEPT ![p] = new] /\ new \in PostRecord /\ new.at = "replace"
        /\ new.op = post[p].op /\ post'[p] = new /\ PostOK(p)
        /\ new.version = post[p].version /\ new.document = post[p].document
        /\ new.actor = post[p].actor /\ new.generation = post[p].generation
    BY <1>4 DEF PostRechecks, PostAt, Inv, TypeOK, PostRecord
  <2> HIDE DEF new
  <2>2. PreparedPost(p) => PreparedPost(p)'
    BY <1>1, <2>1 DEF PreparedPost
  <2>3. PostOK(p)'
    BY <1>1, <2>1, <2>2 DEF PostOK, Writing, Owning, Aimed
  <2>4. SoleOwner'
    BY <1>1, <2>1, OwnerLeaves
  <2>5. wire' \subseteq Updates /\ \A u \in wire' : WireOK(u)'
    BY <1>1, <1>2 DEF Kept, Inv, TypeOK
  <2> QED
    BY <1>1, <1>2, <2>1, <2>3, <2>4, <2>5, FaultsBounded, PostMoves
<1> QED
  BY <1>3, <1>4

(* Replace: the change lands, or the version has moved on.                   *)
LEMMA PostReplacesStep ==
    ASSUME Inv, NEW p \in Posts, PostReplaces(p)
    PROVE  Inv'
<1>1. /\ post[p].at = "replace" /\ post[p].at \in Owning /\ NoFault
      /\ UNCHANGED <<journal, wire, recovery, pass>>
  BY DEF PostReplaces, Owning
<1>2. CASE ~Current(post[p].version)
  <2>1. PostEnds(p, "failure") /\ UNCHANGED <<registry, applied>>
    BY <1>2 DEF PostReplaces, Refuse
  <2> QED
    BY <1>1, <1>2, <2>1, StillKeeps, RefusedPost, EndedOwner, PostEndsStep
<1>3. CASE Current(post[p].version)
  <2>1. Transition(registry.document, post[p].document) /\ Lawful(PostUpdate(p))
    BY <1>1, <1>3, PostLawful
  <2>2. Commit(PostUpdate(p)) /\ PostEnds(p, "success")
    BY <1>3, <2>1 DEF PostReplaces
  <2>3. Kept
    BY <1>1, <2>1, <2>2, CommitKeeps
  <2>4. post[p].op \in Ops /\ applied' = applied \cup {post[p].op}
    BY <1>1, <2>2, KeysAssumption DEF Inv, PostOK, Writing, Commit, PostUpdate, Update
  <2>5. SoleOwner'
    BY <1>1, <2>2, <2>4, EndedOwner
  <2> QED
    BY <1>1, <2>2, <2>3, <2>4, <2>5, PostEndsStep
<1> QED
  BY <1>2, <1>3

(* The update goes on alone once its handler has given up.                   *)
LEMMA PostUnansweredStep ==
    ASSUME Inv, NEW p \in Posts, PostUnanswered(p)
    PROVE  Inv'
<1> DEFINE u == PostUpdate(p)
           new == [NoPost EXCEPT !.at = "done"]
<1>1. /\ post[p].at = "replace" /\ Unanswered(u) /\ Current(post[p].version) /\ Fault
      /\ post' = [post EXCEPT ![p] = new] /\ UNCHANGED <<journal, recovery, pass, applied>>
  BY DEF PostUnanswered, Unanswered, PostUpdate, Update, PostDone
<1>2. Lawful(u)
  BY <1>1, PostLawful
<1>3. u.op = post[p].op /\ u \in Updates /\ post[p].at \in Owning
  BY <1>1, <1>2 DEF PostUpdate, Update, Updates, Lawful, Fits, SoundDocument, Inv, TypeOK,
                    PostRecord, Owning
<1> HIDE DEF u
<1>4. Kept /\ wire' = wire \cup {u} /\ wire' \subseteq Updates /\ \A w \in wire' : WireOK(w)'
  BY <1>1, <1>2, <1>3, UnansweredWire
<1>5. new \in PostRecord /\ new.at = "done"
  BY DEF NoPost, PostRecord
<1>6. /\ post'[p] = new
      /\ \A q \in Posts \ {p} : post'[q] = post[q]
  BY <1>1 DEF Inv, TypeOK
<1> HIDE DEF new
<1>7. PostOK(p)'
  BY <1>5, <1>6 DEF PostOK, Writing, Owning
<1>8. SoleOwner'
  <2>1. \A q \in Posts : post'[q].at \in Owning => q # p /\ post'[q] = post[q]
    BY <1>5, <1>6 DEF Owning
  <2> QED
    BY <1>1, <1>3, <1>4, <1>6, <2>1 DEF Inv, SoleOwner
<1> QED
  BY <1>1, <1>4, <1>5, <1>7, <1>8, FaultsBounded, PostMoves

(* FinishCredentialOperation with what Replace answered.                     *)
LEMMA PostFinishesStep ==
    ASSUME Inv, NEW p \in Posts, PostFinishes(p)
    PROVE  Inv'
<1>1. /\ post[p].at = "finish" /\ journal' = Finished(post[p].op, post[p].outcome)
      /\ PostDone(p) /\ NoFault /\ UNCHANGED <<registry, wire, recovery, pass, applied>>
  BY DEF PostFinishes
<1>2. /\ post[p].op \in Ops /\ post[p].outcome \in {"success", "failure"}
      /\ post[p].outcome = "success" => post[p].op \in applied
      /\ post[p].outcome = "failure" =>
           post[p].op \notin applied /\ journal[post[p].op].version < registry.version
  BY <1>1 DEF Inv, PostOK
<1>3. Kept
  BY <1>1, <1>2, FinishKeeps
<1> QED
  BY <1>1, <1>3, PostDoneStep

(* A handler stops; what it has sent is already accounted for.               *)
LEMMA PostGivesUpStep ==
    ASSUME Inv, NEW p \in Posts, PostGivesUp(p)
    PROVE  Inv'
BY StillKeeps, PostDoneStep DEF PostGivesUp

----------------------------------------------------------------------------
(* The steps of a recovery.                                                  *)

(* The recovery moves on or ends and writes nothing.                         *)
LEMMA RecoveryStill ==
    ASSUME Inv, Kept, NEW r \in Recoveries, NEW new \in RecoveryRecord,
           recovery' = [recovery EXCEPT ![r] = new], RecoveryOK(r)',
           UNCHANGED <<wire, post, pass, applied>>, Fault \/ NoFault
    PROVE  Inv'
<1>1. SoleOwner'
  BY OwnersStay
<1>2. wire' \subseteq Updates /\ \A u \in wire' : WireOK(u)'
  BY DEF Kept, Inv, TypeOK
<1> QED
  BY <1>1, <1>2, FaultsBounded, RecoveryMoves

(* A recovery ends.                                                          *)
LEMMA RecoveryEnds ==
    ASSUME Inv, Kept, NEW r \in Recoveries, recovery' = [recovery EXCEPT ![r] = NoRecovery],
           UNCHANGED <<wire, post, pass, applied>>, Fault \/ NoFault
    PROVE  Inv'
<1>1. NoRecovery \in RecoveryRecord /\ NoRecovery.at = "idle"
  BY DEF NoRecovery, RecoveryRecord
<1>2. recovery'[r] = NoRecovery
  BY DEF Inv, TypeOK
<1>3. RecoveryOK(r)'
  BY <1>1, <1>2 DEF RecoveryOK
<1> QED
  BY <1>1, <1>3, RecoveryStill

(* A recovery is asked about a pending operation.                            *)
LEMMA RecoveryStartsStep ==
    ASSUME Inv, NEW r \in Recoveries, RecoveryStarts(r)
    PROVE  Inv'
<1>1. PICK o \in Ops :
        /\ journal[o].outcome = "pending"
        /\ recovery' = [recovery EXCEPT ![r] = [at |-> "load", op |-> o, outcome |-> "none"]]
  BY DEF RecoveryStarts
<1>2. NoFault /\ UNCHANGED <<registry, journal, wire, post, pass, applied>>
  BY DEF RecoveryStarts
<1>3. [at |-> "load", op |-> o, outcome |-> "none"] \in RecoveryRecord
  BY DEF RecoveryRecord
<1>4. recovery'[r] = [at |-> "load", op |-> o, outcome |-> "none"]
  BY <1>1 DEF Inv, TypeOK
<1>5. RecoveryOK(r)'
  BY <1>1, <1>2, <1>4 DEF RecoveryOK
<1> QED
  BY <1>1, <1>2, <1>3, <1>5, StillKeeps, RecoveryStill

(* The registry's evidence is true of the change.                            *)
LEMMA EvidenceTrue ==
    ASSUME Inv, NEW o \in Ops
    PROVE  /\ Evidence(o) \in {"none", "success", "failure"}
           /\ Evidence(o) = "success" => o \in applied
           /\ Evidence(o) = "failure" =>
                /\ journal[o].version < registry.version
                /\ o \in applied => journal[o].outcome = "success"
<1>1. journal[o].version \in Nat /\ registry.version \in Nat
  BY DEF Inv, TypeOK, Intent, Registry
<1> QED
  BY <1>1 DEF Evidence, Inv, RegistryInv, JournalInv

(* The first Load gives evidence or leads to the fence.                      *)
LEMMA RecoveryLoadsStep ==
    ASSUME Inv, NEW r \in Recoveries, RecoveryLoads(r)
    PROVE  Inv'
<1> DEFINE o == recovery[r].op
           e == Evidence(o)
           new == [recovery[r] EXCEPT !.at = IF e = "none" THEN "fence" ELSE "finish",
                                      !.outcome = e]
<1>1. recovery[r].at = "load" /\ NoFault /\ UNCHANGED <<registry, journal, wire, post, pass, applied>>
  BY DEF RecoveryLoads
<1>2. recovery[r] \in RecoveryRecord /\ o \in Ops /\ journal[o].outcome # "none"
  BY <1>1 DEF Inv, TypeOK, RecoveryOK
<1>3. /\ e \in {"none", "success", "failure"}
      /\ e = "success" => o \in applied
      /\ e = "failure" => /\ journal[o].version < registry.version
                          /\ o \in applied => journal[o].outcome = "success"
  BY <1>2, EvidenceTrue
<1> HIDE DEF e
<1>4. /\ new \in RecoveryRecord /\ new.op = o /\ new.outcome = e
      /\ new.at = IF e = "none" THEN "fence" ELSE "finish"
  BY <1>2, <1>3 DEF RecoveryRecord
<1>5. recovery' = [recovery EXCEPT ![r] = new] /\ recovery'[r] = new
  BY DEF RecoveryLoads, Inv, TypeOK, e
<1> HIDE DEF new
<1>6. RecoveryOK(r)'
  BY <1>1, <1>2, <1>3, <1>4, <1>5 DEF RecoveryOK
<1> QED
  BY <1>1, <1>4, <1>5, <1>6, StillKeeps, RecoveryStill

(* The Load after the fence gives the evidence.                              *)
LEMMA RecoveryReloadsStep ==
    ASSUME Inv, NEW r \in Recoveries, RecoveryReloads(r)
    PROVE  Inv'
<1> DEFINE o == recovery[r].op
           e == Evidence(o)
           new == [recovery[r] EXCEPT !.at = "finish", !.outcome = e]
<1>1. recovery[r].at = "reload" /\ NoFault /\ UNCHANGED <<registry, journal, wire, post, pass, applied>>
  BY DEF RecoveryReloads
<1>2. recovery[r] \in RecoveryRecord /\ o \in Ops /\ journal[o].outcome # "none"
  BY <1>1 DEF Inv, TypeOK, RecoveryOK
<1>3. /\ e \in {"none", "success", "failure"}
      /\ e = "success" => o \in applied
      /\ e = "failure" => /\ journal[o].version < registry.version
                          /\ o \in applied => journal[o].outcome = "success"
  BY <1>2, EvidenceTrue
<1>4. CASE e = "none"
  <2>1. recovery' = [recovery EXCEPT ![r] = NoRecovery]
    BY <1>4 DEF RecoveryReloads
  <2> QED
    BY <1>1, <2>1, StillKeeps, RecoveryEnds
<1>5. CASE e # "none"
  <2>1. recovery' = [recovery EXCEPT ![r] = new] /\ recovery'[r] = new
    BY <1>5 DEF RecoveryReloads, Inv, TypeOK
  <2> HIDE DEF e
  <2>2. new \in RecoveryRecord /\ new.op = o /\ new.outcome = e /\ new.at = "finish"
    BY <1>2, <1>3 DEF RecoveryRecord
  <2> HIDE DEF new
  <2>3. RecoveryOK(r)'
    BY <1>1, <1>2, <1>3, <1>5, <2>1, <2>2 DEF RecoveryOK
  <2> QED
    BY <1>1, <2>1, <2>2, <2>3, StillKeeps, RecoveryStill
<1> QED
  BY <1>4, <1>5

(* A recovery that has sent its fence, answered or not.                      *)
LEMMA FencedRecovery ==
    ASSUME Inv, NEW r \in Recoveries, recovery[r].at = "fence", RecoveryReloadsNext(r),
           UNCHANGED journal
    PROVE  \E new \in RecoveryRecord :
             recovery' = [recovery EXCEPT ![r] = new] /\ RecoveryOK(r)'
<1> DEFINE new == [recovery[r] EXCEPT !.at = "reload"]
<1>1. recovery[r] \in RecoveryRecord /\ RecoveryOK(r)
  BY DEF Inv, TypeOK
<1>2. new \in RecoveryRecord /\ new.at = "reload" /\ new.op = recovery[r].op
  BY <1>1 DEF RecoveryRecord
<1>3. recovery' = [recovery EXCEPT ![r] = new] /\ recovery'[r] = new
  BY DEF RecoveryReloadsNext, Inv, TypeOK
<1> HIDE DEF new
<1>4. RecoveryOK(r)'
  BY <1>1, <1>2, <1>3 DEF RecoveryOK
<1> QED
  BY <1>2, <1>3, <1>4

(* Fence moves the version and nothing else.                                 *)
LEMMA RecoveryFencesStep ==
    ASSUME Inv, NEW r \in Recoveries, RecoveryFences(r)
    PROVE  Inv'
<1>1. /\ recovery[r].at = "fence" /\ Replace(Fence(r)) /\ RecoveryReloadsNext(r) /\ NoFault
      /\ UNCHANGED <<journal, wire, post, pass>>
  BY DEF RecoveryFences
<1>2. applied' = applied
  BY <1>1 DEF Replace, Commit, Refuse, Fence, Update
<1>3. Kept
  BY <1>1, FenceLawful, CommitKeeps, StillKeeps DEF Replace, Refuse
<1>4. PICK new \in RecoveryRecord :
        recovery' = [recovery EXCEPT ![r] = new] /\ RecoveryOK(r)'
  BY <1>1, FencedRecovery
<1> QED
  BY <1>1, <1>2, <1>3, <1>4, RecoveryStill

(* The fence may arrive late; it still changes no document.                  *)
LEMMA RecoveryUnansweredStep ==
    ASSUME Inv, NEW r \in Recoveries, RecoveryUnanswered(r)
    PROVE  Inv'
<1> DEFINE u == Fence(r)
<1>1. /\ recovery[r].at = "fence" /\ Unanswered(u) /\ RecoveryReloadsNext(r) /\ Fault
      /\ UNCHANGED <<journal, post, pass, applied>>
  BY DEF RecoveryUnanswered, Unanswered
<1>2. Lawful(u)
  BY FenceLawful
<1>3. recovery[r].op \in Ops
  BY <1>1 DEF Inv, RecoveryOK
<1>4. u.op = None /\ u \in Updates
  BY <1>3 DEF Fence, Update, Updates, Inv, TypeOK, Registry, Intent
<1> HIDE DEF u
<1>5. Kept /\ wire' = wire \cup {u} /\ wire' \subseteq Updates /\ \A w \in wire' : WireOK(w)'
  BY <1>1, <1>2, <1>4, UnansweredWire
<1>6. SoleOwner'
  BY <1>1, <1>4, <1>5, OwnersStay
<1>7. PICK new \in RecoveryRecord :
        recovery' = [recovery EXCEPT ![r] = new] /\ RecoveryOK(r)'
  BY <1>1, FencedRecovery
<1> QED
  BY <1>1, <1>5, <1>6, <1>7, FaultsBounded, RecoveryMoves

(* The evidence is still true when it reaches the journal.                   *)
LEMMA RecoveryFinishesStep ==
    ASSUME Inv, NEW r \in Recoveries, RecoveryFinishes(r)
    PROVE  Inv'
<1>1. /\ recovery[r].at = "finish" /\ journal' = Finished(recovery[r].op, recovery[r].outcome)
      /\ recovery' = [recovery EXCEPT ![r] = NoRecovery] /\ NoFault
      /\ UNCHANGED <<registry, wire, post, pass, applied>>
  BY DEF RecoveryFinishes
<1>2. /\ recovery[r].op \in Ops /\ recovery[r].outcome \in {"success", "failure"}
      /\ recovery[r].outcome = "success" => recovery[r].op \in applied
      /\ recovery[r].outcome = "failure" /\ journal[recovery[r].op].outcome = "pending" =>
           recovery[r].op \notin applied /\ journal[recovery[r].op].version < registry.version
  BY <1>1 DEF Inv, RecoveryOK
<1>3. Kept
  BY <1>1, <1>2, FinishKeeps
<1> QED
  BY <1>1, <1>3, RecoveryEnds

(* A recovery stops without an outcome.                                      *)
LEMMA RecoveryGivesUpStep ==
    ASSUME Inv, NEW r \in Recoveries, RecoveryGivesUp(r)
    PROVE  Inv'
BY StillKeeps, RecoveryEnds DEF RecoveryGivesUp

----------------------------------------------------------------------------
(* The steps of a delivery pass.                                             *)

(* The cursor always finds a reference of the pass's snapshot.               *)
LEMMA NextReferenced ==
    ASSUME Inv, pass.at = "inspect"
    PROVE  NextReference \in Referenced(pass.document)
<1> DEFINE refs == Referenced(pass.document)
           later == {o \in refs : o > pass.after}
           from == IF later = {} THEN refs ELSE later
<1>1. refs # {} /\ refs \subseteq Ops /\ Ops \subseteq Nat
  BY OpsAssumption DEF Inv, PassOK, Referenced
<1>2. from # {} /\ from \subseteq refs /\ from \subseteq Nat
  BY <1>1
<1> HIDE DEF refs, later, from
<1> DEFINE less == {pair \in Nat \X Nat : pair[1] < pair[2]}
<1>3. IsWellFoundedOn(less, Nat)
  BY NatLessThanWellFounded, Zenon DEF OpToRel
<1> HIDE DEF less
<1>4. \E o \in from : \A q \in from : o <= q
  <2>1. PICK o \in from : \A q \in from : ~(<<q, o>> \in less)
    BY <1>2, <1>3, WFMin
  <2>2. ASSUME NEW q \in from PROVE o <= q
    <3>1. o \in Nat /\ q \in Nat /\ ~(<<q, o>> \in less)
      BY <1>2, <2>1
    <3>2. ~(q < o)
      BY <3>1 DEF less
    <3> QED
      BY <3>1, <3>2
  <2> QED
    BY <2>2
<1>5. NextReference = CHOOSE o \in from : \A q \in from : o <= q
  BY DEF NextReference, from, later, refs
<1>6. NextReference \in from
  BY <1>4, <1>5
<1> QED
  BY <1>2, <1>6 DEF refs

(* The pass records a success and moves on.                                  *)
LEMMA PassStill ==
    ASSUME Inv, Kept, pass' \in PassRecord, PassOK',
           UNCHANGED <<wire, post, recovery, applied>>, Fault \/ NoFault
    PROVE  Inv'
<1>1. SoleOwner'
  BY OwnersStay
<1>2. wire' \subseteq Updates /\ \A u \in wire' : WireOK(u)'
  BY DEF Kept, Inv, TypeOK
<1> QED
  BY <1>1, <1>2, FaultsBounded, PassMoves

(* A pass begins with a snapshot of the registry.                            *)
LEMMA PassStartsStep ==
    ASSUME Inv, PassStarts
    PROVE  Inv'
<1> DEFINE n == SmallerOf(Cardinality(Referenced(registry.document)), MaxInspected)
<1>1. /\ Referenced(registry.document) # {} /\ NoFault
      /\ pass' = [pass EXCEPT !.at = "inspect", !.version = registry.version,
                              !.document = registry.document, !.left = n]
      /\ UNCHANGED <<registry, journal, wire, post, recovery, applied>> /\ pass.at = "idle"
  BY DEF PassStarts
<1>2. n \in Nat
  <2>1. IsFiniteSet(Referenced(registry.document))
    BY OpsAssumption, FS_Subset DEF Referenced
  <2> QED
    BY <2>1, FS_CardinalityType, LimitsAssumption DEF SmallerOf
<1> HIDE DEF n
<1>3. /\ pass \in PassRecord /\ registry.version \in Nat /\ registry.document \in Document
      /\ Referenced(registry.document) \subseteq applied
  BY DEF Inv, TypeOK, Registry, RegistryInv, Referenced
<1>4. /\ pass' \in PassRecord /\ pass'.at = "inspect" /\ pass'.version = registry.version
      /\ pass'.document = registry.document /\ pass'.mark = pass.mark /\ pass'.prune = pass.prune
  BY <1>1, <1>2, <1>3 DEF PassRecord
<1>5. pass.mark = {} /\ pass.prune = {}
  BY <1>1 DEF Inv, PassOK
<1>6. PassOK'
  BY <1>1, <1>3, <1>4, <1>5 DEF PassOK
<1> QED
  BY <1>1, <1>4, <1>6, StillKeeps, PassStill

(* The success a pass records is true: the reference is in the registry.     *)
LEMMA PassRecords ==
    ASSUME Inv, pass.at = "inspect", journal' \in {journal, Finished(NextReference, "success")},
           UNCHANGED <<registry, applied>>
    PROVE  /\ Kept
           /\ NextReference \in Ops /\ pass.document.reference[NextReference] # "none"
           /\ \A o \in Ops : journal[o].outcome = "success" => journal'[o].outcome = "success"
<1> DEFINE n == NextReference
<1>1. n \in Ops /\ n \in applied /\ pass.document.reference[n] # "none"
  BY NextReferenced DEF Inv, PassOK, Referenced
<1> HIDE DEF n
<1>2. Kept
  BY <1>1, StillKeeps, FinishKeeps DEF n
<1>3. \A o \in Ops : journal[o].outcome = "success" => journal'[o].outcome = "success"
  BY <1>1 DEF Finished, Inv, TypeOK, n
<1> QED
  BY <1>1, <1>2, <1>3 DEF n

(* A pass that has references left counts down.                              *)
LEMMA OneLess ==
    ASSUME Inv, pass.left > 0
    PROVE  pass.left - 1 \in Nat
<1>1. pass.left \in Nat
  BY DEF Inv, TypeOK, PassRecord
<1> QED
  BY <1>1

(* A reference is marked or pruned only once its success is recorded.        *)
LEMMA PassInspectsStep ==
    ASSUME Inv, PassInspects
    PROVE  Inv'
<1> DEFINE n == NextReference
           confirmed == Finished(n, "success")[n].outcome = "success"
           delivered == pass.document.reference[n] = "delivered"
           mark == IF confirmed /\ ~delivered THEN pass.mark \cup {n} ELSE pass.mark
           prune == IF confirmed /\ delivered THEN pass.prune \cup {n} ELSE pass.prune
<1>1. /\ pass.at = "inspect" /\ pass.left > 0 /\ NoFault /\ journal' = Finished(n, "success")
      /\ pass' = [pass EXCEPT !.left = pass.left - 1, !.after = n, !.mark = mark, !.prune = prune]
      /\ UNCHANGED <<registry, wire, post, recovery, applied>>
  BY DEF PassInspects
<1>2. /\ Kept /\ n \in Ops /\ pass.document.reference[n] # "none"
      /\ \A o \in Ops : journal[o].outcome = "success" => journal'[o].outcome = "success"
  BY <1>1, PassRecords
<1>3. confirmed => journal'[n].outcome = "success"
  BY <1>1
<1>4. pass \in PassRecord /\ PassOK /\ pass.left - 1 \in Nat
  BY <1>1, OneLess DEF Inv, TypeOK
<1>5. /\ mark \subseteq Ops /\ prune \subseteq Ops
      /\ \A o \in mark : o \in pass.mark \/ o = n
      /\ \A o \in prune : journal'[o].outcome = "success"
  BY <1>1, <1>2, <1>3, <1>4 DEF PassRecord, PassOK
<1> HIDE DEF mark, prune, n
<1>6. /\ pass' \in PassRecord /\ pass'.at = "inspect" /\ pass'.mark = mark /\ pass'.prune = prune
      /\ pass'.document = pass.document /\ pass'.version = pass.version
  BY <1>1, <1>2, <1>4, <1>5 DEF PassRecord
<1>7. PassOK'
  BY <1>1, <1>2, <1>4, <1>5, <1>6 DEF PassOK
<1> QED
  BY <1>1, <1>2, <1>6, <1>7, PassStill

(* A failed journal call decides nothing about its reference.                *)
LEMMA PassSkipsStep ==
    ASSUME Inv, PassSkips
    PROVE  Inv'
<1> DEFINE n == NextReference
<1>1. /\ pass.at = "inspect" /\ pass.left > 0 /\ Fault
      /\ journal' \in {journal, Finished(n, "success")}
      /\ pass' = [pass EXCEPT !.left = pass.left - 1, !.after = n]
      /\ UNCHANGED <<registry, wire, post, recovery, applied>>
  BY DEF PassSkips
<1>2. /\ Kept /\ n \in Ops
      /\ \A o \in Ops : journal[o].outcome = "success" => journal'[o].outcome = "success"
  BY <1>1, PassRecords
<1>3. pass \in PassRecord /\ PassOK /\ pass.left - 1 \in Nat
  BY <1>1, OneLess DEF Inv, TypeOK
<1> HIDE DEF n
<1>4. /\ pass' \in PassRecord /\ pass'.at = "inspect" /\ pass'.mark = pass.mark
      /\ pass'.prune = pass.prune /\ pass.prune \subseteq Ops
      /\ pass'.document = pass.document /\ pass'.version = pass.version
  BY <1>1, <1>2, <1>3 DEF PassRecord
<1>5. PassOK'
  BY <1>1, <1>2, <1>3, <1>4 DEF PassOK
<1> QED
  BY <1>1, <1>2, <1>4, <1>5, PassStill

(* A pass that has ended holds nothing but its cursor.                       *)
LEMMA EndedPass ==
    ASSUME Inv, pass' \in {NoPass, [NoPass EXCEPT !.after = pass.after]}
    PROVE  pass' \in PassRecord /\ PassOK'
<1>1. /\ pass' \in PassRecord /\ pass'.at = "idle" /\ pass'.mark = {} /\ pass'.prune = {}
  BY DEF NoPass, PassRecord, Inv, TypeOK
<1> QED
  BY <1>1 DEF PassOK

(* The pass writes its document, at the version of its snapshot only.        *)
LEMMA PassWritesStep ==
    ASSUME Inv, PassWrites
    PROVE  Inv'
<1>1. /\ pass.at = "inspect" /\ PassEnds /\ NoFault /\ UNCHANGED <<journal, wire, post, recovery>>
      /\ \/ Refuse
         \/ Current(pass.version) /\ Commit(PassUpdate)
  BY DEF PassWrites
<1>2. applied' = applied
  BY <1>1 DEF Refuse, Commit, PassUpdate, Update
<1>3. Kept
  BY <1>1, PassLawful, CommitKeeps, StillKeeps DEF Refuse
<1> QED
  BY <1>1, <1>2, <1>3, EndedPass, PassStill DEF PassEnds

(* The pass's document may arrive late, at its version only.                 *)
LEMMA PassUnansweredStep ==
    ASSUME Inv, PassUnanswered
    PROVE  Inv'
<1> DEFINE u == PassUpdate
<1>1. /\ pass.at = "inspect" /\ Unanswered(u) /\ PassEnds /\ Fault
      /\ UNCHANGED <<journal, post, recovery, applied>> /\ Current(pass.version)
  BY DEF PassUnanswered, Unanswered, PassUpdate, Update
<1>2. Lawful(u)
  BY <1>1, PassLawful
<1>3. u.op = None /\ u \in Updates
  BY <1>2 DEF PassUpdate, Update, Updates, Lawful, Fits, SoundDocument, Inv, TypeOK, PassRecord
<1> HIDE DEF u
<1>4. Kept /\ wire' = wire \cup {u} /\ wire' \subseteq Updates /\ \A w \in wire' : WireOK(w)'
  BY <1>1, <1>2, <1>3, UnansweredWire
<1>5. SoleOwner'
  BY <1>1, <1>3, <1>4, OwnersStay
<1> QED
  BY <1>1, <1>4, <1>5, EndedPass, FaultsBounded, PassMoves DEF PassEnds

(* A pass stops, or its leader is replaced.                                  *)
LEMMA PassGivesUpStep ==
    ASSUME Inv, PassGivesUp
    PROVE  Inv'
BY StillKeeps, EndedPass, PassStill DEF PassGivesUp

----------------------------------------------------------------------------
(* A late update finds its operation unowned.                                *)
LEMMA ArrivesStep ==
    ASSUME Inv, NEW u \in wire, Arrives(u)
    PROVE  Inv'
<1>1. /\ Current(u.version) /\ Commit(u) /\ wire' = wire \ {u} /\ NoFault
      /\ UNCHANGED <<journal, post, recovery, pass>>
  BY DEF Arrives
<1>2. Kept
  BY <1>1, ArrivesLawful, CommitKeeps
<1>3. wire' \subseteq Updates /\ \A w \in wire' : WireOK(w)'
  BY <1>1, <1>2 DEF Kept, Inv, TypeOK
<1>4. SoleOwner'
  BY <1>1 DEF Inv, SoleOwner, Commit
<1>5. TypeOK'
  BY <1>1, <1>2, <1>3, FaultsBounded DEF Inv, Kept, TypeOK
<1> QED
  BY <1>1, <1>2, <1>3, <1>4, <1>5 DEF Inv, Kept

(* The installation's first registry has an administrator key.               *)
LEMMA InitInv ==
    ASSUME Init
    PROVE  Inv
<1> DEFINE credential == [k \in Credentials |->
             [state |-> IF k \in Keys THEN "active" ELSE "absent",
              administrator |-> k \in Keys, expires |-> FALSE,
              generation |-> IF k \in Keys THEN 1 ELSE 0]]
           reference == [o \in Ops |-> "none"]
           document == [credential |-> credential, reference |-> reference]
<1>1. registry = [version |-> 1, document |-> document]
  BY DEF Init
<1>2. credential \in [Credentials -> Credential] /\ reference \in [Ops -> References]
  BY DEF Credential, References
<1>3. document \in Document
  BY <1>2 DEF Document
<1>4. PICK k \in Keys : TRUE
  BY KeysAssumption
<1>5. k \in DurableAdministrators(document)
  BY <1>4 DEF DurableAdministrators, CurrentAdministrator, Credentials
<1>6. /\ document.reference = reference
      /\ \A o \in Ops : document.reference[o] = "none"
  OBVIOUS
<1> HIDE DEF document, credential, reference
<1>7. /\ registry \in Registry /\ registry.version = 1 /\ registry.document = document
      /\ RegistryInv
  BY <1>1, <1>3, <1>5, <1>6 DEF Registry, RegistryInv, SoundDocument
<1>8. journal \in [Ops -> Intent] /\ \A o \in Ops : journal[o] = NoIntent
  BY DEF Init, NoIntent, Intent
<1>9. JournalInv
  BY <1>7, <1>8 DEF JournalInv, NoIntent, Init
<1>10. /\ post \in [Posts -> PostRecord]
       /\ \A p \in Posts : post[p].at = "idle"
  BY DEF Init, NoPost, PostRecord
<1>11. /\ recovery \in [Recoveries -> RecoveryRecord]
       /\ \A r \in Recoveries : recovery[r].at = "idle"
  BY DEF Init, NoRecovery, RecoveryRecord
<1>12. /\ pass \in PassRecord /\ pass.at = "idle" /\ pass.mark = {} /\ pass.prune = {}
  BY DEF Init, NoPass, PassRecord
<1>13. wire = {} /\ applied = {} /\ faults \in 0..MaxFaults
  BY LimitsAssumption DEF Init
<1>14. TypeOK
  BY <1>7, <1>8, <1>10, <1>11, <1>12, <1>13 DEF TypeOK
<1>15. (\A p \in Posts : PostOK(p)) /\ SoleOwner
  BY <1>10 DEF PostOK, SoleOwner, Writing, Owning
<1>16. \A r \in Recoveries : RecoveryOK(r)
  BY <1>11 DEF RecoveryOK
<1>17. PassOK
  BY <1>12 DEF PassOK
<1> QED
  BY <1>7, <1>9, <1>13, <1>14, <1>15, <1>16, <1>17 DEF Inv

(* Every step of every actor keeps the invariant.                            *)
LEMMA NextInv ==
    ASSUME Inv, [Next]_vars
    PROVE  Inv'
<1>1. ASSUME NEW p \in Posts, PostStep(p) PROVE Inv'
  BY <1>1, PostLoadsStep, PostAdmitsStep, PostAdmissionLostStep, PostRechecksStep,
     PostReplacesStep, PostUnansweredStep, PostFinishesStep, PostGivesUpStep DEF PostStep
<1>2. ASSUME NEW r \in Recoveries, RecoveryStep(r) PROVE Inv'
  BY <1>2, RecoveryStartsStep, RecoveryLoadsStep, RecoveryFencesStep, RecoveryReloadsStep,
     RecoveryFinishesStep, RecoveryUnansweredStep, RecoveryGivesUpStep
     DEF RecoveryStep, RecoveryProceeds
<1>3. ASSUME PassStep PROVE Inv'
  BY <1>3, PassStartsStep, PassInspectsStep, PassWritesStep, PassSkipsStep, PassUnansweredStep,
     PassGivesUpStep DEF PassStep, PassProceeds
<1>4. ASSUME NEW u \in wire, Arrives(u) PROVE Inv'
  BY <1>4, ArrivesStep
<1>5. ASSUME UNCHANGED vars PROVE Inv'
  <2>1. Kept /\ NoFault /\ UNCHANGED <<wire, post, recovery, pass, applied>>
    BY <1>5, StillKeeps DEF vars, NoFault
  <2>2. pass' \in PassRecord /\ PassOK'
    BY <2>1 DEF Kept, Inv, TypeOK
  <2> QED
    BY <2>1, <2>2, PassStill
<1> QED
  BY <1>1, <1>2, <1>3, <1>4, <1>5 DEF Next

(* The inductive invariant holds of every behaviour of the key changes.      *)
THEOREM KeyChangesInv == Spec => []Inv
<1>1. Init => Inv
  BY InitInv
<1>2. Inv /\ [Next]_vars => Inv'
  BY NextInv
<1> QED
  BY <1>1, <1>2, PTL DEF Spec

(* Every variable keeps its type, whatever keys, operations and limits.      *)
THEOREM KeyChangesTypeCorrect == Spec => []TypeOK
<1>1. Inv => TypeOK
  BY DEF Inv
<1> QED
  BY <1>1, KeyChangesInv, PTL

(* The journal's outcomes are true and final: no update that is still under  *)
(* way can contradict a recorded failure, and the registry drops a reference *)
(* only when the success is recorded.                                        *)
THEOREM KeyJournalTruthful == Spec => []JournalTruthful
<1>1. ASSUME Inv PROVE JournalTruthful
  <2> SUFFICES ASSUME NEW o \in Ops
               PROVE  /\ journal[o].outcome = "failure" =>
                           /\ o \notin applied
                           /\ \A u \in wire : u.op = o => ~Current(u.version)
                      /\ journal[o].outcome = "success" => o \in applied
                      /\ o \in applied /\ registry.document.reference[o] = "none" =>
                           journal[o].outcome = "success"
    BY DEF JournalTruthful
  <2>1. ASSUME NEW u \in wire, u.op = o, journal[o].outcome = "failure"
        PROVE  ~Current(u.version)
    <3>1. journal[o].version = u.version /\ journal[o].version < registry.version
      BY <1>1, <2>1, KeysAssumption DEF Inv, WireOK, Aimed, JournalInv
    <3>2. registry.version \in Nat /\ journal[o].version \in Nat
      BY <1>1 DEF Inv, TypeOK, Registry, Intent
    <3> QED
      BY <3>1, <3>2 DEF Current
  <2> QED
    BY <1>1, <2>1 DEF Inv, JournalInv
<1> QED
  BY <1>1, KeyChangesInv, PTL

(* An administrator key that does not expire remains, however changes race.  *)
THEOREM KeyAdministratorRemains == Spec => []AdministratorRemains
<1>1. Inv => AdministratorRemains
  BY DEF Inv, RegistryInv, SoundDocument, AdministratorRemains
<1> QED
  BY <1>1, KeyChangesInv, PTL

----------------------------------------------------------------------------
(* What ChangesAuthorized asks of one step.                                  *)
Authorized ==
    LET before == registry.document.credential
        after == registry.document'.credential
    IN before # after =>
         \E o \in applied' \ applied :
            /\ CurrentAdministrator(registry.document, journal[o].actor)
            /\ before[journal[o].actor].generation = journal[o].generation
            /\ \E t \in Credentials : /\ before[t].state # "revoked"
                                       /\ \A k \in Credentials \ {t} : after[k] = before[k]

(* A lawful update changes access only for the operation it carries, which   *)
(* was not applied before.                                                   *)
LEMMA LawfulAccess ==
    ASSUME Inv, NEW u, Lawful(u), Commit(u)
    PROVE  Authorized
<1>1. registry'.document = u.document /\ applied' = applied \cup ({u.op} \ {None})
  BY DEF Commit
<1>2. CASE u.op = None
  BY <1>1, <1>2 DEF Lawful, Fits, Authorized
<1>3. CASE u.op # None
  <2>1. /\ u.op \in Ops /\ Aimed(u.op, registry.version)
        /\ AccessBy(journal[u.op].actor, journal[u.op].generation, u.document)
    BY <1>3 DEF Lawful, Fits
  <2>2. registry.version \in Nat
    BY DEF Inv, TypeOK, Registry
  <2>3. u.op \in applied' \ applied
    BY <1>1, <1>3, <2>1, <2>2 DEF Inv, JournalInv, Aimed
  <2> QED
    BY <1>1, <2>1, <2>3 DEF AccessBy, Authorized
<1> QED
  BY <1>2, <1>3

(* Access to the control plane changes only on behalf of an actor who is an  *)
(* administrator at that moment, one key at a time, and a revoked key never  *)
(* comes back; fences and delivery passes leave access alone.                *)
THEOREM KeyChangesAuthorized == Spec => ChangesAuthorized
<1>1. ASSUME Inv, [Next]_vars PROVE Authorized
  <2>1. ASSUME NEW p \in Posts, PostStep(p) PROVE Authorized
    <3>1. CASE PostReplaces(p)
      <4>1. \/ UNCHANGED <<registry, applied>>
            \/ post[p].at = "replace" /\ Current(post[p].version) /\ Commit(PostUpdate(p))
        BY <3>1 DEF PostReplaces, Refuse
      <4> QED
        BY <1>1, <4>1, PostLawful, LawfulAccess DEF Authorized
    <3>2. CASE ~PostReplaces(p)
      <4>1. UNCHANGED registry
        BY <2>1, <3>2 DEF PostStep, PostLoads, PostAdmits, PostAdmissionLost, PostRechecks,
                          PostUnanswered, Unanswered, PostFinishes, PostGivesUp
      <4> QED
        BY <4>1 DEF Authorized
    <3> QED
      BY <3>1, <3>2
  <2>2. ASSUME NEW r \in Recoveries, RecoveryStep(r) PROVE Authorized
    <3>1. UNCHANGED registry \/ Commit(Fence(r))
      BY <2>2 DEF RecoveryStep, RecoveryProceeds, RecoveryStarts, RecoveryLoads, RecoveryFences,
                  Replace, Refuse, RecoveryReloads, RecoveryFinishes, RecoveryUnanswered,
                  Unanswered, RecoveryGivesUp
    <3> QED
      BY <1>1, <3>1, FenceLawful, LawfulAccess DEF Authorized
  <2>3. ASSUME PassStep PROVE Authorized
    <3>1. \/ UNCHANGED registry
          \/ pass.at = "inspect" /\ Current(pass.version) /\ Commit(PassUpdate)
      BY <2>3 DEF PassStep, PassProceeds, PassStarts, PassInspects, PassWrites, Refuse, PassSkips,
                  PassUnanswered, Unanswered, PassGivesUp
    <3> QED
      BY <1>1, <3>1, PassLawful, LawfulAccess DEF Authorized
  <2>4. ASSUME NEW u \in wire, Arrives(u) PROVE Authorized
    BY <1>1, <2>4, ArrivesLawful, LawfulAccess DEF Arrives
  <2>5. ASSUME UNCHANGED vars PROVE Authorized
    BY <2>5 DEF vars, Authorized
  <2> QED
    BY <1>1, <2>1, <2>2, <2>3, <2>4, <2>5 DEF Next
<1>2. Inv /\ [Next]_vars => [Authorized]_vars
  BY <1>1
<1>3. Spec => [][Authorized]_vars
  BY <1>2, KeyChangesInv, PTL DEF Spec
<1> QED
  BY <1>3 DEF ChangesAuthorized, Authorized

=============================================================================
