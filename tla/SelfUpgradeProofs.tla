------------------------- MODULE SelfUpgradeProofs -------------------------
(***************************************************************************)
(* The safety properties of SelfUpgrade hold for any number of target      *)
(* versions, recoveries, handlers and faults.                              *)
(*                                                                         *)
(* The argument follows the reservation.  While its writer works it is at  *)
(* the version the writer knows and carries no marker: a marker means that *)
(* the writer is over and the release in order, and stays so (WriterOK,    *)
(* ReservationOK).  A write that has no answer yet can only arrive at the  *)
(* version it names, so all that could spoil it is the reservation's own   *)
(* state (WireOK).  An operation that has recorded its intent to delete    *)
(* holds the marker at that version or later, or has deleted, until its    *)
(* failure is certain; a marker is displaced only by an operation that     *)
(* saw that failure in the journal (JournalOK, HandlerOK).  And because a  *)
(* reservation never comes back once it was deleted (BirthOK), who deleted *)
(* it is decided once.                                                     *)
(***************************************************************************)
EXTENDS SelfUpgrade, TLAPS

\* The stages in which a Job's process holds maintenance at the version it knows.
Working == {"reserved", "ready", "admitted", "applied", "upgrading",
            "verifying", "failing", "rolling"}
Over(j) == writer[j].stage = "over"

\* What a Job's process may rely on, and what it leaves behind.
WriterOK(j) ==
    LET s == writer[j].stage IN
    /\ s \in Working => Own(j)
    /\ s \in {"reserved", "ready", "admitted", "verifying"} => Settled
    /\ s \in Working \ {"reserved", "ready"} => reservation.effects
    /\ s \in Working \ {"reserved", "ready", "admitted"} => ~writer[j].safe
    /\ s = "upgrading" => release.chart = j
    /\ s = "ending" /\ writer[j].safe /\ Own(j) => Settled

\* A release out of order is locked by a reservation with effects, and a marker
\* is on the reservation of a stopped writer, over a release in order.
ReservationOK ==
    /\ ~Settled => reservation.uid # None /\ reservation.effects
    /\ reservation.marker # None =>
          /\ reservation.uid # None /\ Over(reservation.uid)
          /\ Settled

\* The reservation of a target is created at most once: until then nobody has
\* its name, and once deleted it is not there again.
Unborn(j) ==
    \/ writer[j].stage \in {"none", "queued"}
    \/ \E w \in wire : w.kind = "create" /\ w.uid = j
BirthOK(j) ==
    /\ Unborn(j) =>
          /\ reservation.uid # j
          /\ freed[j] = None
          /\ \A h \in Handlers : handler[h].uid # j
          /\ \A o \in Ops : journal[o].uid # j
    /\ freed[j] # None => reservation.uid # j

\* No operation that can still succeed loses its marker to operation o.
Yields(o) == reservation.marker \in {None, o} \/ journal[reservation.marker].state = "failure"

\* Of the writes under way only a create can arrive at any time; what the others
\* were allowed by is still so while their version lasts.
WireOK(w) ==
    /\ w.kind = "create" => Over(w.uid) /\ w.version = 0 /\ w.by = w.uid
    /\ w.kind # "create" => Held(w.uid, w.version)
    /\ w.kind = "effects" => writer[w.uid].stage \in {"ending", "over"} /\ Settled
    /\ w.kind = "marker" => w.by \in Ops /\ Over(w.uid) /\ Settled /\ Yields(w.by)
    /\ w.kind = "delete" =>
          /\ Over(w.uid) /\ Settled
          /\ w.by \in Targets => w.by = w.uid /\ reservation.marker = None
          /\ w.by \in Ops => /\ reservation.marker = w.by /\ journal[w.by].uid = w.uid
                             /\ w.version # 0 /\ journal[w.by].effect = w.version

\* Operation o has its marker, from the version given or before; and the
\* reservation is not deleted by o, and can no longer be.
Marked(o, version) ==
    /\ reservation.uid = journal[o].uid /\ reservation.marker = o
    /\ version <= reservation.version
Dead(o) ==
    /\ freed[journal[o].uid] # o
    /\ reservation.uid = journal[o].uid => journal[o].effect < reservation.version

\* What an operation's record says of the reservation.
JournalOK(o) ==
    LET p == journal[o] IN
    /\ p.state = "none" => p.effect = 0
    /\ p.state # "none" => p.uid \in Targets
    /\ p.state = "pending" /\ p.effect # 0 => freed[p.uid] = o \/ Marked(o, p.effect)
    /\ p.state = "success" => freed[p.uid] = o
    /\ p.state = "failure" /\ p.effect # 0 => Dead(o)
    /\ \A j \in Targets : freed[j] = o => p.effect # 0 /\ p.uid = j

\* What a handler has seen, as far as it stays true until it acts.
HandlerOK(h) ==
    LET c == handler[h]
        p == journal[c.op] IN
    /\ IF c.stage = "idle" THEN c = Idle ELSE c.op \in Ops
    /\ c.stage = "admitting" => c.effect = 0
    /\ c.stage \notin {"idle", "finishing"} => c.uid \in Targets
    /\ c.stage \notin {"idle", "admitting"} => p.state # "none"
    /\ c.stage \notin {"idle", "admitting", "finishing"} => c.uid = p.uid
    /\ c.stage = "deleting" => c.effect # 0
    /\ c.effect # 0 => c.op \in Ops /\ p.effect = c.effect
    /\ c.replacing # None => journal[c.replacing].state = "failure"
    /\ c.stage = "preparing" => Over(c.uid) /\ (Held(c.uid, c.version) => Settled)
    /\ c.stage = "recording" => c.version # 0
    /\ c.stage = "recording" /\ p.state = "pending" /\ p.effect = 0 => Marked(c.op, c.version)
    /\ c.stage = "finishing" => c.outcome # "none"
    /\ c.stage = "finishing" /\ FinishOK(h) =>
          /\ c.outcome = "success" => freed[p.uid] = c.op
          /\ c.outcome = "failure" /\ c.effect # 0 => Dead(c.op)

\* The inductive invariant.
IInv ==
    /\ TypeOK
    /\ \A j \in Targets : WriterOK(j)
    /\ ReservationOK
    /\ \A j \in Targets : BirthOK(j)
    /\ \A w \in wire : WireOK(w)
    /\ \A o \in Ops : JournalOK(o)
    /\ \A h \in Handlers : HandlerOK(h)

-----------------------------------------------------------------------------
(* Types, and what does not disturb the invariant.                          *)

Process == [stage: {"none", "queued", "reserved", "ready", "admitted", "applied", "upgrading",
                    "verifying", "failing", "rolling", "ending", "over"},
            version: Nat, from: Charts, safe: BOOLEAN, lost: BOOLEAN]
Reservations == [uid: Targets \cup {None}, version: Nat, effects: BOOLEAN, marker: Ops \cup {None}]
Writes == [kind: {"create", "effects", "marker", "delete"}, uid: Targets,
           version: Nat, by: Targets \cup Ops]
Operations == [state: {"none", "pending", "success", "failure"},
               uid: Targets \cup {None}, expected: Nat, effect: Nat]
Requests == [stage: {"idle", "admitting", "inspecting", "checking", "preparing", "recording",
                     "deleting", "finishing"},
             op: Ops \cup {None}, uid: Targets \cup {None}, version: Nat, effect: Nat,
             replacing: Ops \cup {None}, outcome: {"none", "success", "failure"}]

LEMMA Secrets ==
    ASSUME TypeOK
    PROVE  /\ NoReservation \in Reservations
           /\ WithEffects \in Reservations
           /\ \A j \in Targets : Created(j) \in Reservations
           /\ \A o \in Ops : WithMarker(o) \in Reservations
<1>1. reservation \in Reservations
  BY DEF TypeOK, Reservations
<1>2. NoReservation \in Reservations
  BY DEF Reservations, NoReservation
<1>3. WithEffects \in Reservations
  <2>. DEFINE n == reservation.version + 1
  <2>0. n \in Nat
    BY <1>1 DEF Reservations
  <2>. HIDE DEF n
  <2>1. [[reservation EXCEPT !.version = n] EXCEPT !.effects = TRUE] \in Reservations
    BY <1>1, <2>0 DEF Reservations
  <2>. QED
    BY <2>1 DEF WithEffects, n
<1>4. ASSUME NEW j \in Targets PROVE Created(j) \in Reservations
  BY DEF Reservations, Created
<1>5. ASSUME NEW o \in Ops PROVE WithMarker(o) \in Reservations
  <2>. DEFINE n == reservation.version + 1
  <2>0. n \in Nat
    BY <1>1 DEF Reservations
  <2>. HIDE DEF n
  <2>1. [[reservation EXCEPT !.version = n] EXCEPT !.marker = o] \in Reservations
    BY <1>1, <2>0 DEF Reservations
  <2>. QED
    BY <2>1 DEF WithMarker, n
<1>. QED
  BY <1>2, <1>3, <1>4, <1>5

LEMMA ExitTyped ==
    ASSUME TypeOK, NEW j \in Targets
    PROVE  [NoProcess EXCEPT !.stage = "over", !.lost = writer[j].lost] \in Process
BY DEF TypeOK, NoProcess, Process, Charts

LEMMA Typed ==
    ASSUME TypeOK
    PROVE  /\ writer \in [Targets -> Process]
           /\ reservation \in Reservations
           /\ wire \subseteq Writes
           /\ journal \in [Ops -> Operations]
           /\ handler \in [Handlers -> Requests]
BY DEF TypeOK, Process, Reservations, Writes, Operations, Requests

\* A target whose Job has not yet created anything keeps its clean slate when no
\* new name of it appears.
LEMMA BirthKept ==
    ASSUME NEW k \in Targets, BirthOK(k),
           Unborn(k)' => Unborn(k),
           reservation'.uid \in {reservation.uid, None},
           freed'[k] = freed[k],
           \A h \in Handlers : \/ handler'[h].uid \in {None, handler[h].uid, reservation.uid}
                               \/ \E o \in Ops : handler'[h].uid = journal[o].uid,
           \A o \in Ops : \/ journal'[o].uid = journal[o].uid
                          \/ \E h \in Handlers : journal'[o].uid = handler[h].uid
    PROVE  BirthOK(k)'
<1>1. freed[k] # None => reservation'.uid # k
  BY NamesAssumption DEF BirthOK
<1>2. CASE Unborn(k)'
  BY <1>1, <1>2, NamesAssumption DEF BirthOK
<1>3. CASE ~Unborn(k)'
  BY <1>1, <1>3 DEF BirthOK
<1>. QED
  BY <1>2, <1>3

\* A handler that is not the one to act, over state that stays as it is.
LEMMA HandlersKept ==
    ASSUME NEW k \in Handlers, HandlerOK(k),
           handler'[k] = handler[k], UNCHANGED <<reservation, journal, writer, release, live, freed>>
    PROVE  HandlerOK(k)'
BY DEF HandlerOK, FinishOK, Marked, Dead, Held, Settled, Over

\* A handler is not disturbed by a Job's process that goes on.
LEMMA HandlersOnward ==
    ASSUME NEW k \in Handlers, HandlerOK(k), UNCHANGED <<reservation, journal, handler, freed>>,
           handler[k].uid \in Targets /\ Over(handler[k].uid) => Over(handler[k].uid)',
           Over(handler[k].uid) /\ Held(handler[k].uid, handler[k].version) /\ Settled => Settled'
    PROVE  HandlerOK(k)'
BY DEF HandlerOK, FinishOK, Marked, Dead, Held

\* A handler that has answered.
LEMMA IdleOK ==
    ASSUME NEW k \in Handlers, handler'[k] = Idle
    PROVE  HandlerOK(k)'
BY DEF HandlerOK, FinishOK, Marked, Dead, Held, Settled, Over, Idle

\* Every part of the invariant survives a step that leaves its variables alone.
LEMMA Kept ==
    ASSUME IInv
    PROVE  /\ UNCHANGED <<writer, reservation, release, live>> =>
                 (\A k \in Targets : WriterOK(k)') /\ ReservationOK'
           /\ UNCHANGED <<writer, reservation, wire, journal, handler, freed>> =>
                 \A k \in Targets : BirthOK(k)'
           /\ UNCHANGED <<writer, reservation, wire, release, live, journal>> =>
                 \A x \in wire' : WireOK(x)'
           /\ UNCHANGED <<reservation, journal, freed>> =>
                 \A p \in Ops : JournalOK(p)'
           /\ UNCHANGED <<writer, reservation, release, live, journal, handler, freed>> =>
                 \A k \in Handlers : HandlerOK(k)'
<1>1. UNCHANGED <<writer, reservation, release, live>> =>
         (\A k \in Targets : WriterOK(k)') /\ ReservationOK'
  BY DEF IInv, WriterOK, ReservationOK, Own, Held, Settled, Over
<1>2. ASSUME UNCHANGED <<writer, reservation, wire, journal, handler, freed>>, NEW k \in Targets
      PROVE  BirthOK(k)'
  BY <1>2 DEF IInv, BirthOK, Unborn
<1>3. ASSUME UNCHANGED <<writer, reservation, wire, release, live, journal>>, NEW x \in wire'
      PROVE  WireOK(x)'
  BY <1>3 DEF IInv, WireOK, Held, Over, Settled, Yields
<1>4. ASSUME UNCHANGED <<reservation, journal, freed>>, NEW p \in Ops
      PROVE  JournalOK(p)'
  BY <1>4 DEF IInv, JournalOK, Marked, Dead
<1>5. ASSUME UNCHANGED <<writer, reservation, release, live, journal, handler, freed>>, NEW k \in Handlers
      PROVE  HandlerOK(k)'
  BY <1>5, HandlersKept DEF IInv
<1>. QED
  BY <1>1, <1>2, <1>3, <1>4, <1>5

-----------------------------------------------------------------------------
(* An upgrade begins, and reserves maintenance.                            *)

LEMMA StartChecksInv ==
    ASSUME IInv, NEW j \in Targets, StartChecks(j)
    PROVE  IInv'
<1>1. TypeOK'
  <2>1. (starting \subseteq Targets)'
    BY DEF IInv, TypeOK, StartChecks
  <2>. QED
    BY <2>1
       DEF IInv, TypeOK, Process, Reservations, Writes, Operations, Requests,
           StartChecks
<1>2. /\ \A k \in Targets : WriterOK(k)'
      /\ ReservationOK'
      /\ \A k \in Targets : BirthOK(k)'
      /\ \A x \in wire' : WireOK(x)'
      /\ \A p \in Ops : JournalOK(p)'
      /\ \A k \in Handlers : HandlerOK(k)'
  BY Kept DEF StartChecks
<1>. QED
  BY <1>1, <1>2 DEF IInv

LEMMA StartCreatesInv ==
    ASSUME IInv, NEW j \in Targets, StartCreates(j)
    PROVE  IInv'
<1>1. TypeOK'
  <2>1. (starting \subseteq Targets)'
    BY DEF IInv, TypeOK, StartCreates
  <2>2. (writer \in [Targets -> Process])'
    BY DEF IInv, TypeOK, Process, StartCreates
  <2>. QED
    BY <2>1, <2>2
       DEF IInv, TypeOK, Process, Reservations, Writes, Operations, Requests,
           StartCreates
<1>2. ASSUME NEW k \in Targets PROVE WriterOK(k)'
  BY DEF IInv, WriterOK, Working, Settled, Own, Held, StartCreates
<1>3. ReservationOK'
  BY DEF IInv, ReservationOK, Settled, Over, StartCreates
<1>4. ASSUME NEW k \in Targets PROVE BirthOK(k)'
  BY DEF IInv, BirthOK, Unborn, StartCreates
<1>5. ASSUME NEW x \in wire' PROVE WireOK(x)'
  BY DEF IInv, WireOK, Held, Over, Settled, Yields, StartCreates
<1>6. ASSUME NEW k \in Handlers PROVE HandlerOK(k)'
  BY DEF IInv, HandlerOK, FinishOK, Marked, Dead, Held, Settled, Over, StartCreates
<1>7. \A p \in Ops : JournalOK(p)'
  BY Kept DEF StartCreates
<1>. QED
  BY <1>1, <1>2, <1>3, <1>4, <1>5, <1>6, <1>7 DEF IInv

LEMMA ReserveInv ==
    ASSUME IInv, NEW j \in Targets, Reserve(j)
    PROVE  IInv'
<1>0. /\ writer \in [Targets -> Process] /\ writer[j].stage = "queued" /\ UNCHANGED <<release, live>>
      /\ ReservationOK
  BY Typed DEF IInv, Reserve
<1>1. TypeOK'
  <2>1. (writer \in [Targets -> Process])'
    <3>0. writer \in [Targets -> Process]
      BY Typed DEF IInv
    <3>1. CASE reservation.uid = None
      <4>1. writer' = [writer EXCEPT ![j].stage = "reserved", ![j].version = 1]
        BY <3>1 DEF Reserve, Exit
      <4>2. \A k \in Targets : writer'[k] \in Process
        BY <3>0, <4>1, ExitTyped DEF Process, IInv
      <4>. QED
        BY <3>0, <4>1, <4>2
    <3>2. CASE reservation.uid # None
      <4>1. writer' = [writer EXCEPT ![j] = [NoProcess EXCEPT !.stage = "over", !.lost = writer[j].lost]]
        BY <3>2 DEF Reserve, Exit
      <4>2. \A k \in Targets : writer'[k] \in Process
        BY <3>0, <4>1, ExitTyped DEF Process, IInv
      <4>. QED
        BY <3>0, <4>1, <4>2
    <3>. QED
      BY <3>1, <3>2 DEF Reserve, Exit
  <2>2. (reservation \in Reservations)'
      BY Secrets, Typed DEF IInv, Reserve, Store
  <2>3. (wire \subseteq Writes)'
    BY DEF IInv, TypeOK, Writes, Reserve, Store
  <2>. QED
    BY <2>1, <2>2, <2>3
       DEF IInv, TypeOK, Process, Reservations, Writes, Operations, Requests, Reserve
<1>2. ASSUME NEW k \in Targets PROVE WriterOK(k)'
  <2>0. WriterOK(k)
    BY DEF IInv
  <2>1. CASE reservation.uid = None
    <3>1. /\ writer' = [writer EXCEPT ![j].stage = "reserved", ![j].version = 1]
          /\ reservation' = [uid |-> j, version |-> 1, effects |-> FALSE, marker |-> None]
      BY <2>1 DEF Reserve, Store, Created
    <3>2. Settled /\ Settled'
      BY <1>0, <2>1 DEF ReservationOK, Settled
    <3>3. CASE k = j
      <4>1. writer'[k].stage = "reserved" /\ Own(k)'
        BY <1>0, <3>1, <3>3 DEF Own, Held, Process
      <4>. QED
        BY <3>2, <4>1 DEF WriterOK, Working
    <3>4. CASE k # j
      BY <1>0, <2>0, <2>1, <3>1, <3>4, NamesAssumption DEF WriterOK, Own, Held, Working
    <3>. QED
      BY <3>3, <3>4
  <2>2. CASE reservation.uid # None
    BY <1>0, <2>0, <2>2, ZenonT(40)
       DEF Reserve, Exit, NoProcess, WriterOK, Own, Held, Working, Settled, Process
  <2>. QED
    BY <2>1, <2>2
<1>3. ReservationOK'
  BY DEF IInv, TypeOK, ReservationOK, Over, Settled, Reserve, Store, Created, Exit
<1>4. ASSUME NEW k \in Targets PROVE BirthOK(k)'
  BY DEF IInv, TypeOK, BirthOK, Unborn, WireOK, HandlerOK, Over, Reserve, Store, Created,
     Exit
<1>5. ASSUME NEW x \in wire' PROVE WireOK(x)'
  BY NamesAssumption
     DEF IInv, TypeOK, WireOK, Held, Over, Settled, Yields, Reserve, Store, Created,
         Exit
<1>6. ASSUME NEW p \in Ops PROVE JournalOK(p)'
  BY DEF IInv, ReservationOK, BirthOK, Unborn, JournalOK, Marked, Dead, Reserve, Store,
     Created
<1>7. ASSUME NEW k \in Handlers PROVE HandlerOK(k)'
  BY DEF IInv, TypeOK, ReservationOK, BirthOK, HandlerOK, JournalOK, Marked, Dead,
     FinishOK, Over, Settled, Held, Reserve, Created, Exit
<1>. QED
  BY <1>1, <1>2, <1>3, <1>4, <1>5, <1>6, <1>7 DEF IInv

LEMMA ReserveUnansweredInv ==
    ASSUME IInv, NEW j \in Targets, ReserveUnanswered(j)
    PROVE  IInv'
<1>1. TypeOK'
  <2>1. (writer \in [Targets -> Process])'
    BY NamesAssumption, NumbersAssumption
       DEF IInv, TypeOK, Process, Reservations, Writes, Operations, Requests, Charts,
           WriterOK, Own, Held, ReserveUnanswered, Late, Exit, NoProcess, Fault
  <2>2. (wire \subseteq Writes)'
    BY DEF IInv, TypeOK, Writes, ReserveUnanswered, Late
  <2>3. (faults \in 0..MaxFaults)'
    BY NumbersAssumption DEF IInv, TypeOK, ReserveUnanswered, Fault
  <2>. QED
    BY <2>1, <2>2, <2>3
       DEF IInv, TypeOK, Process, Reservations, Writes, Operations, Requests,
           ReserveUnanswered
<1>2. ASSUME NEW k \in Targets PROVE WriterOK(k)'
  BY DEF IInv, WriterOK, Working, Settled, Own, Held, ReserveUnanswered, Exit
<1>3. ReservationOK'
  BY DEF IInv, ReservationOK, Settled, Over, ReserveUnanswered, Exit
<1>4. ASSUME NEW k \in Targets PROVE BirthOK(k)'
  BY DEF IInv, BirthOK, Unborn, ReserveUnanswered, Late, Exit
<1>5. ASSUME NEW x \in wire' PROVE WireOK(x)'
  BY DEF IInv, TypeOK, WireOK, Held, Over, Settled, Yields, ReserveUnanswered, Late, Exit
<1>6. ASSUME NEW k \in Handlers PROVE HandlerOK(k)'
  BY DEF IInv, HandlerOK, FinishOK, Marked, Dead, Held, Settled, Over, ReserveUnanswered,
     Exit
<1>7. \A p \in Ops : JournalOK(p)'
  BY Kept DEF ReserveUnanswered
<1>. QED
  BY <1>1, <1>2, <1>3, <1>4, <1>5, <1>6, <1>7 DEF IInv

-----------------------------------------------------------------------------
(* The reservation lets effects begin, and the writer lets go of it or leaves it.*)

LEMMA RecordUpgradeEffectsInv ==
    ASSUME IInv, NEW j \in Targets, RecordUpgradeEffects(j)
    PROVE  IInv'
<1>1. TypeOK'
  <2>1. (writer \in [Targets -> Process])'
    <3>0. writer \in [Targets -> Process] /\ writer[j].version + 1 \in Nat
      BY Typed DEF IInv, Process
    <3>1. ASSUME NEW n \in Nat, writer' = [writer EXCEPT ![j].stage = "admitted", ![j].version = n]
         PROVE  writer' \in [Targets -> Process]
      <4>1. \A k \in Targets : writer'[k] \in Process
        BY <3>0, <3>1 DEF Process
      <4>. QED
        BY <3>0, <3>1, <4>1
    <3>2. ASSUME writer' = [writer EXCEPT ![j].stage = "ending"]
         PROVE  writer' \in [Targets -> Process]
      <4>1. \A k \in Targets : writer'[k] \in Process
        BY <3>0, <3>2 DEF Process
      <4>. QED
        BY <3>0, <3>2, <4>1
    <3>. QED
      BY <3>0, <3>1, <3>2 DEF RecordUpgradeEffects, Goto
  <2>2. (reservation \in Reservations)'
    BY DEF IInv, TypeOK, Reservations, RecordUpgradeEffects
  <2>3. (wire \subseteq Writes)'
    BY DEF IInv, TypeOK, Writes, RecordUpgradeEffects
  <2>. QED
    BY <2>1, <2>2, <2>3
       DEF IInv, TypeOK, Process, Reservations, Writes, Operations, Requests,
           RecordUpgradeEffects
<1>2. ASSUME NEW k \in Targets PROVE WriterOK(k)'
  BY DEF IInv, TypeOK, WriterOK, Working, RecordUpgradeEffects
<1>3. ReservationOK'
  BY DEF IInv, TypeOK, ReservationOK, Over, Settled, RecordUpgradeEffects, WithEffects, Goto
<1>4. ASSUME NEW k \in Targets PROVE BirthOK(k)'
  <2>0. writer \in [Targets -> Process] /\ UNCHANGED <<journal, handler, freed>>
    BY Typed DEF IInv, RecordUpgradeEffects
  <2>1. BirthOK(k) /\ reservation'.uid = reservation.uid /\ wire' \subseteq wire
    BY Typed DEF IInv, RecordUpgradeEffects, Store, WithEffects, Reservations
  <2>2. writer'[k].stage \in {"none", "queued"} => writer[k].stage \in {"none", "queued"}
    BY <2>0 DEF RecordUpgradeEffects, Goto, Process
  <2>3. Unborn(k)' => Unborn(k)
    BY <2>1, <2>2 DEF Unborn
  <2>. QED
    BY <2>0, <2>1, <2>3, BirthKept
<1>5. ASSUME NEW x \in wire' PROVE WireOK(x)'
  BY DEF IInv, TypeOK, WireOK, JournalOK, Yields, Over, Settled, Own, Held,
     RecordUpgradeEffects, Goto
<1>6. ASSUME NEW p \in Ops PROVE JournalOK(p)'
  BY DEF IInv, TypeOK, WriterOK, Working, RecordUpgradeEffects
<1>7. ASSUME NEW k \in Handlers PROVE HandlerOK(k)'
  BY DEF IInv, TypeOK, HandlerOK, JournalOK, Marked, Dead, FinishOK, Over, Settled, Own,
     Held, RecordUpgradeEffects, Goto
<1>. QED
  BY <1>1, <1>2, <1>3, <1>4, <1>5, <1>6, <1>7 DEF IInv

LEMMA RecordUnansweredInv ==
    ASSUME IInv, NEW j \in Targets, RecordUnanswered(j)
    PROVE  IInv'
<1>0. /\ writer \in [Targets -> Process] /\ WriterOK(j)
      /\ reservation \in Reservations /\ reservation.version \in Nat
      /\ writer[j].stage = "ready" /\ reservation.uid = j
      /\ writer' = [writer EXCEPT ![j].stage = "ending"]
      /\ UNCHANGED <<release, live, journal, handler, freed>>
  BY Typed DEF IInv, RecordUnanswered, Goto, Own, Held, Reservations
<1>a. /\ reservation'.uid = reservation.uid
      /\ reservation'.marker = reservation.marker
      /\ reservation'.version \in {reservation.version, reservation.version + 1}
  BY <1>0 DEF RecordUnanswered, Store, WithEffects, Reservations
<1>1. TypeOK'
  <2>1. (writer \in [Targets -> Process])'
    BY DEF IInv, TypeOK, Process, RecordUnanswered, Goto
  <2>2. (reservation \in Reservations)'
      BY Secrets, Typed DEF IInv, RecordUnanswered, Store
  <2>3. (wire \subseteq Writes)'
    BY DEF IInv, TypeOK, Writes, RecordUnanswered, Store, Late
  <2>4. (faults \in 0..MaxFaults)'
    BY NumbersAssumption DEF IInv, TypeOK, RecordUnanswered, Fault
  <2>. QED
    BY <2>1, <2>2, <2>3, <2>4
       DEF IInv, TypeOK, Process, Reservations, Writes, Operations, Requests,
           RecordUnanswered
<1>2. ASSUME NEW k \in Targets PROVE WriterOK(k)'
  BY DEF IInv, TypeOK, WriterOK, Working, Settled, Own, Held, RecordUnanswered, Goto
<1>3. ReservationOK'
  <2>1. Settled /\ Settled'
    BY <1>0 DEF WriterOK, Settled
  <2>2. reservation.marker = None
    BY <1>0 DEF IInv, ReservationOK, Over
  <2>. QED
    BY <1>a, <2>1, <2>2 DEF ReservationOK
<1>4. ASSUME NEW k \in Targets PROVE BirthOK(k)'
  <2>1. Unborn(k)' => Unborn(k)
    BY <1>0 DEF RecordUnanswered, Store, Unborn, Process, Late
  <2>. QED
    BY <1>0, <1>a, <2>1 DEF IInv, BirthOK
<1>5. ASSUME NEW x \in wire' PROVE WireOK(x)'
  BY DEF IInv, TypeOK, WriterOK, WireOK, Over, Settled, Own, Held, RecordUnanswered,
     Store, Goto, Late
<1>6. ASSUME NEW p \in Ops PROVE JournalOK(p)'
  <2>1. JournalOK(p) /\ journal[p].effect \in Nat
    BY Typed DEF IInv, Operations
  <2>. QED
    BY <1>0, <1>a, <2>1 DEF JournalOK, Marked, Dead
<1>7. ASSUME NEW k \in Handlers PROVE HandlerOK(k)'
  BY DEF IInv, WriterOK, ReservationOK, BirthOK, HandlerOK, JournalOK, Marked, Dead,
     FinishOK, Over, Settled, Own, Held, RecordUnanswered, Goto
<1>. QED
  BY <1>1, <1>2, <1>3, <1>4, <1>5, <1>6, <1>7 DEF IInv

LEMMA ReleaseInv ==
    ASSUME IInv, NEW j \in Targets, Release(j)
    PROVE  IInv'
<1>1. TypeOK'
  <2>1. (writer \in [Targets -> Process])'
    BY NamesAssumption, NumbersAssumption, ZenonT(40)
       DEF IInv, TypeOK, Process, Reservations, Writes, Operations, Requests, Charts,
           WriterOK, Own, Held, Release, Store, NoReservation, Exit, NoProcess
  <2>2. (reservation \in Reservations)'
      BY Secrets, Typed DEF IInv, Release, Store
  <2>3. (wire \subseteq Writes)'
    BY DEF IInv, TypeOK, Writes, Release, Store
  <2>4. (freed \in [Targets -> Targets \cup Ops \cup {None}])'
    BY DEF IInv, TypeOK, Own, Held, Release
  <2>. QED
    BY <2>1, <2>2, <2>3, <2>4
       DEF IInv, TypeOK, Process, Reservations, Writes, Operations, Requests, Release
<1>2. ASSUME NEW k \in Targets PROVE WriterOK(k)'
  BY DEF IInv, WriterOK, Working, Settled, Own, Held, Release, Exit
<1>3. ReservationOK'
  BY DEF IInv, ReservationOK, Settled, Over, WriterOK, Release, Store, NoReservation, Exit
<1>4. ASSUME NEW k \in Targets PROVE BirthOK(k)'
  BY NamesAssumption
     DEF IInv, TypeOK, BirthOK, Unborn, Held, Own, Release, Store, NoReservation, Exit
<1>5. ASSUME NEW x \in wire' PROVE WireOK(x)'
  BY DEF IInv, WireOK, Held, Over, Settled, Yields, Release, Store, NoReservation, Exit
<1>6. ASSUME NEW p \in Ops PROVE JournalOK(p)'
  BY NamesAssumption
     DEF IInv, TypeOK, ReservationOK, BirthOK, JournalOK, Marked, Dead, Over, Held,
         Own, Release, Store, NoReservation
<1>7. ASSUME NEW k \in Handlers PROVE HandlerOK(k)'
  BY NamesAssumption
     DEF IInv, TypeOK, ReservationOK, BirthOK, HandlerOK, JournalOK, Marked, Dead,
         FinishOK, Over, Settled, Own, Held, Release, Store, NoReservation, Exit
<1>. QED
  BY <1>1, <1>2, <1>3, <1>4, <1>5, <1>6, <1>7 DEF IInv

LEMMA ReleaseUnansweredInv ==
    ASSUME IInv, NEW j \in Targets, ReleaseUnanswered(j)
    PROVE  IInv'
<1>1. TypeOK'
  <2>1. (writer \in [Targets -> Process])'
    BY NamesAssumption, NumbersAssumption
       DEF IInv, TypeOK, Process, Reservations, Writes, Operations, Requests, Charts,
           WriterOK, Own, Held, ReleaseUnanswered, Late, Exit, NoProcess, Fault
  <2>2. (wire \subseteq Writes)'
    BY DEF IInv, TypeOK, Writes, ReleaseUnanswered, Late
  <2>3. (faults \in 0..MaxFaults)'
    BY NumbersAssumption DEF IInv, TypeOK, ReleaseUnanswered, Fault
  <2>. QED
    BY <2>1, <2>2, <2>3
       DEF IInv, TypeOK, Process, Reservations, Writes, Operations, Requests,
           ReleaseUnanswered
<1>2. ASSUME NEW k \in Targets PROVE WriterOK(k)'
  BY DEF IInv, WriterOK, Working, Settled, Own, Held, ReleaseUnanswered, Exit
<1>3. ReservationOK'
  BY DEF IInv, ReservationOK, Settled, Over, ReleaseUnanswered, Exit
<1>4. ASSUME NEW k \in Targets PROVE BirthOK(k)'
  BY DEF IInv, BirthOK, Unborn, ReleaseUnanswered, Late, Exit
<1>5. ASSUME NEW x \in wire' PROVE WireOK(x)'
  BY NamesAssumption
     DEF IInv, TypeOK, WriterOK, ReservationOK, WireOK, Over, Settled, Own, Held,
         ReleaseUnanswered, Late, Exit
<1>6. ASSUME NEW k \in Handlers PROVE HandlerOK(k)'
  BY DEF IInv, HandlerOK, FinishOK, Marked, Dead, Held, Settled, Over, ReleaseUnanswered,
     Exit
<1>7. \A p \in Ops : JournalOK(p)'
  BY Kept DEF ReleaseUnanswered
<1>. QED
  BY <1>1, <1>2, <1>3, <1>4, <1>5, <1>6, <1>7 DEF IInv

LEMMA RetainInv ==
    ASSUME IInv, NEW j \in Targets, Retain(j)
    PROVE  IInv'
<1>1. TypeOK'
  <2>1. (writer \in [Targets -> Process])'
    BY NamesAssumption, NumbersAssumption
       DEF IInv, TypeOK, Process, Reservations, Writes, Operations, Requests, Charts,
           WriterOK, Own, Held, Retain, Exit, NoProcess
  <2>. QED
    BY <2>1 DEF IInv, TypeOK, Process, Reservations, Writes, Operations, Requests, Retain
<1>2. ASSUME NEW k \in Targets PROVE WriterOK(k)'
  BY DEF IInv, WriterOK, Working, Settled, Own, Held, Retain, Exit
<1>3. ReservationOK'
  BY DEF IInv, ReservationOK, Settled, Over, Retain, Exit
<1>4. ASSUME NEW k \in Targets PROVE BirthOK(k)'
  BY DEF IInv, BirthOK, Unborn, Retain, Exit
<1>5. ASSUME NEW x \in wire' PROVE WireOK(x)'
  BY DEF IInv, WireOK, Held, Over, Settled, Yields, Retain, Exit
<1>6. ASSUME NEW k \in Handlers PROVE HandlerOK(k)'
  BY DEF IInv, HandlerOK, FinishOK, Marked, Dead, Held, Settled, Over, Retain, Exit
<1>7. \A p \in Ops : JournalOK(p)'
  BY Kept DEF Retain
<1>. QED
  BY <1>1, <1>2, <1>3, <1>4, <1>5, <1>6, <1>7 DEF IInv

-----------------------------------------------------------------------------
(* The upgrade itself: only the holder of the reservation comes near the release.*)

LEMMA PreflightInv ==
    ASSUME IInv, NEW j \in Targets, Preflight(j)
    PROVE  IInv'
<1>1. TypeOK'
  <2>1. (writer \in [Targets -> Process])'
    BY NumbersAssumption DEF IInv, TypeOK, Process, Charts, Preflight, Goto
  <2>. QED
    BY <2>1 DEF IInv, TypeOK, Process, Reservations, Writes, Operations, Requests, Preflight
<1>2. ASSUME NEW k \in Targets PROVE WriterOK(k)'
  BY DEF IInv, TypeOK, WriterOK, Working, Settled, Own, Held, Preflight, Goto
<1>3. ReservationOK'
  BY DEF IInv, ReservationOK, Settled, Over, WriterOK, Working, Own, Held, Preflight
<1>4. ASSUME NEW k \in Targets PROVE BirthOK(k)'
  <2>1. /\ UNCHANGED <<reservation, journal, handler, freed, wire>> /\ BirthOK(k)
        /\ writer \in [Targets -> Process]
    BY Typed DEF IInv, Preflight
  <2>2. Unborn(k)' => Unborn(k)
    BY <2>1 DEF Unborn, Preflight, Goto, Process
  <2>. QED
    BY <2>1, <2>2, BirthKept
<1>5. ASSUME NEW x \in wire' PROVE WireOK(x)'
  BY NamesAssumption, NumbersAssumption
     DEF IInv, TypeOK, WireOK, Held, Over, Settled, Yields, Preflight, Goto
<1>6. ASSUME NEW k \in Handlers PROVE HandlerOK(k)'
  BY DEF IInv, TypeOK, WriterOK, HandlerOK, Marked, Dead, FinishOK, Over, Settled, Own,
     Held, Preflight, Goto
<1>7. \A p \in Ops : JournalOK(p)'
  BY Kept DEF Preflight
<1>. QED
  BY <1>1, <1>2, <1>3, <1>4, <1>5, <1>6, <1>7 DEF IInv

LEMMA ApplyCRDsInv ==
    ASSUME IInv, NEW j \in Targets, ApplyCRDs(j)
    PROVE  IInv'
<1>1. TypeOK'
  <2>1. (writer \in [Targets -> Process])'
    <3>0. writer \in [Targets -> Process]
      BY Typed DEF IInv
    <3>1. ASSUME writer' = [writer EXCEPT ![j].stage = "applied", ![j].safe = FALSE]
         PROVE  writer' \in [Targets -> Process]
      <4>1. \A k \in Targets : writer'[k] \in Process
        BY <3>0, <3>1 DEF Process
      <4>. QED
        BY <3>0, <3>1, <4>1
    <3>2. ASSUME writer' = [writer EXCEPT ![j].stage = "ending", ![j].safe = FALSE]
         PROVE  writer' \in [Targets -> Process]
      <4>1. \A k \in Targets : writer'[k] \in Process
        BY <3>0, <3>2 DEF Process
      <4>. QED
        BY <3>0, <3>2, <4>1
    <3>3. ASSUME writer' = [writer EXCEPT ![j].stage = "ending"]
         PROVE  writer' \in [Targets -> Process]
      <4>1. \A k \in Targets : writer'[k] \in Process
        BY <3>0, <3>3 DEF Process
      <4>. QED
        BY <3>0, <3>3, <4>1
    <3>. QED
      BY <3>1, <3>2, <3>3 DEF ApplyCRDs, Goto
  <2>. QED
    BY <2>1 DEF IInv, TypeOK, Process, Reservations, Writes, Operations, Requests, ApplyCRDs
<1>2. ASSUME NEW k \in Targets PROVE WriterOK(k)'
  BY DEF IInv, TypeOK, WriterOK, Working, Settled, Own, Held, ApplyCRDs, Goto
<1>3. ReservationOK'
  BY DEF IInv, ReservationOK, Settled, Over, WriterOK, Working, Own, Held, ApplyCRDs
<1>4. ASSUME NEW k \in Targets PROVE BirthOK(k)'
  <2>0. writer \in [Targets -> Process] /\ UNCHANGED <<journal, handler, freed>>
    BY Typed DEF IInv, ApplyCRDs
  <2>1. BirthOK(k) /\ reservation'.uid = reservation.uid /\ wire' \subseteq wire
    BY Typed DEF IInv, ApplyCRDs
  <2>2. writer'[k].stage \in {"none", "queued"} => writer[k].stage \in {"none", "queued"}
    BY <2>0 DEF ApplyCRDs, Goto, Process
  <2>3. Unborn(k)' => Unborn(k)
    BY <2>1, <2>2 DEF Unborn
  <2>. QED
    BY <2>0, <2>1, <2>3, BirthKept
<1>5. ASSUME NEW x \in wire' PROVE WireOK(x)'
  BY DEF IInv, TypeOK, WireOK, HandlerOK, Yields, Over, Settled, Own, Held, ApplyCRDs, Goto
<1>6. ASSUME NEW k \in Handlers PROVE HandlerOK(k)'
  <2>0. writer \in [Targets -> Process]
    BY Typed DEF IInv
  <2>1. handler[k].uid \in Targets /\ Over(handler[k].uid) => Over(handler[k].uid)'
    BY <2>0 DEF Over, ApplyCRDs, Goto, Process
  <2>2. Over(handler[k].uid) /\ Held(handler[k].uid, handler[k].version) /\ Settled => Settled'
    BY DEF Over, Own, Held, Settled, ApplyCRDs
  <2>. QED
    BY <2>1, <2>2, HandlersOnward DEF IInv, ApplyCRDs
<1>7. \A p \in Ops : JournalOK(p)'
  BY Kept DEF ApplyCRDs
<1>. QED
  BY <1>1, <1>2, <1>3, <1>4, <1>5, <1>6, <1>7 DEF IInv

LEMMA HelmUpgradeInv ==
    ASSUME IInv, NEW j \in Targets, HelmUpgrade(j)
    PROVE  IInv'
<1>1. TypeOK'
  <2>1. (writer \in [Targets -> Process])'
    <3>0. writer \in [Targets -> Process]
      BY Typed DEF IInv
    <3>1. ASSUME writer' = [writer EXCEPT ![j].stage = "upgrading"]
         PROVE  writer' \in [Targets -> Process]
      <4>1. \A k \in Targets : writer'[k] \in Process
        BY <3>0, <3>1 DEF Process
      <4>. QED
        BY <3>0, <3>1, <4>1
    <3>2. ASSUME writer' = [writer EXCEPT ![j].stage = "failing"]
         PROVE  writer' \in [Targets -> Process]
      <4>1. \A k \in Targets : writer'[k] \in Process
        BY <3>0, <3>2 DEF Process
      <4>. QED
        BY <3>0, <3>2, <4>1
    <3>3. ASSUME writer' = [writer EXCEPT ![j].stage = "ending"]
         PROVE  writer' \in [Targets -> Process]
      <4>1. \A k \in Targets : writer'[k] \in Process
        BY <3>0, <3>3 DEF Process
      <4>. QED
        BY <3>0, <3>3, <4>1
    <3>. QED
      BY <3>1, <3>2, <3>3 DEF HelmUpgrade, Goto
  <2>2. (release \in [status: {"pending", "deployed", "failed"}, chart: Charts])'
    BY DEF IInv, TypeOK, Charts, HelmUpgrade
  <2>. QED
    BY <2>1, <2>2
       DEF IInv, TypeOK, Process, Reservations, Writes, Operations, Requests,
           HelmUpgrade
<1>2. ASSUME NEW k \in Targets PROVE WriterOK(k)'
  BY DEF IInv, TypeOK, WriterOK, Working, Settled, Own, Held, HelmUpgrade, Goto
<1>3. ReservationOK'
  BY NamesAssumption
     DEF IInv, ReservationOK, Over, WriterOK, Working, Own, Held, HelmUpgrade
<1>4. ASSUME NEW k \in Targets PROVE BirthOK(k)'
  <2>1. /\ UNCHANGED <<reservation, journal, handler, freed, wire>> /\ BirthOK(k)
        /\ writer \in [Targets -> Process]
    BY Typed DEF IInv, HelmUpgrade
  <2>2. Unborn(k)' => Unborn(k)
    BY <2>1 DEF Unborn, HelmUpgrade, Goto, Process
  <2>. QED
    BY <2>1, <2>2, BirthKept
<1>5. ASSUME NEW x \in wire' PROVE WireOK(x)'
  BY DEF IInv, TypeOK, WireOK, JournalOK, Yields, Over, Settled, Own, Held, HelmUpgrade,
     Goto
<1>6. ASSUME NEW k \in Handlers PROVE HandlerOK(k)'
  BY DEF IInv, TypeOK, HandlerOK, Marked, Dead, FinishOK, Over, Settled, Own, Held,
     HelmUpgrade, Goto
<1>7. \A p \in Ops : JournalOK(p)'
  BY Kept DEF HelmUpgrade
<1>. QED
  BY <1>1, <1>2, <1>3, <1>4, <1>5, <1>6, <1>7 DEF IInv

LEMMA HelmEndsInv ==
    ASSUME IInv, NEW j \in Targets, HelmEnds(j)
    PROVE  IInv'
<1>0. /\ writer \in [Targets -> Process] /\ UNCHANGED reservation
      /\ writer[j].stage = "upgrading"
      /\ \E s \in {"verifying", "failing"} : writer' = [writer EXCEPT ![j].stage = s]
      /\ Own(j) /\ reservation.effects /\ ~writer[j].safe
  BY Typed DEF IInv, HelmEnds, Goto, WriterOK, Working
<1>1. TypeOK'
  <2>1. (writer \in [Targets -> Process])'
    <3>0. writer \in [Targets -> Process]
      BY Typed DEF IInv
    <3>1. ASSUME writer' = [writer EXCEPT ![j].stage = "verifying"]
         PROVE  writer' \in [Targets -> Process]
      <4>1. \A k \in Targets : writer'[k] \in Process
        BY <3>0, <3>1 DEF Process
      <4>. QED
        BY <3>0, <3>1, <4>1
    <3>2. ASSUME writer' = [writer EXCEPT ![j].stage = "failing"]
         PROVE  writer' \in [Targets -> Process]
      <4>1. \A k \in Targets : writer'[k] \in Process
        BY <3>0, <3>2 DEF Process
      <4>. QED
        BY <3>0, <3>2, <4>1
    <3>. QED
      BY <3>1, <3>2 DEF HelmEnds, Goto
  <2>2. (release \in [status: {"pending", "deployed", "failed"}, chart: Charts])'
    BY DEF IInv, TypeOK, Charts, HelmEnds
  <2>3. (live \in Charts)'
    BY DEF IInv, TypeOK, Charts, HelmEnds
  <2>. QED
    BY <2>1, <2>2, <2>3
       DEF IInv, TypeOK, Process, Reservations, Writes, Operations, Requests,
           HelmEnds
<1>2. ASSUME NEW k \in Targets PROVE WriterOK(k)'
  <2>0. WriterOK(k) /\ WriterOK(j)
    BY DEF IInv
  <2>1. CASE k # j
    <3>1. writer'[k] = writer[k] /\ ~Own(k) /\ ~Own(k)'
      BY <1>0, <2>1 DEF Own, Held
    <3>. QED
      BY <1>0, <2>0, <3>1 DEF WriterOK, Working
  <2>2. CASE k = j
    <3>1. Own(k)' /\ ~writer'[k].safe /\ writer'[k].stage \in {"verifying", "failing"}
      BY <1>0, <2>2 DEF Own, Held, Process
    <3>2. writer'[k].stage = "verifying" => Settled'
      BY <1>0, <2>0, <2>2 DEF HelmEnds, Goto, Settled, Process, WriterOK, IInv, TypeOK
    <3>. QED
      BY <1>0, <3>1, <3>2 DEF WriterOK, Working
  <2>. QED
    BY <2>1, <2>2
<1>3. ReservationOK'
  BY NamesAssumption DEF IInv, ReservationOK, Over, WriterOK, Working, Own, Held, HelmEnds
<1>4. ASSUME NEW k \in Targets PROVE BirthOK(k)'
  BY NumbersAssumption DEF IInv, TypeOK, BirthOK, Unborn, HelmEnds, Goto
<1>5. ASSUME NEW x \in wire' PROVE WireOK(x)'
  BY DEF IInv, TypeOK, WriterOK, WireOK, Working, Over, Own, Held, HelmEnds, Goto
<1>6. ASSUME NEW k \in Handlers PROVE HandlerOK(k)'
  BY DEF IInv, TypeOK, WriterOK, HandlerOK, Marked, Dead, FinishOK, Working, Over, Own,
     Held, HelmEnds, Goto
<1>7. \A p \in Ops : JournalOK(p)'
  BY Kept DEF HelmEnds
<1>. QED
  BY <1>1, <1>2, <1>3, <1>4, <1>5, <1>6, <1>7 DEF IInv

LEMMA VerifyInv ==
    ASSUME IInv, NEW j \in Targets, Verify(j)
    PROVE  IInv'
<1>1. TypeOK'
  <2>1. (writer \in [Targets -> Process])'
    <3>0. writer \in [Targets -> Process]
      BY Typed DEF IInv
    <3>1. ASSUME writer' = [writer EXCEPT ![j].stage = "ending", ![j].safe = @ \/ Own(j)]
         PROVE  writer' \in [Targets -> Process]
      <4>1. \A k \in Targets : writer'[k] \in Process
        BY <3>0, <3>1 DEF Process
      <4>. QED
        BY <3>0, <3>1, <4>1
    <3>2. ASSUME writer' = [writer EXCEPT ![j].stage = "failing"]
         PROVE  writer' \in [Targets -> Process]
      <4>1. \A k \in Targets : writer'[k] \in Process
        BY <3>0, <3>2 DEF Process
      <4>. QED
        BY <3>0, <3>2, <4>1
    <3>. QED
      BY <3>1, <3>2 DEF Verify, Goto
  <2>. QED
    BY <2>1 DEF IInv, TypeOK, Process, Reservations, Writes, Operations, Requests, Verify
<1>2. ASSUME NEW k \in Targets PROVE WriterOK(k)'
  BY DEF IInv, TypeOK, Charts, WriterOK, Working, Own, Held, Verify, Goto
<1>3. ReservationOK'
  BY DEF IInv, ReservationOK, Settled, Over, WriterOK, Working, Own, Held, Verify
<1>4. ASSUME NEW k \in Targets PROVE BirthOK(k)'
  <2>1. /\ UNCHANGED <<reservation, journal, handler, freed, wire>> /\ BirthOK(k)
        /\ writer \in [Targets -> Process]
    BY Typed DEF IInv, Verify
  <2>2. Unborn(k)' => Unborn(k)
    BY <2>1 DEF Unborn, Verify, Goto, Process
  <2>. QED
    BY <2>1, <2>2, BirthKept
<1>5. ASSUME NEW x \in wire' PROVE WireOK(x)'
  BY DEF IInv, TypeOK, WireOK, Yields, Over, Settled, Own, Held, Verify, Goto
<1>6. ASSUME NEW k \in Handlers PROVE HandlerOK(k)'
  BY DEF IInv, TypeOK, HandlerOK, FinishOK, Marked, Dead, Held, Settled, Over, Verify, Goto
<1>7. \A p \in Ops : JournalOK(p)'
  BY Kept DEF Verify
<1>. QED
  BY <1>1, <1>2, <1>3, <1>4, <1>5, <1>6, <1>7 DEF IInv

LEMMA RollBackInv ==
    ASSUME IInv, NEW j \in Targets, RollBack(j)
    PROVE  IInv'
<1>0. /\ writer \in [Targets -> Process] /\ UNCHANGED reservation
      /\ writer[j].stage = "failing"
      /\ \E s \in {"rolling", "ending"} : writer' = [writer EXCEPT ![j].stage = s]
      /\ Own(j) /\ reservation.effects /\ ~writer[j].safe
  BY Typed DEF IInv, RollBack, Goto, WriterOK, Working
<1>1. TypeOK'
  <2>1. (writer \in [Targets -> Process])'
    <3>0. writer \in [Targets -> Process]
      BY Typed DEF IInv
    <3>1. ASSUME writer' = [writer EXCEPT ![j].stage = "rolling"]
         PROVE  writer' \in [Targets -> Process]
      <4>1. \A k \in Targets : writer'[k] \in Process
        BY <3>0, <3>1 DEF Process
      <4>. QED
        BY <3>0, <3>1, <4>1
    <3>2. ASSUME writer' = [writer EXCEPT ![j].stage = "ending"]
         PROVE  writer' \in [Targets -> Process]
      <4>1. \A k \in Targets : writer'[k] \in Process
        BY <3>0, <3>2 DEF Process
      <4>. QED
        BY <3>0, <3>2, <4>1
    <3>. QED
      BY <3>1, <3>2 DEF RollBack, Goto
  <2>2. (release \in [status: {"pending", "deployed", "failed"}, chart: Charts])'
    BY DEF IInv, TypeOK, RollBack
  <2>. QED
    BY <2>1, <2>2
       DEF IInv, TypeOK, Process, Reservations, Writes, Operations, Requests,
           RollBack
<1>2. ASSUME NEW k \in Targets PROVE WriterOK(k)'
  <2>0. WriterOK(k) /\ WriterOK(j)
    BY DEF IInv
  <2>1. CASE k # j
    <3>1. writer'[k] = writer[k] /\ ~Own(k) /\ ~Own(k)'
      BY <1>0, <2>1 DEF Own, Held
    <3>. QED
      BY <1>0, <2>0, <3>1 DEF WriterOK, Working
  <2>2. CASE k = j
    <3>1. Own(k)' /\ ~writer'[k].safe /\ writer'[k].stage \in {"rolling", "ending"}
      BY <1>0, <2>2 DEF Own, Held, Process
    <3>2. writer'[k].stage \notin {"verifying", "upgrading"}
      BY <3>1
    <3>. QED
      BY <1>0, <3>1, <3>2 DEF WriterOK, Working
  <2>. QED
    BY <2>1, <2>2
<1>3. ReservationOK'
  BY NamesAssumption DEF IInv, ReservationOK, Over, WriterOK, Working, Own, Held, RollBack
<1>4. ASSUME NEW k \in Targets PROVE BirthOK(k)'
  <2>0. writer \in [Targets -> Process] /\ UNCHANGED <<journal, handler, freed>>
    BY Typed DEF IInv, RollBack
  <2>1. BirthOK(k) /\ reservation'.uid = reservation.uid /\ wire' \subseteq wire
    BY Typed DEF IInv, RollBack
  <2>2. writer'[k].stage \in {"none", "queued"} => writer[k].stage \in {"none", "queued"}
    BY <2>0 DEF RollBack, Goto, Process
  <2>3. Unborn(k)' => Unborn(k)
    BY <2>1, <2>2 DEF Unborn
  <2>. QED
    BY <2>0, <2>1, <2>3, BirthKept
<1>5. ASSUME NEW x \in wire' PROVE WireOK(x)'
  BY DEF IInv, TypeOK, BirthOK, WireOK, Yields, Over, Settled, Own, Held, RollBack, Goto
<1>6. ASSUME NEW k \in Handlers PROVE HandlerOK(k)'
  <2>0. writer \in [Targets -> Process]
    BY Typed DEF IInv
  <2>1. handler[k].uid \in Targets /\ Over(handler[k].uid) => Over(handler[k].uid)'
    BY <2>0 DEF Over, RollBack, Goto, Process
  <2>2. Over(handler[k].uid) /\ Held(handler[k].uid, handler[k].version) /\ Settled => Settled'
    BY DEF Over, Own, Held, Settled, RollBack
  <2>. QED
    BY <2>1, <2>2, HandlersOnward DEF IInv, RollBack
<1>7. \A p \in Ops : JournalOK(p)'
  BY Kept DEF RollBack
<1>. QED
  BY <1>1, <1>2, <1>3, <1>4, <1>5, <1>6, <1>7 DEF IInv

LEMMA RollBackEndsInv ==
    ASSUME IInv, NEW j \in Targets, RollBackEnds(j)
    PROVE  IInv'
<1>1. TypeOK'
  <2>1. (writer \in [Targets -> Process])'
    BY DEF IInv, TypeOK, Process, RollBackEnds, Goto
  <2>2. (release \in [status: {"pending", "deployed", "failed"}, chart: Charts])'
    BY DEF IInv, TypeOK, RollBackEnds
  <2>3. (live \in Charts)'
    BY DEF IInv, TypeOK, RollBackEnds
  <2>. QED
    BY <2>1, <2>2, <2>3
       DEF IInv, TypeOK, Process, Reservations, Writes, Operations, Requests,
           RollBackEnds
<1>2. ASSUME NEW k \in Targets PROVE WriterOK(k)'
  BY DEF IInv, WriterOK, Working, Own, Held, RollBackEnds, Goto
<1>3. ReservationOK'
  BY NamesAssumption
     DEF IInv, ReservationOK, Over, WriterOK, Working, Own, Held, RollBackEnds
<1>4. ASSUME NEW k \in Targets PROVE BirthOK(k)'
  BY DEF IInv, BirthOK, Unborn, RollBackEnds, Goto
<1>5. ASSUME NEW x \in wire' PROVE WireOK(x)'
  BY DEF IInv, WriterOK, WireOK, Working, Over, Own, Held, RollBackEnds, Goto
<1>6. ASSUME NEW k \in Handlers PROVE HandlerOK(k)'
  BY DEF IInv, WriterOK, HandlerOK, Marked, Dead, FinishOK, Working, Over, Own, Held,
     RollBackEnds, Goto
<1>7. \A p \in Ops : JournalOK(p)'
  BY Kept DEF RollBackEnds
<1>. QED
  BY <1>1, <1>2, <1>3, <1>4, <1>5, <1>6, <1>7 DEF IInv

-----------------------------------------------------------------------------
(* The world outside Kyber, and writes that arrive late.                   *)

LEMMA KilledInv ==
    ASSUME IInv, NEW j \in Targets, Killed(j)
    PROVE  IInv'
<1>1. TypeOK'
  <2>1. (writer \in [Targets -> Process])'
    BY NamesAssumption, NumbersAssumption
       DEF IInv, TypeOK, Process, Reservations, Writes, Operations, Requests, Charts,
           WriterOK, Own, Held, Killed, Exit, NoProcess, Alive, Fault
  <2>2. (faults \in 0..MaxFaults)'
    BY NumbersAssumption DEF IInv, TypeOK, Killed, Fault
  <2>. QED
    BY <2>1, <2>2
       DEF IInv, TypeOK, Process, Reservations, Writes, Operations, Requests, Killed
<1>2. ASSUME NEW k \in Targets PROVE WriterOK(k)'
  BY DEF IInv, WriterOK, Working, Settled, Own, Held, Killed, Exit
<1>3. ReservationOK'
  BY DEF IInv, ReservationOK, Settled, Over, Killed, Exit
<1>4. ASSUME NEW k \in Targets PROVE BirthOK(k)'
  BY DEF IInv, BirthOK, Unborn, Killed, Exit
<1>5. ASSUME NEW x \in wire' PROVE WireOK(x)'
  BY DEF IInv, WireOK, Held, Over, Settled, Yields, Killed, Exit
<1>6. ASSUME NEW k \in Handlers PROVE HandlerOK(k)'
  BY DEF IInv, HandlerOK, FinishOK, Marked, Dead, Held, Settled, Over, Killed, Exit
<1>7. \A p \in Ops : JournalOK(p)'
  BY Kept DEF Killed
<1>. QED
  BY <1>1, <1>2, <1>3, <1>4, <1>5, <1>6, <1>7 DEF IInv

LEMMA NodeLostInv ==
    ASSUME IInv, NEW j \in Targets, NodeLost(j)
    PROVE  IInv'
<1>1. TypeOK'
  <2>1. (writer \in [Targets -> Process])'
    <3>0. writer \in [Targets -> Process]
      BY Typed DEF IInv
    <3>1. ASSUME writer' = [writer EXCEPT ![j].lost = TRUE]
         PROVE  writer' \in [Targets -> Process]
      <4>1. \A k \in Targets : writer'[k] \in Process
        BY <3>0, <3>1 DEF Process
      <4>. QED
        BY <3>0, <3>1, <4>1
    <3>. QED
      BY <3>1 DEF NodeLost, Goto
  <2>2. (faults \in 0..MaxFaults)'
    BY NumbersAssumption DEF IInv, TypeOK, NodeLost, Fault
  <2>. QED
    BY <2>1, <2>2
       DEF IInv, TypeOK, Process, Reservations, Writes, Operations, Requests,
           NodeLost
<1>2. ASSUME NEW k \in Targets PROVE WriterOK(k)'
  BY DEF IInv, WriterOK, Settled, Own, Held, NodeLost
<1>3. ReservationOK'
  BY DEF IInv, ReservationOK, Settled, Over, NodeLost
<1>4. ASSUME NEW k \in Targets PROVE BirthOK(k)'
  BY DEF IInv, BirthOK, Unborn, NodeLost
<1>5. ASSUME NEW x \in wire' PROVE WireOK(x)'
  BY DEF IInv, WireOK, Held, Over, Settled, Yields, NodeLost
<1>6. ASSUME NEW k \in Handlers PROVE HandlerOK(k)'
  BY DEF IInv, HandlerOK, FinishOK, Marked, Dead, Held, Settled, Over, NodeLost
<1>7. \A p \in Ops : JournalOK(p)'
  BY Kept DEF NodeLost
<1>. QED
  BY <1>1, <1>2, <1>3, <1>4, <1>5, <1>6, <1>7 DEF IInv

LEMMA HelmByHandInv ==
    ASSUME IInv, HelmByHand
    PROVE  IInv'
<1>1. TypeOK'
  <2>1. (release \in [status: {"pending", "deployed", "failed"}, chart: Charts])'
    BY DEF IInv, TypeOK, HelmByHand
  <2>2. (live \in Charts)'
    BY DEF IInv, TypeOK, HelmByHand
  <2>. QED
    BY <2>1, <2>2
       DEF IInv, TypeOK, Process, Reservations, Writes, Operations, Requests,
           HelmByHand
<1>2. ASSUME NEW k \in Targets PROVE WriterOK(k)'
  BY DEF IInv, WriterOK, Own, Held, HelmByHand, Changing
<1>3. ReservationOK'
  BY DEF IInv, ReservationOK, HelmByHand
<1>4. ASSUME NEW x \in wire' PROVE WireOK(x)'
  BY DEF IInv, WireOK, Held, Over, HelmByHand
<1>5. ASSUME NEW k \in Handlers PROVE HandlerOK(k)'
  BY DEF IInv, HandlerOK, FinishOK, Marked, Dead, Settled, Over, HelmByHand
<1>6. /\ \A k \in Targets : BirthOK(k)'
      /\ \A p \in Ops : JournalOK(p)'
  BY Kept DEF HelmByHand
<1>. QED
  BY <1>1, <1>2, <1>3, <1>4, <1>5, <1>6 DEF IInv

LEMMA ArrivesCreateInv ==
    ASSUME IInv, NEW w \in wire, ArrivesCreate(w)
    PROVE  IInv'
<1>1. TypeOK'
  <2>1. (reservation \in Reservations)'
    BY DEF IInv, TypeOK, Reservations, ArrivesCreate, Created
  <2>2. (wire \subseteq Writes)'
    BY DEF IInv, TypeOK, Writes, ArrivesCreate
  <2>. QED
    BY <2>1, <2>2
       DEF IInv, TypeOK, Process, Reservations, Writes, Operations, Requests,
           ArrivesCreate
<1>2. ASSUME NEW k \in Targets PROVE WriterOK(k)'
  BY NamesAssumption
     DEF IInv, WriterOK, WireOK, Over, Settled, Own, Held, ArrivesCreate, Created
<1>3. ReservationOK'
  BY DEF IInv, ReservationOK, Settled, Over, ArrivesCreate, Created
<1>4. ASSUME NEW k \in Targets PROVE BirthOK(k)'
  BY DEF IInv, TypeOK, BirthOK, Unborn, WireOK, WriterOK, Over, ArrivesCreate, Created
<1>5. ASSUME NEW x \in wire' PROVE WireOK(x)'
  BY NamesAssumption DEF IInv, TypeOK, WireOK, Held, Over, Settled, Yields, ArrivesCreate
<1>6. ASSUME NEW p \in Ops PROVE JournalOK(p)'
  BY DEF IInv, ReservationOK, BirthOK, Unborn, JournalOK, Marked, Dead, ArrivesCreate,
     Created
<1>7. ASSUME NEW k \in Handlers PROVE HandlerOK(k)'
  BY DEF IInv, ReservationOK, BirthOK, HandlerOK, JournalOK, Marked, Dead, FinishOK, Over,
     Settled, Held, ArrivesCreate
<1>. QED
  BY <1>1, <1>2, <1>3, <1>4, <1>5, <1>6, <1>7 DEF IInv

LEMMA ArrivesUpdateInv ==
    ASSUME IInv, NEW w \in wire, ArrivesUpdate(w)
    PROVE  IInv'
<1>0. /\ WireOK(w) /\ w.uid \in Targets /\ Settled
      /\ reservation \in Reservations /\ reservation.version \in Nat /\ reservation.uid = w.uid
      /\ writer[w.uid].stage \in {"ending", "over"}
      /\ wire' \subseteq wire /\ UNCHANGED <<writer, release, live, journal, handler, freed>>
  BY Typed DEF IInv, ArrivesUpdate, WireOK, Held, Over, Writes, Reservations, Store
<1>a. /\ reservation'.uid = reservation.uid
      /\ reservation'.version = reservation.version + 1
      /\ reservation'.marker = reservation.marker \/ (w.kind = "marker" /\ reservation'.marker = w.by)
  BY <1>0 DEF ArrivesUpdate, Store, WithEffects, WithMarker, Reservations
<1>b. Settled'
  BY <1>0 DEF Settled
<1>1. TypeOK'
  <2>1. (reservation \in Reservations)'
    <3>1. CASE w.kind = "effects"
      BY <3>1, Secrets DEF IInv, ArrivesUpdate, Store
    <3>2. CASE w.kind = "marker"
      BY <3>2, Secrets DEF IInv, ArrivesUpdate, Store, WireOK
    <3>. QED
      BY <3>1, <3>2 DEF ArrivesUpdate
  <2>2. (wire \subseteq Writes)'
    BY DEF IInv, TypeOK, Writes, ArrivesUpdate, Store
  <2>. QED
    BY <2>1, <2>2
       DEF IInv, TypeOK, Process, Reservations, Writes, Operations, Requests,
           ArrivesUpdate
<1>2. ASSUME NEW k \in Targets PROVE WriterOK(k)'
  <2>1. WriterOK(k) /\ (k # w.uid => ~Own(k) /\ ~Own(k)')
    BY <1>0, <1>a DEF IInv, Own, Held
  <2>. QED
    BY <1>0, <1>b, <2>1 DEF WriterOK, Working
<1>3. ReservationOK'
  <2>1. reservation'.marker # None => Over(reservation.uid)
    BY <1>0, <1>a DEF IInv, ReservationOK, WireOK
  <2>2. reservation'.uid # None
    BY <1>0, <1>a, NamesAssumption
  <2>. QED
    BY <1>0, <1>a, <1>b, <2>1, <2>2 DEF ReservationOK, Over
<1>4. ASSUME NEW k \in Targets PROVE BirthOK(k)'
  <2>1. BirthOK(k) /\ (Unborn(k)' => Unborn(k))
    BY <1>0 DEF IInv, Unborn
  <2>. QED
    BY <1>0, <1>a, <2>1, BirthKept
<1>5. ASSUME NEW x \in wire' PROVE WireOK(x)'
  BY DEF IInv, TypeOK, WireOK, Held, Over, ArrivesUpdate, Store, WithEffects, WithMarker
<1>6. ASSUME NEW p \in Ops PROVE JournalOK(p)'
  <2>1. JournalOK(p) /\ journal[p].effect \in Nat
    BY Typed DEF IInv, Operations
  <2>2. journal[p].state = "pending" /\ reservation.marker = p => reservation'.marker = p
    BY <1>0, <1>a, NamesAssumption DEF WireOK, Yields
  <2>. QED
    BY <1>0, <1>a, <2>1, <2>2 DEF JournalOK, Marked, Dead
<1>7. ASSUME NEW k \in Handlers PROVE HandlerOK(k)'
  <2>1. HandlerOK(k) /\ handler[k].version \in Nat /\ handler[k].effect \in Nat
    BY Typed DEF IInv, Requests
  <2>2. handler[k].op \in Ops /\ journal[handler[k].op].state = "pending"
        /\ reservation.marker = handler[k].op => reservation'.marker = handler[k].op
    BY <1>0, <1>a, NamesAssumption DEF WireOK, Yields
  <2>3. handler[k].stage = "recording" /\ journal[handler[k].op].state = "pending"
        /\ Marked(handler[k].op, handler[k].version) => Marked(handler[k].op, handler[k].version)'
    BY <1>0, <1>a, <2>1, <2>2 DEF Marked, HandlerOK
  <2>4. handler[k].stage = "finishing" /\ journal[handler[k].op].effect = handler[k].effect /\ handler[k].effect # 0
        /\ Dead(handler[k].op) => Dead(handler[k].op)'
    BY <1>0, <1>a, <2>1 DEF Dead, FinishOK
  <2>. QED
    BY <1>0, <1>a, <1>b, <2>1, <2>3, <2>4 DEF HandlerOK, FinishOK, Over
<1>. QED
  BY <1>1, <1>2, <1>3, <1>4, <1>5, <1>6, <1>7 DEF IInv

LEMMA ArrivesDeleteInv ==
    ASSUME IInv, NEW w \in wire, ArrivesDelete(w)
    PROVE  IInv'
<1>1. TypeOK'
  <2>1. (reservation \in Reservations)'
    BY DEF Reservations, ArrivesDelete, Store, NoReservation
  <2>2. (wire \subseteq Writes)'
    BY DEF IInv, TypeOK, Writes, ArrivesDelete, Store
  <2>3. (freed \in [Targets -> Targets \cup Ops \cup {None}])'
    BY DEF IInv, TypeOK, ArrivesDelete
  <2>. QED
    BY <2>1, <2>2, <2>3
       DEF IInv, TypeOK, Process, Reservations, Writes, Operations, Requests,
           ArrivesDelete
<1>2. ASSUME NEW k \in Targets PROVE WriterOK(k)'
  BY DEF IInv, WriterOK, WireOK, Working, Over, Settled, Own, Held, ArrivesDelete
<1>3. ReservationOK'
  BY DEF IInv, ReservationOK, WireOK, Settled, ArrivesDelete, Store, NoReservation
<1>4. ASSUME NEW k \in Targets PROVE BirthOK(k)'
  BY NamesAssumption
     DEF IInv, BirthOK, Unborn, WireOK, Held, ArrivesDelete, Store, NoReservation
<1>5. ASSUME NEW x \in wire' PROVE WireOK(x)'
  BY DEF IInv, WireOK, Held, Over, Settled, Yields, ArrivesDelete, Store, NoReservation
<1>6. ASSUME NEW p \in Ops PROVE JournalOK(p)'
  BY NamesAssumption
     DEF IInv, TypeOK, BirthOK, WireOK, JournalOK, Marked, Dead, Held, ArrivesDelete,
         Store, NoReservation
<1>7. ASSUME NEW k \in Handlers PROVE HandlerOK(k)'
  BY NamesAssumption
     DEF IInv, TypeOK, BirthOK, WireOK, HandlerOK, JournalOK, Marked, Dead, FinishOK,
         Over, Held, ArrivesDelete, Store, NoReservation
<1>. QED
  BY <1>1, <1>2, <1>3, <1>4, <1>5, <1>6, <1>7 DEF IInv

-----------------------------------------------------------------------------
(* Recoveries, from their eligibility to the intent to delete.             *)

LEMMA RecoverChecksInv ==
    ASSUME IInv, NEW h \in Handlers, NEW o \in Ops, RecoverChecks(h, o)
    PROVE  IInv'
<1>0. /\ handler \in [Handlers -> Requests] /\ reservation \in Reservations
      /\ HandlerOK(h) /\ handler[h].stage = "idle" /\ reservation.uid \in Targets
      /\ handler' = [handler EXCEPT ![h].stage = "admitting", ![h].op = o,
                        ![h].uid = reservation.uid, ![h].version = reservation.version]
      /\ UNCHANGED <<writer, reservation, release, live, journal, freed>>
  BY Typed DEF IInv, RecoverChecks, Free, Eligible, Reservations
<1>1. TypeOK'
  <2>1. (handler \in [Handlers -> Requests])'
    <3>0. handler \in [Handlers -> Requests] /\ Idle \in Requests /\ reservation.uid \in Targets /\ reservation.version \in Nat
      BY Typed DEF IInv, Requests, Idle, Reservations, RecoverChecks, Eligible
    <3>1. ASSUME handler' = [handler EXCEPT ![h].stage = "admitting", ![h].op = o,
                         ![h].uid = reservation.uid, ![h].version = reservation.version]
         PROVE  handler' \in [Handlers -> Requests]
      <4>1. \A k \in Handlers : handler'[k] \in Requests
        BY <3>0, <3>1 DEF Requests
      <4>. QED
        BY <3>0, <3>1, <4>1
    <3>. QED
      BY <3>1 DEF RecoverChecks, Responds
  <2>. QED
    BY <2>1
       DEF IInv, TypeOK, Process, Reservations, Writes, Operations, Requests,
           RecoverChecks
<1>2. ASSUME NEW k \in Targets PROVE BirthOK(k)'
  BY DEF IInv, TypeOK, BirthOK, Unborn, RecoverChecks
<1>3. ASSUME NEW k \in Handlers PROVE HandlerOK(k)'
  <2>0. HandlerOK(k)
    BY DEF IInv
  <2>1. CASE k # h
    <3>1. handler'[k] = handler[k]
      BY <1>0, <2>1
    <3>. QED
      BY <1>0, <2>0, <3>1, HandlersKept
  <2>2. CASE k = h
    <3>1. /\ handler'[k].stage = "admitting" /\ handler'[k].op = o /\ handler'[k].uid \in Targets
          /\ handler'[k].effect = handler[k].effect /\ handler'[k].replacing = handler[k].replacing
      BY <1>0, <2>2 DEF Requests
    <3>2. handler[k].effect = 0 /\ handler[k].replacing = None
      BY <1>0, <2>2 DEF HandlerOK, Idle
    <3>. QED
      BY <3>1, <3>2 DEF HandlerOK
  <2>. QED
    BY <2>1, <2>2
<1>4. /\ \A k \in Targets : WriterOK(k)'
      /\ ReservationOK'
      /\ \A x \in wire' : WireOK(x)'
      /\ \A p \in Ops : JournalOK(p)'
  BY Kept DEF RecoverChecks
<1>. QED
  BY <1>1, <1>2, <1>3, <1>4 DEF IInv

LEMMA ResolveInv ==
    ASSUME IInv, NEW h \in Handlers, NEW o \in Ops, Resolve(h, o)
    PROVE  IInv'
<1>0. /\ handler \in [Handlers -> Requests] /\ HandlerOK(h) /\ JournalOK(o)
      /\ handler[h].stage = "idle" /\ journal[o].state = "pending" /\ journal[o].uid \in Targets
      /\ handler' = [handler EXCEPT ![h].stage = "inspecting", ![h].op = o,
                        ![h].uid = journal[o].uid, ![h].effect = journal[o].effect]
      /\ UNCHANGED <<writer, reservation, release, live, journal, freed>>
  BY Typed DEF IInv, Resolve, Free, JournalOK
<1>1. TypeOK'
  <2>1. (handler \in [Handlers -> Requests])'
    <3>0. handler \in [Handlers -> Requests] /\ Idle \in Requests /\ journal[o].uid \in Targets /\ journal[o].effect \in Nat
      BY Typed DEF IInv, Requests, Idle, Operations, Resolve, JournalOK
    <3>1. ASSUME handler' = [handler EXCEPT ![h].stage = "inspecting", ![h].op = o,
                         ![h].uid = journal[o].uid, ![h].effect = journal[o].effect]
         PROVE  handler' \in [Handlers -> Requests]
      <4>1. \A k \in Handlers : handler'[k] \in Requests
        BY <3>0, <3>1 DEF Requests
      <4>. QED
        BY <3>0, <3>1, <4>1
    <3>. QED
      BY <3>1 DEF Resolve, Responds
  <2>. QED
    BY <2>1 DEF IInv, TypeOK, Process, Reservations, Writes, Operations, Requests, Resolve
<1>2. ASSUME NEW k \in Targets PROVE BirthOK(k)'
  BY DEF IInv, TypeOK, BirthOK, Unborn, Resolve
<1>3. ASSUME NEW k \in Handlers PROVE HandlerOK(k)'
  <2>0. HandlerOK(k)
    BY DEF IInv
  <2>1. CASE k # h
    <3>1. handler'[k] = handler[k]
      BY <1>0, <2>1
    <3>. QED
      BY <1>0, <2>0, <3>1, HandlersKept
  <2>2. CASE k = h
    <3>1. /\ handler'[k].stage = "inspecting" /\ handler'[k].op = o
          /\ handler'[k].uid = journal[o].uid /\ handler'[k].effect = journal[o].effect
          /\ handler'[k].replacing = handler[k].replacing
      BY <1>0, <2>2 DEF Requests
    <3>2. handler[k].replacing = None
      BY <1>0, <2>2 DEF HandlerOK, Idle
    <3>. QED
      BY <1>0, <3>1, <3>2 DEF HandlerOK
  <2>. QED
    BY <2>1, <2>2
<1>4. /\ \A k \in Targets : WriterOK(k)'
      /\ ReservationOK'
      /\ \A x \in wire' : WireOK(x)'
      /\ \A p \in Ops : JournalOK(p)'
  BY Kept DEF Resolve
<1>. QED
  BY <1>1, <1>2, <1>3, <1>4 DEF IInv

LEMMA AdmitInv ==
    ASSUME IInv, NEW h \in Handlers, Admit(h)
    PROVE  IInv'
<1>0. /\ handler \in [Handlers -> Requests] /\ journal \in [Ops -> Operations]
      /\ \A x \in Handlers : HandlerOK(x)
      /\ handler[h].stage = "admitting" /\ handler[h].op \in Ops /\ handler[h].uid \in Targets
      /\ UNCHANGED <<writer, reservation, wire, release, live, freed>>
  BY Typed DEF IInv, Admit, HandlerOK
<1>a. ASSUME journal[handler[h].op].state = "none"
      PROVE  /\ \A y \in Handlers : y # h => handler'[y] = handler[y]
             /\ handler'[h].stage = "inspecting" /\ handler'[h].op = handler[h].op
             /\ handler'[h].uid = handler[h].uid /\ handler'[h].effect = 0
             /\ handler'[h].replacing = handler[h].replacing
             /\ \A o \in Ops : o # handler[h].op => journal'[o] = journal[o]
             /\ journal'[handler[h].op].state = "pending"
             /\ journal'[handler[h].op].uid = handler[h].uid
             /\ journal'[handler[h].op].effect = 0
  <2>1. handler[h].effect = 0
    BY <1>0 DEF HandlerOK
  <2>2. handler' = [handler EXCEPT ![h].stage = "inspecting", ![h].version = 0]
    BY <1>a DEF Admit
  <2>3. journal' = [journal EXCEPT ![handler[h].op] =
                       [state |-> "pending", uid |-> handler[h].uid,
                        expected |-> handler[h].version, effect |-> 0]]
    BY <1>a DEF Admit
  <2>. QED
    BY <1>0, <2>1, <2>2, <2>3 DEF Requests
<1>b. ASSUME journal[handler[h].op].state # "none"
      PROVE  UNCHANGED journal /\ \A y \in Handlers : handler'[y] = IF y = h THEN Idle ELSE handler[y]
  <2>1. handler' = [handler EXCEPT ![h] = Idle]
    BY <1>b DEF Admit, Responds
  <2>. QED
    BY <1>0, <1>b, <2>1 DEF Admit
<1>1. TypeOK'
  <2>1. (journal \in [Ops -> Operations])'
    BY NumbersAssumption, SMTT(30) DEF IInv, TypeOK, Operations, Admit, Responds
  <2>2. (handler \in [Handlers -> Requests])'
    <3>0. handler \in [Handlers -> Requests] /\ Idle \in Requests
      BY Typed DEF IInv, Requests, Idle
    <3>1. ASSUME handler' = [handler EXCEPT ![h].stage = "inspecting", ![h].version = 0]
         PROVE  handler' \in [Handlers -> Requests]
      <4>1. \A k \in Handlers : handler'[k] \in Requests
        BY <3>0, <3>1 DEF Requests
      <4>. QED
        BY <3>0, <3>1, <4>1
    <3>2. ASSUME handler' = [handler EXCEPT ![h] = Idle]
         PROVE  handler' \in [Handlers -> Requests]
      <4>1. \A k \in Handlers : handler'[k] \in Requests
        BY <3>0, <3>2 DEF Requests
      <4>. QED
        BY <3>0, <3>2, <4>1
    <3>. QED
      BY <3>1, <3>2 DEF Admit, Responds
  <2>. QED
    BY <2>1, <2>2
       DEF IInv, TypeOK, Process, Reservations, Writes, Operations, Requests, Admit
<1>2. ASSUME NEW k \in Targets PROVE BirthOK(k)'
  <2>1. BirthOK(k) /\ (Unborn(k)' => Unborn(k))
    BY <1>0 DEF IInv, Unborn
  <2>2. CASE journal[handler[h].op].state = "none"
    BY <1>0, <1>a, <2>1, <2>2, BirthKept
  <2>3. CASE journal[handler[h].op].state # "none"
    <3>1. UNCHANGED journal /\ \A y \in Handlers : handler'[y].uid \in {None, handler[y].uid}
      BY <1>b, <2>3 DEF Idle
    <3>. QED
      BY <1>0, <2>1, <3>1, BirthKept
  <2>. QED
    BY <2>2, <2>3
<1>3. ASSUME NEW x \in wire' PROVE WireOK(x)'
  <2>1. WireOK(x) /\ x \in Writes
    BY <1>0, Typed DEF IInv
  <2>2. \A o \in Ops : journal[o].state # "none" => journal'[o] = journal[o]
    BY <1>a, <1>b
  <2>3. x.kind = "marker" => Yields(x.by)'
    BY <1>0, <2>1, <2>2, Typed DEF IInv, WireOK, Yields, Reservations
  <2>4. x.kind = "delete" /\ x.by \in Ops => journal'[x.by] = journal[x.by]
    BY <2>1, <2>2 DEF IInv, WireOK, JournalOK
  <2>. QED
    BY <1>0, <2>1, <2>3, <2>4 DEF WireOK, Held, Over, Settled
<1>4. ASSUME NEW p \in Ops PROVE JournalOK(p)'
  <2>0. JournalOK(p)
    BY DEF IInv
  <2>1. CASE journal[handler[h].op].state = "none" /\ p = handler[h].op
    <3>1. journal'[p].state = "pending" /\ journal'[p].uid \in Targets /\ journal'[p].effect = 0
      BY <1>0, <1>a, <2>1
    <3>2. \A j \in Targets : freed[j] # p
      BY <2>0, <2>1 DEF JournalOK
    <3>. QED
      BY <1>0, <3>1, <3>2 DEF JournalOK
  <2>2. CASE journal[handler[h].op].state # "none" \/ p # handler[h].op
    <3>1. journal'[p] = journal[p]
      BY <1>a, <1>b, <2>2
    <3>. QED
      BY <1>0, <2>0, <3>1 DEF JournalOK, Marked, Dead
  <2>. QED
    BY <2>1, <2>2
<1>5. ASSUME NEW k \in Handlers PROVE HandlerOK(k)'
  <2>1. CASE journal[handler[h].op].state # "none"
    <3>1. UNCHANGED journal /\ handler'[k] = IF k = h THEN Idle ELSE handler[k]
      BY <1>b, <2>1
    <3>. QED
      BY <1>0, <3>1, IdleOK, HandlersKept
  <2>2. CASE journal[handler[h].op].state = "none"
    <3>1. \A o \in Ops : journal[o].state # "none" => journal'[o] = journal[o]
      BY <1>a, <2>2
    <3>2. handler[k].replacing # None => journal'[handler[k].replacing].state = "failure"
      BY <1>0, <3>1, NamesAssumption DEF HandlerOK, Requests
    <3>3. CASE k = h
      BY <1>0, <1>a, <2>2, <3>2, <3>3 DEF HandlerOK
    <3>4. CASE k # h /\ handler[k].stage \in {"idle", "admitting"}
      BY <1>0, <1>a, <2>2, <3>2, <3>4 DEF HandlerOK, Idle
    <3>5. CASE k # h /\ handler[k].stage \notin {"idle", "admitting"}
      <4>1. /\ handler'[k] = handler[k] /\ handler[k].op \in Ops
            /\ journal'[handler[k].op] = journal[handler[k].op]
        BY <1>0, <1>a, <2>2, <3>1, <3>5 DEF HandlerOK
      <4>. QED
        BY <1>0, <3>2, <4>1 DEF HandlerOK, FinishOK, Marked, Dead, Held, Settled, Over
    <3>. QED
      BY <3>3, <3>4, <3>5
  <2>. QED
    BY <2>1, <2>2
<1>6. /\ \A k \in Targets : WriterOK(k)'
      /\ ReservationOK'
  BY Kept DEF Admit
<1>. QED
  BY <1>1, <1>2, <1>3, <1>4, <1>5, <1>6 DEF IInv

LEMMA InspectInv ==
    ASSUME IInv, NEW h \in Handlers, Inspect(h)
    PROVE  IInv'
<1>0. /\ handler \in [Handlers -> Requests] /\ journal \in [Ops -> Operations]
      /\ \A y \in Handlers : HandlerOK(y)
      /\ handler[h].stage = "inspecting" /\ handler[h].op \in Ops /\ JournalOK(handler[h].op)
      /\ UNCHANGED <<writer, reservation, wire, release, live, journal, freed>>
  BY Typed DEF IInv, Inspect, HandlerOK
<1>a. \/ \E s \in {"success", "failure"} :
            /\ handler' = [handler EXCEPT ![h] = [Idle EXCEPT !.stage = "finishing",
                              !.op = handler[h].op, !.effect = handler[h].effect, !.outcome = s]]
            /\ s = "success" => reservation.uid # handler[h].uid /\ handler[h].effect # 0
            /\ s = "failure" => \/ handler[h].effect = 0
                                \/ /\ reservation.uid = handler[h].uid
                                   /\ handler[h].effect # reservation.version
      \/ handler' = [handler EXCEPT ![h].stage = "checking", ![h].version = reservation.version]
  BY DEF Inspect, Concludes
<1>1. TypeOK'
  <2>1. (handler \in [Handlers -> Requests])'
    <3>0. handler \in [Handlers -> Requests] /\ Idle \in Requests /\ reservation.version \in Nat
      BY Typed DEF IInv, Requests, Idle, Reservations
    <3>1. ASSUME handler' = [handler EXCEPT ![h] = [Idle EXCEPT !.stage = "finishing", !.op = handler[h].op,
                                                  !.effect = handler[h].effect, !.outcome = "success"]]
         PROVE  handler' \in [Handlers -> Requests]
      <4>1. \A k \in Handlers : handler'[k] \in Requests
        BY <3>0, <3>1 DEF Requests
      <4>. QED
        BY <3>0, <3>1, <4>1
    <3>2. ASSUME handler' = [handler EXCEPT ![h] = [Idle EXCEPT !.stage = "finishing", !.op = handler[h].op,
                                                  !.effect = handler[h].effect, !.outcome = "failure"]]
         PROVE  handler' \in [Handlers -> Requests]
      <4>1. \A k \in Handlers : handler'[k] \in Requests
        BY <3>0, <3>2 DEF Requests
      <4>. QED
        BY <3>0, <3>2, <4>1
    <3>3. ASSUME handler' = [handler EXCEPT ![h].stage = "checking", ![h].version = reservation.version]
         PROVE  handler' \in [Handlers -> Requests]
      <4>1. \A k \in Handlers : handler'[k] \in Requests
        BY <3>0, <3>3 DEF Requests
      <4>. QED
        BY <3>0, <3>3, <4>1
    <3>. QED
      BY <3>1, <3>2, <3>3 DEF Inspect, Concludes
  <2>. QED
    BY <2>1 DEF IInv, TypeOK, Process, Reservations, Writes, Operations, Requests, Inspect
<1>2. ASSUME NEW k \in Targets PROVE BirthOK(k)'
  <2>1. BirthOK(k) /\ (Unborn(k)' => Unborn(k))
    BY <1>0 DEF IInv, Unborn
  <2>2. ASSUME NEW y \in Handlers PROVE handler'[y].uid \in {None, handler[y].uid}
    <3>1. CASE y # h
      BY <1>0, <1>a, <3>1
    <3>2. CASE y = h
      <4>1. ASSUME NEW s,
                   handler' = [handler EXCEPT ![h] = [Idle EXCEPT !.stage = "finishing",
                                  !.op = handler[h].op, !.effect = handler[h].effect, !.outcome = s]]
            PROVE  handler'[h].uid = None
        BY <1>0, <4>1 DEF Idle
      <4>2. ASSUME handler' = [handler EXCEPT ![h].stage = "checking", ![h].version = reservation.version]
            PROVE  handler'[h].uid = handler[h].uid
        BY <1>0, <4>2 DEF Requests
      <4>. QED
        BY <1>a, <3>2, <4>1, <4>2
    <3>. QED
      BY <3>1, <3>2
  <2>. QED
    BY <1>0, <2>1, <2>2, BirthKept
<1>3. ASSUME NEW k \in Handlers PROVE HandlerOK(k)'
  <2>1. CASE k # h
    <3>1. handler'[k] = handler[k]
      BY <1>0, <1>a, <2>1
    <3>. QED
      BY <1>0, <3>1, HandlersKept
  <2>2. CASE k = h /\ handler'[h].stage = "checking"
    <3>1. /\ handler'[h].stage = "checking" /\ handler'[h].op = handler[h].op
          /\ handler'[h].uid = handler[h].uid /\ handler'[h].effect = handler[h].effect
          /\ handler'[h].replacing = handler[h].replacing
      BY <1>0, <1>a, <2>2, ZenonT(40) DEF Requests, Idle
    <3>. QED
      BY <1>0, <2>2, <3>1 DEF HandlerOK
  <2>3. CASE k = h /\ handler'[h].stage # "checking"
    <3>1. PICK s \in {"success", "failure"} :
            /\ handler' = [handler EXCEPT ![h] = [Idle EXCEPT !.stage = "finishing",
                              !.op = handler[h].op, !.effect = handler[h].effect, !.outcome = s]]
            /\ s = "success" => reservation.uid # handler[h].uid /\ handler[h].effect # 0
            /\ s = "failure" => \/ handler[h].effect = 0
                                \/ /\ reservation.uid = handler[h].uid
                                   /\ handler[h].effect # reservation.version
      BY <1>0, <1>a, <2>3 DEF Requests
    <3>2. /\ handler'[h].stage = "finishing" /\ handler'[h].op = handler[h].op
          /\ handler'[h].effect = handler[h].effect /\ handler'[h].outcome = s
          /\ handler'[h].replacing = None
      BY <1>0, <3>1 DEF Idle
    <3>3. ASSUME journal[handler[h].op].state = "pending",
                 journal[handler[h].op].effect = handler[h].effect
          PROVE  /\ s = "success" => freed[journal[handler[h].op].uid] = handler[h].op
                 /\ s = "failure" /\ handler[h].effect # 0 => Dead(handler[h].op)
      <4>1. handler[h].uid = journal[handler[h].op].uid /\ handler[h].uid \in Targets
        BY <1>0 DEF HandlerOK
      <4>2. handler[h].effect # 0 => \/ freed[handler[h].uid] = handler[h].op
                                     \/ Marked(handler[h].op, handler[h].effect)
        BY <1>0, <3>3, <4>1 DEF JournalOK
      <4>3. s = "success" => freed[handler[h].uid] = handler[h].op
        BY <3>1, <4>1, <4>2 DEF Marked
      <4>4. ASSUME s = "failure", handler[h].effect # 0
            PROVE  Dead(handler[h].op)
        <5>1. reservation.uid = handler[h].uid /\ handler[h].effect # reservation.version
          BY <3>1, <4>4
        <5>2. freed[handler[h].uid] = None
          BY <4>1, <5>1 DEF IInv, BirthOK
        <5>3. Marked(handler[h].op, handler[h].effect)
          BY <1>0, <4>2, <4>4, <5>2, NamesAssumption
        <5>4. handler[h].effect \in Nat /\ reservation.version \in Nat
          BY <1>0, Typed DEF IInv, Requests, Reservations
        <5>. QED
          BY <1>0, <4>1, <5>1, <5>2, <5>3, <5>4, <3>3, NamesAssumption DEF Dead, Marked
      <4>. QED
        BY <4>1, <4>3, <4>4
    <3>. QED
      BY <1>0, <2>3, <3>1, <3>2, <3>3 DEF HandlerOK, FinishOK, Dead
  <2>. QED
    BY <2>1, <2>2, <2>3
<1>4. /\ \A k \in Targets : WriterOK(k)'
      /\ ReservationOK'
      /\ \A x \in wire' : WireOK(x)'
      /\ \A p \in Ops : JournalOK(p)'
  BY Kept DEF Inspect
<1>. QED
  BY <1>1, <1>2, <1>3, <1>4 DEF IInv

LEMMA ChecksInv ==
    ASSUME IInv, NEW h \in Handlers, Checks(h)
    PROVE  IInv'
<1>0. /\ handler \in [Handlers -> Requests] /\ \A y \in Handlers : HandlerOK(y)
      /\ handler[h].stage = "checking" /\ handler[h].op \in Ops /\ handler[h].uid \in Targets
      /\ UNCHANGED <<writer, reservation, wire, release, live, journal, freed>>
  BY Typed DEF IInv, Checks, HandlerOK
<1>a. \/ handler' = [handler EXCEPT ![h] = Idle]
      \/ /\ handler' = [handler EXCEPT ![h].stage = "preparing", ![h].replacing = Replacing(handler[h].op)]
         /\ Eligible(handler[h].op) /\ handler[h].uid = reservation.uid
      \/ /\ handler' = [handler EXCEPT ![h].stage = "deleting"]
         /\ handler[h].effect # 0
  BY DEF Checks, Responds, Step, Held
<1>1. TypeOK'
  <2>1. (handler \in [Handlers -> Requests])'
    <3>0. handler \in [Handlers -> Requests] /\ Idle \in Requests
      BY Typed DEF IInv, Requests, Idle
    <3>1. ASSUME NEW r \in Ops \cup {None}, handler' = [handler EXCEPT ![h].stage = "preparing", ![h].replacing = r]
         PROVE  handler' \in [Handlers -> Requests]
      <4>1. \A k \in Handlers : handler'[k] \in Requests
        BY <3>0, <3>1 DEF Requests
      <4>. QED
        BY <3>0, <3>1, <4>1
    <3>2. ASSUME handler' = [handler EXCEPT ![h].stage = "deleting"]
         PROVE  handler' \in [Handlers -> Requests]
      <4>1. \A k \in Handlers : handler'[k] \in Requests
        BY <3>0, <3>2 DEF Requests
      <4>. QED
        BY <3>0, <3>2, <4>1
    <3>3. Replacing(handler[h].op) \in Ops \cup {None}
      BY DEF Replacing
    <3>. QED
      BY <3>0, <3>1, <3>2, <3>3 DEF Checks, Responds, Step
  <2>. QED
    BY <2>1 DEF IInv, TypeOK, Process, Reservations, Writes, Operations, Requests, Checks
<1>2. ASSUME NEW k \in Targets PROVE BirthOK(k)'
  <2>1. BirthOK(k) /\ (Unborn(k)' => Unborn(k))
    BY <1>0 DEF IInv, Unborn
  <2>2. \A y \in Handlers : handler'[y].uid \in {None, handler[y].uid}
    BY <1>0, <1>a DEF Requests, Idle
  <2>. QED
    BY <1>0, <2>1, <2>2, BirthKept
<1>3. ASSUME NEW k \in Handlers PROVE HandlerOK(k)'
  <2>1. CASE k # h
    <3>1. handler'[k] = handler[k]
      BY <1>0, <1>a, <2>1
    <3>. QED
      BY <1>0, <3>1, HandlersKept
  <2>2. CASE k = h /\ handler' = [handler EXCEPT ![h] = Idle]
    BY <1>0, <2>2, IdleOK
  <2>3. CASE k = h /\ handler' = [handler EXCEPT ![h].stage = "deleting"] /\ handler[h].effect # 0
    <3>1. /\ handler'[h].stage = "deleting" /\ handler'[h].op = handler[h].op
          /\ handler'[h].uid = handler[h].uid /\ handler'[h].effect = handler[h].effect
          /\ handler'[h].replacing = handler[h].replacing
      BY <1>0, <2>3 DEF Requests
    <3>. QED
      BY <1>0, <2>3, <3>1 DEF HandlerOK
  <2>4. CASE /\ k = h /\ Eligible(handler[h].op) /\ handler[h].uid = reservation.uid
             /\ handler' = [handler EXCEPT ![h].stage = "preparing", ![h].replacing = Replacing(handler[h].op)]
    <3>1. /\ handler'[h].stage = "preparing" /\ handler'[h].op = handler[h].op
          /\ handler'[h].uid = handler[h].uid /\ handler'[h].effect = handler[h].effect
          /\ handler'[h].replacing = Replacing(handler[h].op)
      BY <1>0, <2>4 DEF Requests
    <3>2. Over(handler[h].uid)
      BY <1>0, <2>4, Typed DEF IInv, Eligible, Stopped, Alive, BirthOK, Unborn, Over
    <3>3. Settled
      BY <2>4 DEF Eligible, Verified, IInv, ReservationOK
    <3>4. Replacing(handler[h].op) # None => journal[Replacing(handler[h].op)].state = "failure"
      BY <2>4 DEF Eligible, Replacing, Displaceable
    <3>. QED
      BY <1>0, <2>4, <3>1, <3>2, <3>3, <3>4 DEF HandlerOK, Over, Settled, Held
  <2>. QED
    BY <1>a, <2>1, <2>2, <2>3, <2>4
<1>4. /\ \A k \in Targets : WriterOK(k)'
      /\ ReservationOK'
      /\ \A x \in wire' : WireOK(x)'
      /\ \A p \in Ops : JournalOK(p)'
  BY Kept DEF Checks
<1>. QED
  BY <1>1, <1>2, <1>3, <1>4 DEF IInv

LEMMA PrepareInv ==
    ASSUME IInv, NEW h \in Handlers, Prepare(h)
    PROVE  IInv'
<1>0. /\ handler \in [Handlers -> Requests] /\ journal \in [Ops -> Operations]
      /\ reservation \in Reservations /\ reservation.version \in Nat
      /\ \A y \in Handlers : HandlerOK(y)
      /\ handler[h].stage = "preparing" /\ handler[h].op \in Ops /\ handler[h].uid \in Targets
      /\ UNCHANGED <<writer, release, live, journal, freed>>
  BY Typed DEF IInv, Prepare, HandlerOK, Reservations
<1>a. \/ handler' = [handler EXCEPT ![h] = Idle] /\ UNCHANGED reservation
      \/ /\ Held(handler[h].uid, handler[h].version) /\ MarkerFree(h)
         /\ reservation' = [reservation EXCEPT !.version = reservation.version + 1, !.marker = handler[h].op]
         /\ handler' = [handler EXCEPT ![h].stage = "recording", ![h].version = reservation.version + 1]
  BY <1>0 DEF Prepare, Responds, Store, WithMarker
<1>1. TypeOK'
  <2>1. (reservation \in Reservations)'
    BY DEF IInv, TypeOK, Reservations, Held, Prepare
  <2>2. (wire \subseteq Writes)'
    BY DEF IInv, TypeOK, Writes, Prepare, Store
  <2>3. (handler \in [Handlers -> Requests])'
    <3>0. handler \in [Handlers -> Requests] /\ Idle \in Requests /\ reservation.version \in Nat
      BY Typed DEF IInv, Requests, Idle, Reservations
    <3>1. ASSUME NEW n \in Nat, handler' = [handler EXCEPT ![h].stage = "recording", ![h].version = n]
         PROVE  handler' \in [Handlers -> Requests]
      <4>1. \A k \in Handlers : handler'[k] \in Requests
        BY <3>0, <3>1 DEF Requests
      <4>. QED
        BY <3>0, <3>1, <4>1
    <3>2. ASSUME handler' = [handler EXCEPT ![h] = Idle]
         PROVE  handler' \in [Handlers -> Requests]
      BY <3>0, <3>2
    <3>. QED
      BY <3>0, <3>1, <3>2 DEF Prepare, Responds
  <2>. QED
    BY <2>1, <2>2, <2>3
       DEF IInv, TypeOK, Process, Reservations, Writes, Operations, Requests, Prepare
<1>2. ASSUME NEW k \in Targets PROVE WriterOK(k)'
  BY DEF IInv, TypeOK, WriterOK, Settled, Own, Held, Prepare
<1>3. ReservationOK'
  BY DEF IInv, TypeOK, ReservationOK, Over, Settled, Held, Prepare
<1>4. ASSUME NEW k \in Targets PROVE BirthOK(k)'
  <2>1. BirthOK(k) /\ (Unborn(k)' => Unborn(k))
    BY <1>0 DEF IInv, Unborn, Prepare, Store
  <2>2. reservation'.uid = reservation.uid
    BY <1>0, <1>a DEF Reservations
  <2>3. \A y \in Handlers : handler'[y].uid \in {None, handler[y].uid}
    BY <1>0, <1>a DEF Requests, Idle
  <2>. QED
    BY <1>0, <2>1, <2>2, <2>3, BirthKept
<1>5. ASSUME NEW x \in wire' PROVE WireOK(x)'
  BY DEF IInv, TypeOK, WireOK, Held, Over, Settled, Yields, Prepare
<1>6. ASSUME NEW p \in Ops PROVE JournalOK(p)'
  BY NumbersAssumption DEF IInv, TypeOK, JournalOK, Marked, Dead, Held, Prepare
<1>7. ASSUME NEW k \in Handlers PROVE HandlerOK(k)'
  <2>1. CASE UNCHANGED reservation /\ handler' = [handler EXCEPT ![h] = Idle]
    <3>1. handler'[k] = IF k = h THEN Idle ELSE handler[k]
      BY <1>0, <2>1
    <3>. QED
      BY <1>0, <2>1, <3>1, IdleOK, HandlersKept
  <2>2. CASE /\ Held(handler[h].uid, handler[h].version) /\ MarkerFree(h)
             /\ reservation' = [reservation EXCEPT !.version = reservation.version + 1, !.marker = handler[h].op]
             /\ handler' = [handler EXCEPT ![h].stage = "recording", ![h].version = reservation.version + 1]
    <3>1. /\ reservation'.uid = reservation.uid /\ reservation'.marker = handler[h].op
          /\ reservation'.version = reservation.version + 1
      BY <1>0, <2>2 DEF Reservations
    <3>2. reservation.uid = handler[h].uid /\ handler[h].uid = journal[handler[h].op].uid
      BY <1>0, <2>2 DEF Held, HandlerOK
    <3>3. CASE k = h
      <4>1. /\ handler'[h].stage = "recording" /\ handler'[h].op = handler[h].op
            /\ handler'[h].uid = handler[h].uid /\ handler'[h].effect = handler[h].effect
            /\ handler'[h].replacing = handler[h].replacing
            /\ handler'[h].version = reservation'.version
        BY <1>0, <2>2, <3>1 DEF Requests
      <4>2. Marked(handler[h].op, handler[h].version)'
        BY <1>0, <3>1, <3>2, <4>1 DEF Marked
      <4>3. reservation'.version # 0
        BY <1>0, <3>1
      <4>. QED
        BY <1>0, <3>3, <4>1, <4>2, <4>3 DEF HandlerOK, Marked
    <3>4. CASE k # h
      <4>1. handler'[k] = handler[k]
        BY <1>0, <2>2, <3>4
      <4>2. handler[k].stage = "preparing" => (Held(handler[k].uid, handler[k].version)' => Settled)
        BY <1>0, <2>2, <3>1, <3>2 DEF HandlerOK
      <4>3. ASSUME handler[k].stage = "recording", journal[handler[k].op].state = "pending",
                   journal[handler[k].op].effect = 0
            PROVE  Marked(handler[k].op, handler[k].version)'
        <5>1. Marked(handler[k].op, handler[k].version) /\ handler[k].op \in Ops /\ handler[k].version \in Nat
          BY <1>0, <4>3 DEF HandlerOK, Requests
        <5>2. handler[k].op = handler[h].op
          BY <1>0, <2>2, <4>3, <5>1, NamesAssumption DEF MarkerFree, Marked, HandlerOK
        <5>. QED
          BY <1>0, <3>1, <4>1, <5>1, <5>2 DEF Marked
      <4>4. ASSUME Dead(handler[k].op), handler[k].effect # 0, handler[k].stage = "finishing",
                   journal[handler[k].op].effect = handler[k].effect
            PROVE  Dead(handler[k].op)'
        <5>1. handler[k].effect \in Nat
          BY <1>0 DEF Requests
        <5>. QED
          BY <1>0, <3>1, <4>1, <4>4, <5>1 DEF Dead
      <4>. QED
        BY <1>0, <4>1, <4>2, <4>3, <4>4 DEF HandlerOK, FinishOK, Settled, Over, Dead
    <3>. QED
      BY <3>3, <3>4
  <2>. QED
    BY <1>a, <2>1, <2>2
<1>. QED
  BY <1>1, <1>2, <1>3, <1>4, <1>5, <1>6, <1>7 DEF IInv

LEMMA PrepareUnansweredInv ==
    ASSUME IInv, NEW h \in Handlers, PrepareUnanswered(h)
    PROVE  IInv'
<1>1. TypeOK'
  <2>1. (wire \subseteq Writes)'
    <3>1. wire \subseteq Writes /\ handler[h] \in Requests /\ handler[h].op \in Ops /\ handler[h].uid \in Targets
      BY Typed DEF IInv, HandlerOK, PrepareUnanswered
    <3>2. handler[h].version \in Nat
      BY <3>1 DEF Requests
    <3>. QED
      BY <3>1, <3>2 DEF PrepareUnanswered, Late, Writes
  <2>2. (handler \in [Handlers -> Requests])'
    BY DEF IInv, TypeOK, Requests, PrepareUnanswered, Responds, Idle
  <2>3. (faults \in 0..MaxFaults)'
    BY NumbersAssumption DEF IInv, TypeOK, PrepareUnanswered, Fault
  <2>. QED
    BY <2>1, <2>2, <2>3
       DEF IInv, TypeOK, Process, Reservations, Writes, Operations, Requests,
           PrepareUnanswered
<1>2. ASSUME NEW k \in Targets PROVE BirthOK(k)'
  BY NamesAssumption DEF IInv, BirthOK, Unborn, PrepareUnanswered, Responds, Idle, Late
<1>3. ASSUME NEW x \in wire' PROVE WireOK(x)'
  BY DEF IInv, WireOK, HandlerOK, Yields, Over, Settled, Held, PrepareUnanswered, Late,
     MarkerFree
<1>4. ASSUME NEW k \in Handlers PROVE HandlerOK(k)'
  BY DEF IInv, HandlerOK, FinishOK, Marked, Dead, Settled, Over, PrepareUnanswered,
     Responds, Idle
<1>5. /\ \A k \in Targets : WriterOK(k)'
      /\ ReservationOK'
      /\ \A p \in Ops : JournalOK(p)'
  BY Kept DEF PrepareUnanswered
<1>. QED
  BY <1>1, <1>2, <1>3, <1>4, <1>5 DEF IInv

LEMMA RecordEffectInv ==
    ASSUME IInv, NEW h \in Handlers, RecordEffect(h)
    PROVE  IInv'
<1>1. TypeOK'
  <2>1. (journal \in [Ops -> Operations])'
    <3>0. journal \in [Ops -> Operations] /\ handler \in [Handlers -> Requests] /\ handler[h].op \in Ops
      BY Typed DEF IInv, HandlerOK, RecordEffect
    <3>1. ASSUME journal' = [journal EXCEPT ![handler[h].op].effect = handler[h].version]
         PROVE  journal' \in [Ops -> Operations]
      <4>1. \A k \in Ops : journal'[k] \in Operations
        BY <3>0, <3>1, NamesAssumption, NumbersAssumption DEF Requests, Operations
      <4>. QED
        BY <3>0, <3>1, <4>1
    <3>. QED
      BY <3>0, <3>1 DEF RecordEffect, Responds
  <2>2. (handler \in [Handlers -> Requests])'
    <3>0. handler \in [Handlers -> Requests] /\ Idle \in Requests /\ handler[h].version \in Nat
      BY Typed DEF IInv, Requests, Idle
    <3>1. ASSUME handler' = [handler EXCEPT ![h].stage = "deleting", ![h].effect = handler[h].version]
         PROVE  handler' \in [Handlers -> Requests]
      <4>1. \A k \in Handlers : handler'[k] \in Requests
        BY <3>0, <3>1 DEF Requests
      <4>. QED
        BY <3>0, <3>1, <4>1
    <3>2. ASSUME handler' = [handler EXCEPT ![h] = Idle]
         PROVE  handler' \in [Handlers -> Requests]
      <4>1. \A k \in Handlers : handler'[k] \in Requests
        BY <3>0, <3>2 DEF Requests
      <4>. QED
        BY <3>0, <3>2, <4>1
    <3>. QED
      BY <3>1, <3>2 DEF RecordEffect, Responds
  <2>. QED
    BY <2>1, <2>2
       DEF IInv, TypeOK, Process, Reservations, Writes, Operations, Requests,
           RecordEffect
<1>2. ASSUME NEW k \in Targets PROVE BirthOK(k)'
  <2>0. /\ handler \in [Handlers -> Requests] /\ journal \in [Ops -> Operations]
        /\ UNCHANGED <<writer, wire, reservation, freed>>
    BY Typed DEF IInv, RecordEffect
  <2>1. BirthOK(k) /\ (Unborn(k)' => Unborn(k))
    BY <2>0 DEF IInv, Unborn
  <2>2. \A y \in Handlers : handler'[y].uid \in {None, handler[y].uid}
    BY <2>0 DEF Requests, Idle, RecordEffect, Responds
  <2>3. \A o \in Ops : journal'[o].uid = journal[o].uid
    BY <2>0 DEF Operations, RecordEffect
  <2>. QED
    BY <2>0, <2>1, <2>2, <2>3, BirthKept
<1>3. ASSUME NEW x \in wire' PROVE WireOK(x)'
  BY DEF IInv, TypeOK, WireOK, HandlerOK, Yields, Over, Settled, Held, RecordEffect
<1>4. ASSUME NEW p \in Ops PROVE JournalOK(p)'
  BY DEF IInv, TypeOK, HandlerOK, JournalOK, Marked, Dead, RecordEffect
<1>5. ASSUME NEW k \in Handlers PROVE HandlerOK(k)'
  BY NamesAssumption, NumbersAssumption, SMTT(30)
     DEF IInv, TypeOK, Charts, WriterOK, BirthOK, Unborn, WireOK, HandlerOK, JournalOK,
         Marked, Dead, FinishOK, Yields, Working, Over, Settled, Own, Held,
         RecordEffect, Responds, Idle
<1>6. /\ \A k \in Targets : WriterOK(k)'
      /\ ReservationOK'
  BY Kept DEF RecordEffect
<1>. QED
  BY <1>1, <1>2, <1>3, <1>4, <1>5, <1>6 DEF IInv

-----------------------------------------------------------------------------
(* A recovery deletes the reservation, and records its outcome.            *)

LEMMA DeleteInv ==
    ASSUME IInv, NEW h \in Handlers, Delete(h)
    PROVE  IInv'
<1>0. /\ handler \in [Handlers -> Requests] /\ journal \in [Ops -> Operations]
      /\ \A y \in Handlers : HandlerOK(y)
      /\ handler[h].stage = "deleting" /\ handler[h].op \in Ops /\ handler[h].uid \in Targets
      /\ freed \in [Targets -> Targets \cup Ops \cup {None}]
      /\ UNCHANGED <<writer, release, live, journal>>
  BY Typed DEF IInv, TypeOK, Delete, HandlerOK
<1>a. \/ /\ handler' = [handler EXCEPT ![h] = Idle]
         /\ UNCHANGED <<reservation, wire, freed>>
      \/ /\ Fenced(h) /\ reservation' = NoReservation /\ wire' \subseteq wire
         /\ \A w \in wire' : w.kind = "create" \/ w.uid = None
         /\ freed' = [freed EXCEPT ![handler[h].uid] = handler[h].op]
         /\ handler' = [handler EXCEPT ![h] = [Idle EXCEPT !.stage = "finishing",
                           !.op = handler[h].op, !.effect = handler[h].effect, !.outcome = "success"]]
  BY DEF Delete, Responds, Concludes, Store, NoReservation
<1>1. TypeOK'
  <2>1. (reservation \in Reservations)'
      BY Secrets, Typed DEF IInv, Delete, Store
  <2>2. (wire \subseteq Writes)'
    BY DEF IInv, TypeOK, Writes, Delete, Store
  <2>3. (handler \in [Handlers -> Requests])'
    <3>0. handler \in [Handlers -> Requests] /\ Idle \in Requests
      BY Typed DEF IInv, Requests, Idle
    <3>1. ASSUME handler' = [handler EXCEPT ![h] = [Idle EXCEPT !.stage = "finishing", !.op = handler[h].op,
                                                  !.effect = handler[h].effect, !.outcome = "success"]]
         PROVE  handler' \in [Handlers -> Requests]
      <4>1. \A k \in Handlers : handler'[k] \in Requests
        BY <3>0, <3>1 DEF Requests
      <4>. QED
        BY <3>0, <3>1, <4>1
    <3>2. ASSUME handler' = [handler EXCEPT ![h] = Idle]
         PROVE  handler' \in [Handlers -> Requests]
      <4>1. \A k \in Handlers : handler'[k] \in Requests
        BY <3>0, <3>2 DEF Requests
      <4>. QED
        BY <3>0, <3>2, <4>1
    <3>. QED
      BY <3>1, <3>2 DEF Delete, Concludes, Responds
  <2>4. (freed \in [Targets -> Targets \cup Ops \cup {None}])'
    BY DEF IInv, TypeOK, Delete, Responds
  <2>. QED
    BY <2>1, <2>2, <2>3, <2>4
       DEF IInv, TypeOK, Process, Reservations, Writes, Operations, Requests, Delete
<1>2. ASSUME NEW k \in Targets PROVE WriterOK(k)'
  BY NamesAssumption
     DEF IInv, WriterOK, ReservationOK, HandlerOK, Working, Over, Settled, Own, Held,
         Delete, Fenced
<1>3. ReservationOK'
  BY NamesAssumption
     DEF IInv, ReservationOK, HandlerOK, Over, Settled, Delete, Store, NoReservation,
         Fenced
<1>4. ASSUME NEW k \in Targets PROVE BirthOK(k)'
  <2>0. BirthOK(k) /\ (Unborn(k)' => Unborn(k)) /\ \A y \in Handlers : handler[y].uid \in Targets \cup {None}
    BY <1>0, <1>a DEF IInv, Unborn, Requests
  <2>1. CASE handler' = [handler EXCEPT ![h] = Idle] /\ UNCHANGED <<reservation, wire, freed>>
    <3>1. \A y \in Handlers : handler'[y].uid \in {None, handler[y].uid}
      BY <1>0, <2>1 DEF Idle
    <3>. QED
      BY <1>0, <2>0, <2>1, <3>1, BirthKept
  <2>2. CASE /\ Fenced(h) /\ reservation' = NoReservation /\ wire' \subseteq wire
             /\ freed' = [freed EXCEPT ![handler[h].uid] = handler[h].op]
             /\ handler' = [handler EXCEPT ![h] = [Idle EXCEPT !.stage = "finishing",
                               !.op = handler[h].op, !.effect = handler[h].effect, !.outcome = "success"]]
    <3>1. handler'[h].uid = None /\ \A y \in Handlers : y # h => handler'[y] = handler[y]
      BY <1>0, <2>2 DEF Idle
    <3>2. \A y \in Handlers : handler'[y].uid \in {None, handler[y].uid}
      BY <3>1
    <3>3. reservation'.uid = None
      BY <2>2 DEF NoReservation
    <3>4. CASE k = handler[h].uid
      <4>1. ~Unborn(k)
        BY <1>0, <2>0, <3>4 DEF BirthOK
      <4>. QED
        BY <2>0, <3>3, <4>1, NamesAssumption DEF BirthOK
    <3>5. CASE k # handler[h].uid
      <4>1. freed'[k] = freed[k]
        BY <1>0, <2>2, <3>5
      <4>. QED
        BY <1>0, <2>0, <3>2, <3>3, <4>1, BirthKept
    <3>. QED
      BY <3>4, <3>5
  <2>. QED
    BY <1>a, <2>1, <2>2
<1>5. ASSUME NEW x \in wire' PROVE WireOK(x)'
  BY DEF IInv, WireOK, Held, Over, Settled, Yields, Delete, Store, NoReservation
<1>6. ASSUME NEW p \in Ops PROVE JournalOK(p)'
  BY NamesAssumption
     DEF IInv, TypeOK, BirthOK, HandlerOK, JournalOK, Marked, Dead, Over, Held, Delete,
         Idle, Store, NoReservation, Fenced, Concludes
<1>7. ASSUME NEW k \in Handlers PROVE HandlerOK(k)'
  <2>1. CASE handler' = [handler EXCEPT ![h] = Idle] /\ UNCHANGED <<reservation, wire, freed>>
    <3>1. handler'[k] = IF k = h THEN Idle ELSE handler[k]
      BY <1>0, <2>1
    <3>. QED
      BY <1>0, <2>1, <3>1, IdleOK, HandlersKept
  <2>2. CASE /\ Fenced(h) /\ reservation' = NoReservation
             /\ freed' = [freed EXCEPT ![handler[h].uid] = handler[h].op]
             /\ handler' = [handler EXCEPT ![h] = [Idle EXCEPT !.stage = "finishing",
                               !.op = handler[h].op, !.effect = handler[h].effect, !.outcome = "success"]]
    <3>1. /\ freed'[handler[h].uid] = handler[h].op
          /\ \A j \in Targets : j # handler[h].uid => freed'[j] = freed[j]
          /\ handler[h].uid = journal[handler[h].op].uid
          /\ reservation'.uid = None
      BY <1>0, <2>2 DEF HandlerOK, NoReservation
    <3>2. CASE k = h
      <4>1. /\ handler'[h].stage = "finishing" /\ handler'[h].op = handler[h].op
            /\ handler'[h].effect = handler[h].effect /\ handler'[h].outcome = "success"
            /\ handler'[h].replacing = None
        BY <1>0, <2>2 DEF Idle
      <4>. QED
        BY <1>0, <3>1, <3>2, <4>1 DEF HandlerOK
    <3>3. CASE k # h
      <4>1. handler'[k] = handler[k]
        BY <1>0, <2>2, <3>3
      <4>2. reservation.uid = handler[h].uid /\ reservation.marker = handler[h].op
            /\ reservation.version = handler[h].effect
        BY <2>2 DEF Fenced, Held
      <4>3. ASSUME handler[k].stage = "recording", journal[handler[k].op].state = "pending",
                   journal[handler[k].op].effect = 0
            PROVE  FALSE
        <5>1. Marked(handler[k].op, handler[k].version)
          BY <1>0, <4>3 DEF HandlerOK
        <5>2. handler[k].op = handler[h].op
          BY <4>2, <5>1 DEF Marked
        <5>. QED
          BY <1>0, <4>3, <5>2 DEF HandlerOK
      <4>4. ASSUME handler[k].stage = "finishing", handler[k].op \in Ops,
                   freed[journal[handler[k].op].uid] = handler[k].op, journal[handler[k].op].uid \in Targets
            PROVE  freed'[journal[handler[k].op].uid] = handler[k].op
        <5>1. journal[handler[k].op].uid # reservation.uid
          BY <4>4, NamesAssumption DEF IInv, BirthOK
        <5>. QED
          BY <3>1, <4>2, <4>4, <5>1
      <4>5. ASSUME handler[k].op \in Ops, handler[k].effect # 0, Dead(handler[k].op),
                   journal[handler[k].op].effect = handler[k].effect, journal[handler[k].op].uid \in Targets
            PROVE  Dead(handler[k].op)'
        <5>1. handler[k].op # handler[h].op
          <6>1. handler[h].effect = journal[handler[h].op].effect /\ handler[h].effect \in Nat
            BY <1>0 DEF HandlerOK, Requests
          <6>. QED
            BY <3>1, <4>2, <4>5, <6>1 DEF Dead
        <5>. QED
          BY <1>0, <3>1, <4>1, <4>5, <5>1, NamesAssumption DEF Dead
      <4>6. handler[k].stage \notin {"idle", "admitting"} => journal[handler[k].op].uid \in Targets
        BY <1>0 DEF HandlerOK, IInv, JournalOK
      <4>. QED
        BY <1>0, <3>1, <4>1, <4>3, <4>4, <4>5, <4>6, NamesAssumption
           DEF HandlerOK, FinishOK, Settled, Over, Held
    <3>. QED
      BY <3>2, <3>3
  <2>. QED
    BY <1>a, <2>1, <2>2
<1>. QED
  BY <1>1, <1>2, <1>3, <1>4, <1>5, <1>6, <1>7 DEF IInv

LEMMA DeleteUnansweredInv ==
    ASSUME IInv, NEW h \in Handlers, DeleteUnanswered(h)
    PROVE  IInv'
<1>1. TypeOK'
  <2>1. (wire \subseteq Writes)'
    <3>1. wire \subseteq Writes /\ handler[h] \in Requests /\ handler[h].op \in Ops /\ handler[h].uid \in Targets
      BY Typed DEF IInv, HandlerOK, DeleteUnanswered
    <3>2. handler[h].effect \in Nat
      BY <3>1 DEF Requests
    <3>. QED
      BY <3>1, <3>2 DEF DeleteUnanswered, Late, Writes
  <2>2. (handler \in [Handlers -> Requests])'
    BY DEF IInv, TypeOK, Requests, DeleteUnanswered, Responds, Idle
  <2>3. (faults \in 0..MaxFaults)'
    BY NumbersAssumption DEF IInv, TypeOK, DeleteUnanswered, Fault
  <2>. QED
    BY <2>1, <2>2, <2>3
       DEF IInv, TypeOK, Process, Reservations, Writes, Operations, Requests,
           DeleteUnanswered
<1>2. ASSUME NEW k \in Targets PROVE BirthOK(k)'
  BY NamesAssumption DEF IInv, BirthOK, Unborn, DeleteUnanswered, Responds, Idle, Late
<1>3. ASSUME NEW x \in wire' PROVE WireOK(x)'
  BY NamesAssumption
     DEF IInv, ReservationOK, WireOK, HandlerOK, Yields, Over, Settled, Held,
         DeleteUnanswered, Late, Fenced
<1>4. ASSUME NEW k \in Handlers PROVE HandlerOK(k)'
  BY DEF IInv, HandlerOK, FinishOK, Marked, Dead, Held, Settled, Over, DeleteUnanswered,
     Responds, Idle
<1>5. /\ \A k \in Targets : WriterOK(k)'
      /\ ReservationOK'
      /\ \A p \in Ops : JournalOK(p)'
  BY Kept DEF DeleteUnanswered
<1>. QED
  BY <1>1, <1>2, <1>3, <1>4, <1>5 DEF IInv

LEMMA FinishInv ==
    ASSUME IInv, NEW h \in Handlers, Finish(h)
    PROVE  IInv'
<1>1. TypeOK'
  <2>1. (journal \in [Ops -> Operations])'
    <3>0. journal \in [Ops -> Operations] /\ handler \in [Handlers -> Requests] /\ handler[h].op \in Ops
          /\ handler[h].outcome \in {"success", "failure"}
      BY Typed DEF IInv, HandlerOK, Requests, Finish
    <3>1. ASSUME journal' = [journal EXCEPT ![handler[h].op].state = handler[h].outcome]
         PROVE  journal' \in [Ops -> Operations]
      <4>1. \A k \in Ops : journal'[k] \in Operations
        BY <3>0, <3>1 DEF Operations
      <4>. QED
        BY <3>0, <3>1, <4>1
    <3>. QED
      BY <3>0, <3>1 DEF Finish
  <2>2. (handler \in [Handlers -> Requests])'
    BY DEF IInv, TypeOK, Requests, Finish, Responds, Idle
  <2>. QED
    BY <2>1, <2>2
       DEF IInv, TypeOK, Process, Reservations, Writes, Operations, Requests, Finish
<1>2. ASSUME NEW k \in Targets PROVE BirthOK(k)'
  BY NamesAssumption DEF IInv, BirthOK, Unborn, Finish, Responds, Idle
<1>3. ASSUME NEW x \in wire' PROVE WireOK(x)'
  BY DEF IInv, WireOK, Held, Over, Settled, Yields, Finish, FinishOK
<1>4. ASSUME NEW p \in Ops PROVE JournalOK(p)'
  <2>0. /\ journal \in [Ops -> Operations] /\ handler \in [Handlers -> Requests]
        /\ handler[h].op \in Ops /\ handler[h].outcome \in {"success", "failure"}
        /\ UNCHANGED <<writer, reservation, wire, release, live, freed>>
        /\ handler' = [handler EXCEPT ![h] = Idle]
    BY Typed DEF IInv, HandlerOK, Requests, Finish, Responds
  <2>1. CASE ~FinishOK(h)
    BY <2>0, <2>1 DEF IInv, JournalOK, Marked, Dead, Finish
  <2>2. CASE FinishOK(h)
    <3>1. journal' = [journal EXCEPT ![handler[h].op].state = handler[h].outcome]
      BY <2>2 DEF Finish
    <3>2. \A x \in Ops : /\ journal'[x].uid = journal[x].uid /\ journal'[x].effect = journal[x].effect
                        /\ journal'[x].state = IF x = handler[h].op THEN handler[h].outcome
                                              ELSE journal[x].state
      BY <2>0, <3>1 DEF Operations
    <3>3. CASE p = handler[h].op
      <4>1. HandlerOK(h) /\ JournalOK(p)
        BY DEF IInv
      <4>. QED
        BY <2>0, <2>2, <3>2, <3>3, <4>1
           DEF HandlerOK, JournalOK, Marked, Dead, FinishOK, Finish
    <3>4. CASE p # handler[h].op
      <4>1. JournalOK(p)
        BY DEF IInv
      <4>. QED
        BY <2>0, <3>2, <3>4, <4>1 DEF JournalOK, Marked, Dead
    <3>. QED
      BY <3>3, <3>4
  <2>. QED
    BY <2>1, <2>2
<1>5. ASSUME NEW k \in Handlers PROVE HandlerOK(k)'
  <2>0. /\ journal \in [Ops -> Operations] /\ handler \in [Handlers -> Requests]
        /\ handler[h].op \in Ops /\ handler[h].outcome \in {"success", "failure"}
        /\ UNCHANGED <<writer, reservation, wire, release, live, freed>>
        /\ handler' = [handler EXCEPT ![h] = Idle]
    BY Typed DEF IInv, HandlerOK, Requests, Finish, Responds
  <2>1. CASE k # h /\ ~FinishOK(h)
    <3>1. handler'[k] = handler[k] /\ UNCHANGED journal
      BY <2>0, <2>1 DEF Finish
    <3>. QED
      BY <2>0, <3>1, HandlersKept DEF IInv
  <2>2. CASE k # h /\ FinishOK(h)
    <3>1. journal' = [journal EXCEPT ![handler[h].op].state = handler[h].outcome]
      BY <2>2 DEF Finish
    <3>2. \A x \in Ops : /\ journal'[x].uid = journal[x].uid /\ journal'[x].effect = journal[x].effect
                        /\ journal'[x].state = IF x = handler[h].op THEN handler[h].outcome
                                              ELSE journal[x].state
      BY <2>0, <3>1 DEF Operations
    <3>3. HandlerOK(k) /\ handler'[k] = handler[k] /\ journal[handler[h].op].state = "pending"
      BY <2>0, <2>2 DEF IInv, FinishOK
    <3>4. handler[k].replacing \in Ops \cup {None}
      BY <2>0 DEF Requests
    <3>. QED
      BY <2>0, <3>2, <3>3, <3>4, NamesAssumption
         DEF HandlerOK, FinishOK, Marked, Dead, Held, Settled, Over
  <2>3. CASE k = h
    BY <2>0, <2>3, IdleOK
  <2>. QED
    BY <2>1, <2>2, <2>3
<1>6. /\ \A k \in Targets : WriterOK(k)'
      /\ ReservationOK'
  BY Kept DEF Finish
<1>. QED
  BY <1>1, <1>2, <1>3, <1>4, <1>5, <1>6 DEF IInv

LEMMA AbandonedInv ==
    ASSUME IInv, NEW h \in Handlers, Abandoned(h)
    PROVE  IInv'
<1>1. TypeOK'
  <2>1. (handler \in [Handlers -> Requests])'
    BY DEF IInv, TypeOK, Requests, Abandoned, Responds, Idle
  <2>2. (faults \in 0..MaxFaults)'
    BY NumbersAssumption DEF IInv, TypeOK, Abandoned, Fault
  <2>. QED
    BY <2>1, <2>2
       DEF IInv, TypeOK, Process, Reservations, Writes, Operations, Requests,
           Abandoned
<1>2. ASSUME NEW k \in Targets PROVE BirthOK(k)'
  BY NamesAssumption DEF IInv, BirthOK, Unborn, Abandoned, Responds, Idle
<1>3. ASSUME NEW k \in Handlers PROVE HandlerOK(k)'
  BY DEF IInv, HandlerOK, FinishOK, Marked, Dead, Held, Settled, Over, Abandoned,
     Responds, Idle
<1>4. /\ \A k \in Targets : WriterOK(k)'
      /\ ReservationOK'
      /\ \A x \in wire' : WireOK(x)'
      /\ \A p \in Ops : JournalOK(p)'
  BY Kept DEF Abandoned
<1>. QED
  BY <1>1, <1>2, <1>3, <1>4 DEF IInv

-----------------------------------------------------------------------------
(* The theorems.                                                           *)

LEMMA InitInv == Init => IInv
<1>. SUFFICES ASSUME Init PROVE IInv
  OBVIOUS
<1>. USE NamesAssumption, NumbersAssumption DEF Init, NoReservation, NoProcess, NoOperation, Idle
<1>1. TypeOK
  BY DEF TypeOK, Charts
<1>2. (\A j \in Targets : WriterOK(j)) /\ ReservationOK
  BY DEF WriterOK, ReservationOK, Working, Settled
<1>3. (\A j \in Targets : BirthOK(j)) /\ (\A w \in wire : WireOK(w))
  BY DEF BirthOK, WireOK
<1>4. \A o \in Ops : JournalOK(o)
  BY DEF JournalOK
<1>5. \A h \in Handlers : HandlerOK(h)
  BY DEF HandlerOK, FinishOK, Idle
<1>. QED
  BY <1>1, <1>2, <1>3, <1>4, <1>5 DEF IInv

LEMMA NextInv ==
    ASSUME IInv, [Next]_vars
    PROVE  IInv'
<1>1. ASSUME NEW j \in Targets, Start(j) \/ Runs(j)
      PROVE  IInv'
  BY <1>1, StartChecksInv, StartCreatesInv, ReserveInv, PreflightInv,
     RecordUpgradeEffectsInv,
     ApplyCRDsInv, HelmUpgradeInv, HelmEndsInv, VerifyInv, RollBackInv, RollBackEndsInv,
     ReleaseInv, RetainInv
     DEF Start, Runs
<1>2. ASSUME NEW j \in Targets, Fails(j)
      PROVE  IInv'
  BY <1>2, ReserveUnansweredInv, RecordUnansweredInv, ReleaseUnansweredInv, KilledInv,
     NodeLostInv
     DEF Fails
<1>3. ASSUME NEW h \in Handlers, Handles(h)
      PROVE  IInv'
  BY <1>3, AdmitInv, InspectInv, ChecksInv, PrepareInv, RecordEffectInv, DeleteInv,
     FinishInv
     DEF Handles
<1>4. ASSUME NEW h \in Handlers, Breaks(h)
      PROVE  IInv'
  BY <1>4, PrepareUnansweredInv, DeleteUnansweredInv, AbandonedInv DEF Breaks
<1>5. ASSUME NEW h \in Handlers, NEW o \in Ops, RecoverChecks(h, o) \/ Resolve(h, o)
      PROVE  IInv'
  BY <1>5, RecoverChecksInv, ResolveInv
<1>6. ASSUME NEW w \in wire, ArrivesCreate(w) \/ ArrivesUpdate(w) \/ ArrivesDelete(w)
      PROVE  IInv'
  BY <1>6, ArrivesCreateInv, ArrivesUpdateInv, ArrivesDeleteInv
<1>7. CASE HelmByHand
  BY <1>7, HelmByHandInv
<1>8. CASE UNCHANGED vars
  <2>1. /\ UNCHANGED <<writer, reservation, wire, release, live, journal, handler, freed>>
        /\ UNCHANGED <<starting, faults>>
    BY <1>8 DEF vars
  <2>2. TypeOK'
    BY <2>1 DEF IInv, TypeOK
  <2>. QED
    BY <2>1, <2>2, Kept DEF IInv
<1>. QED
  BY <1>1, <1>2, <1>3, <1>4, <1>5, <1>6, <1>7, <1>8 DEF Next

\* The strengthening is inductive, so it holds of every reachable state.
LEMMA Inductive == Spec => []IInv
  BY InitInv, NextInv, PTL DEF Spec

\* Jobs, the reservation, the writes under way, the journal and the handlers keep
\* their types.
THEOREM UpgradeTypeCorrect == Spec => []TypeOK
<1>1. IInv => TypeOK
  BY DEF IInv
<1>. QED
  BY Inductive, <1>1, PTL

\* A Job's process changes CRDs or the Helm release (runReserved) only while the
\* reservation is its own at the version it knows, however many Jobs Start lets
\* through, whatever write arrives late and whatever an administrator recovers.
THEOREM OnlyOneWriter == Spec => []OneWriter
<1>1. IInv => OneWriter
  BY DEF IInv, WriterOK, OneWriter, Changing, Working
<1>. QED
  BY Inductive, <1>1, PTL

\* Neither Runner.Run nor a recovery ever unlocks a release out of order.
THEOREM LockGuardsRelease == Spec => []UnlockedIsSettled
<1>1. IInv => UnlockedIsSettled
  BY DEF IInv, ReservationOK, UnlockedIsSettled
<1>. QED
  BY Inductive, <1>1, PTL

\* The outcome in operator_credential_operations says who deleted the reservation:
\* a recovery recorded as a success did, and one recorded as a failure never will,
\* for any number of handlers that resolve it and deletes that arrive late.
THEOREM RecoveriesTruthful == Spec => []RecoveryTruthful
<1>1. ASSUME IInv, NEW o \in Ops, journal[o].state = "failure"
      PROVE  freed[journal[o].uid] # o
  <2>1. JournalOK(o) /\ journal[o].uid \in Targets
    BY <1>1 DEF IInv, JournalOK
  <2>. QED
    BY <1>1, <2>1 DEF JournalOK, Dead
<1>2. ASSUME IInv, NEW o \in Ops, journal[o].state = "success"
      PROVE  freed[journal[o].uid] = o
  BY <1>2 DEF IInv, JournalOK
<1>3. IInv => RecoveryTruthful
  BY <1>1, <1>2 DEF RecoveryTruthful
<1>. QED
  BY Inductive, <1>3, PTL
=============================================================================
