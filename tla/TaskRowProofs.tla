--------------------------- MODULE TaskRowProofs ---------------------------
(***************************************************************************)
(* Every operation of TaskRows keeps the rows of a task well typed and in  *)
(* agreement, and what else it may do to them.  A row is Sound; a Calm     *)
(* change neither enters the lane nor touches the turn or its token; a     *)
(* Move is a step of TaskLifecycle or none.  One lemma per operation says  *)
(* which of these it is; TaskDispatchProofs builds on them.                *)
(***************************************************************************)
EXTENDS TaskRows, TLAPS

Sound(r) == r \in Row /\ RowAgrees(r) /\ Announced(r)

\* What an operation that neither claims, begins, requests nor resumes does
\* not do to a row.
Calm(r, s) ==
    /\ s.disp \in InLane => r.disp \in InLane
    /\ s.turns = r.turns /\ s.token = r.token
    /\ s.state \in Waiting => r.state \in Waiting
    /\ s.state = "absent" <=> r.state = "absent"
    /\ s.state \in Present <=> r.state \in Present
    /\ s.state = "canceled" /\ s.cancel # "acknowledged" =>
         \/ r.state = "canceled" /\ r.cancel # "acknowledged"
         \/ r.state \in Waiting
         \/ r.disp \in {"pending", "leased"}

\* A row an open claim holds stays pending.
Held(r, s) == r.disp = "pending" => s.disp = "pending"

\* The moves of TaskLifecycle, in terms of rows.
Move(r, s) ==
    \/ s.state = r.state /\ (s.token # 0 <=> r.token # 0)
    \/ r.state = "absent" /\ s.state = "queued" /\ (s.token # 0 <=> r.token # 0)
    \/ r.state = "queued" /\ s.state = "queued" /\ r.token = 0 /\ s.token # 0
    \/ r.state = "queued" /\ s.state = "dispatched" /\ r.token # 0 /\ s.token # 0
    \/ r.state = "dispatched" /\ s.state \in Waiting /\ r.token # 0 /\ s.token # 0
    \/ r.state \in Waiting /\ s.state = "queued" /\ s.token = 0
    \/ /\ r.state \in {"queued", "dispatched"} /\ s.state = "canceling"
       /\ r.token # 0 /\ s.token # 0
    \/ /\ r.state \in {"queued"} \cup Waiting /\ s.state = "canceled"
       /\ r.state = "queued" => r.token = 0
       /\ s.token # 0 <=> r.token # 0
    \/ /\ r.state = "canceling" /\ s.state = "canceled"
       /\ r.token # 0 /\ s.token # 0
    \/ /\ r.state \in {"dispatched", "canceling"} /\ s.state = "completed"
       /\ r.token # 0 /\ s.token # 0
    \/ r.state = "dispatched" /\ s.state = "rejected" /\ r.token # 0 /\ s.token # 0
    \/ r.state \in Outstanding /\ s.state = "failed" /\ (s.token # 0 <=> r.token # 0)
    \/ r.state \in Present /\ s.state = "deleted" /\ s.token = 0

-----------------------------------------------------------------------------
(* Types. *)

\* The values the operations write are values of their columns.
LEMMA RowValues ==
    /\ {"absent", "deleted", "queued", "dispatched", "canceling", "canceled",
        "completed", "failed", "rejected"} \cup Waiting \subseteq States
    /\ {"none", "pending", "leased", "attempting", "receipt_pending",
        "delivered", "closed"} \subseteq Statuses
    /\ {"none", "agent_unavailable", "delivery_unknown", "deadline_exceeded",
        "input_timeout", "auth_timeout", "cancel_unconfirmed"} \subseteq FailureCodes
    /\ NoOwner \in Owners /\ Workers \subseteq Owners
    /\ {"none", "live", "expired"} \subseteq Leases
    /\ {"ready", "waiting"} \subseteq Backoffs
    /\ {"ahead", "past"} \subseteq Clocks
    /\ {"live", "past", "retired"} \subseteq Dues
    /\ {"none", "paused", "answered", "consumed", "expired"} \subseteq Interactions
    /\ {"none", "pending", "completed"} \subseteq Flows
    /\ {"none", "pending", "notified", "acknowledged", "closed"} \subseteq Cancels
BY DEF States, Present, Outstanding, Terminal, Waiting, Statuses, InLane,
       FailureCodes, Owners, Leases, Backoffs, Clocks, Dues, Interactions,
       Flows, Cancels

\* The building blocks of the operations keep the type of a row.
LEMMA BlocksTyped ==
    ASSUME NEW r \in Row, NEW s \in States, NEW code \in FailureCodes
    PROVE  /\ Event(r, s) \in Row
           /\ TerminalEvent(r, s) \in Row
           /\ SetState(r, s) \in Row
           /\ FailTask(r, code) \in Row
           /\ CloseDispatch(r) \in Row
<1>1. Event(r, s) \in Row
    BY DEF Event, Row
<1>2. TerminalEvent(r, s) \in Row
    <2>1. \A n \in Nat : [r EXCEPT !.said = s, !.terminals = n] \in Row
        BY DEF Row
    <2>2. r.terminals + 1 \in Nat
        BY DEF Row
    <2>. QED  BY <2>1, <2>2 DEF TerminalEvent
<1>3. \A x \in States : SetState(r, x) \in Row
    <2>1. \A x \in States, n \in Nat : [r EXCEPT !.state = x, !.version = n] \in Row
        BY DEF Row
    <2>2. r.version + 1 \in Nat
        BY DEF Row
    <2>. QED  BY <2>1, <2>2 DEF SetState
<1>4. FailTask(r, code) \in Row
    <2>1. SetState(r, "failed") \in Row
        BY <1>3, RowValues
    <2>. QED  BY <2>1 DEF FailTask, Row
<1>5. CloseDispatch(r) \in Row
    BY RowValues DEF CloseDispatch, Row
<1>. QED  BY <1>1, <1>2, <1>3, <1>4, <1>5

-----------------------------------------------------------------------------
(* Creating, claiming and delivering. *)

\* Create: a new row is queued with an open dispatch intent.
LEMMA CreateSound ==
    ASSUME NEW n \in Nat
    PROVE  Sound(CreateRow(n))
<1>1. CreateRow(n) \in Row
    BY RowValues DEF CreateRow, AbsentRow, Event, Row
<1>2. RowAgrees(CreateRow(n)) /\ Announced(CreateRow(n))
    BY DEF CreateRow, AbsentRow, Event,
       RowAgrees, StateAgrees, TokenAgrees, LeaseAgrees, InteractionAgrees,
       Announced,
       Present, Outstanding, Waiting, Terminal, InLane, Ambiguous, Row
<1>. QED  BY <1>1, <1>2 DEF Sound

\* ClaimPending leases a pending row.
LEMMA ClaimSound ==
    ASSUME NEW r \in Row, NEW w \in Workers, RowAgrees(r), Announced(r),
           r.disp = "pending"
    PROVE  Sound(ClaimRow(r, w)) /\ Move(r, ClaimRow(r, w))
<1>1. ClaimRow(r, w) \in Row
    <2>1. \A n \in Nat : [r EXCEPT !.disp = "leased", !.owner = w, !.lease = "live",
                              !.attempts = n] \in Row
        BY RowValues DEF Row
    <2>2. r.attempts + 1 \in Nat
        BY DEF Row
    <2>. QED  BY <2>1, <2>2 DEF ClaimRow
<1>2. RowAgrees(ClaimRow(r, w)) /\ Announced(ClaimRow(r, w))
    BY OwnerAssumption
    DEF OwnerAssumption, ClaimRow,
       RowAgrees, StateAgrees, TokenAgrees, LeaseAgrees, InteractionAgrees,
       Announced,
       Present, Outstanding, Waiting, Terminal, InLane, Ambiguous, Row
<1>3. Move(r, ClaimRow(r, w))
    BY DEF Move, ClaimRow,
       RowAgrees, StateAgrees, TokenAgrees,
       Present, Outstanding, Waiting, Terminal, InLane, Ambiguous, Row
<1>. QED  BY <1>1, <1>2, <1>3 DEF Sound

\* ReleaseLease returns a leased row to pending.
LEMMA ReleaseSound ==
    ASSUME NEW r \in Row, NEW w \in Workers, RowAgrees(r), Announced(r),
           HoldsLease(r, w)
    PROVE  /\ Sound(ReleaseRow(r)) /\ Calm(r, ReleaseRow(r))
           /\ Held(r, ReleaseRow(r)) /\ Move(r, ReleaseRow(r))
<1>1. ReleaseRow(r) \in Row
    BY RowValues DEF ReleaseRow, Row
<1>2. RowAgrees(ReleaseRow(r)) /\ Announced(ReleaseRow(r))
    BY OwnerAssumption
    DEF OwnerAssumption, HoldsLease, ReleaseRow,
       RowAgrees, StateAgrees, TokenAgrees, LeaseAgrees, InteractionAgrees,
       Announced,
       Present, Outstanding, Waiting, Terminal, InLane, Ambiguous, Row
<1>3. /\ Calm(r, ReleaseRow(r)) /\ Held(r, ReleaseRow(r))
      /\ Move(r, ReleaseRow(r))
    BY DEF Calm, Held, Move, HoldsLease, ReleaseRow,
       RowAgrees, StateAgrees, TokenAgrees,
       Present, Outstanding, Waiting, Terminal, InLane, Ambiguous, Row
<1>. QED  BY <1>1, <1>2, <1>3 DEF Sound

\* RenewLease extends the lease of a leased row.
LEMMA RenewSound ==
    ASSUME NEW r \in Row, NEW w \in Workers, RowAgrees(r), Announced(r),
           HoldsLease(r, w)
    PROVE  /\ Sound(RenewRow(r)) /\ Calm(r, RenewRow(r))
           /\ Held(r, RenewRow(r)) /\ Move(r, RenewRow(r))
<1>1. RenewRow(r) \in Row
    BY RowValues DEF RenewRow, Row
<1>2. RowAgrees(RenewRow(r)) /\ Announced(RenewRow(r))
    BY OwnerAssumption
    DEF OwnerAssumption, HoldsLease, RenewRow,
       RowAgrees, StateAgrees, TokenAgrees, LeaseAgrees, InteractionAgrees,
       Announced,
       Present, Outstanding, Waiting, Terminal, InLane, Ambiguous, Row
<1>3. /\ Calm(r, RenewRow(r)) /\ Held(r, RenewRow(r))
      /\ Move(r, RenewRow(r))
    BY DEF Calm, Held, Move, HoldsLease, RenewRow,
       RowAgrees, StateAgrees, TokenAgrees,
       Present, Outstanding, Waiting, Terminal, InLane, Ambiguous, Row
<1>. QED  BY <1>1, <1>2, <1>3 DEF Sound

\* BeginAttempt gives a leased row its token.
LEMMA BeginSound ==
    ASSUME NEW r \in Row, NEW w \in Workers, NEW a \in Nat \ {0}, RowAgrees(r),
           Announced(r), BeginOK(r, w)
    PROVE  Sound(BeginRow(r, a)) /\ Held(r, BeginRow(r, a)) /\ Move(r, BeginRow(r, a))
<1>1. BeginRow(r, a) \in Row
    BY RowValues DEF BeginRow, Row
<1>2. RowAgrees(BeginRow(r, a)) /\ Announced(BeginRow(r, a))
    BY OwnerAssumption
    DEF OwnerAssumption, BeginOK, HoldsLease, BeginRow,
       RowAgrees, StateAgrees, TokenAgrees, LeaseAgrees, InteractionAgrees,
       Announced,
       Present, Outstanding, Waiting, Terminal, InLane, Ambiguous, Row
<1>3. Held(r, BeginRow(r, a)) /\ Move(r, BeginRow(r, a))
    <2>1. r.disp = "leased"
        BY DEF BeginOK, HoldsLease
    <2>2. r.state = "queued" /\ r.token = 0
        BY <2>1 DEF RowAgrees, StateAgrees, TokenAgrees, Row, States, Present,
           Outstanding, Terminal, Waiting, Ambiguous
    <2>. QED  BY <2>1, <2>2 DEF Held, Move, BeginRow, Row
<1>. QED  BY <1>1, <1>2, <1>3 DEF Sound

\* MarkReceiptPending keeps the attempt in the lane.
LEMMA MarkReceiptSound ==
    ASSUME NEW r \in Row, NEW w \in Workers, NEW a \in Nat, RowAgrees(r),
           Announced(r), MarkReceiptOK(r, w, a)
    PROVE  /\ Sound(MarkReceiptRow(r)) /\ Calm(r, MarkReceiptRow(r))
           /\ Held(r, MarkReceiptRow(r)) /\ Move(r, MarkReceiptRow(r))
<1>1. MarkReceiptRow(r) \in Row
    BY RowValues DEF MarkReceiptRow, Row
<1>2. RowAgrees(MarkReceiptRow(r)) /\ Announced(MarkReceiptRow(r))
    BY OwnerAssumption
    DEF OwnerAssumption, MarkReceiptOK, MarkReceiptRow,
       RowAgrees, StateAgrees, TokenAgrees, LeaseAgrees, InteractionAgrees,
       Announced,
       Present, Outstanding, Waiting, Terminal, InLane, Ambiguous, Row
<1>3. /\ Calm(r, MarkReceiptRow(r)) /\ Held(r, MarkReceiptRow(r))
      /\ Move(r, MarkReceiptRow(r))
    BY DEF Calm, Held, Move, MarkReceiptOK, MarkReceiptRow,
       RowAgrees, StateAgrees, TokenAgrees,
       Present, Outstanding, Waiting, Terminal, InLane, Ambiguous, Row
<1>. QED  BY <1>1, <1>2, <1>3 DEF Sound

\* FailDelivery ends a queued task and leaves the lane.
LEMMA FailDeliverySound ==
    ASSUME NEW r \in Row, NEW w \in Workers, NEW v \in Nat, NEW code \in FailureCodes,
           RowAgrees(r), Announced(r), FailDeliveryOK(r, w, v)
    PROVE  /\ Sound(FailDeliveryRow(r, code)) /\ Calm(r, FailDeliveryRow(r, code))
           /\ Held(r, FailDeliveryRow(r, code)) /\ Move(r, FailDeliveryRow(r, code))
<1>1. FailDeliveryRow(r, code) \in Row
    BY BlocksTyped, RowValues DEF FailDeliveryRow
<1>2. RowAgrees(FailDeliveryRow(r, code)) /\ Announced(FailDeliveryRow(r, code))
    BY OwnerAssumption
    DEF OwnerAssumption, FailDeliveryOK, FailDeliveryRow, TerminalEvent, CloseDispatch,
       FailTask, SetState,
       RowAgrees, StateAgrees, TokenAgrees, LeaseAgrees, InteractionAgrees,
       Announced,
       Present, Outstanding, Waiting, Terminal, InLane, Ambiguous, Row
<1>3. /\ Calm(r, FailDeliveryRow(r, code)) /\ Held(r, FailDeliveryRow(r, code))
      /\ Move(r, FailDeliveryRow(r, code))
    BY DEF Calm, Held, Move, FailDeliveryOK, FailDeliveryRow, TerminalEvent,
       CloseDispatch, FailTask, SetState,
       RowAgrees, StateAgrees, TokenAgrees,
       Present, Outstanding, Waiting, Terminal, InLane, Ambiguous, Row
<1>. QED  BY <1>1, <1>2, <1>3 DEF Sound

\* AcceptReceipt leaves the lane whatever state the task is in.
LEMMA ReceiptSound ==
    ASSUME NEW r \in Row, NEW a \in Nat, RowAgrees(r), Announced(r),
           ReceiptOK(r, a)
    PROVE  /\ Sound(ReceiptRow(r)) /\ Calm(r, ReceiptRow(r))
           /\ Held(r, ReceiptRow(r)) /\ Move(r, ReceiptRow(r))
<1>1. ReceiptRow(r) \in Row
    <2>. DEFINE d == [r EXCEPT !.disp = "delivered", !.receipt = r.token,
                               !.owner = NoOwner, !.lease = "none"]
    <2>1. d \in Row
        BY RowValues DEF Row
    <2>2. SetState(d, "dispatched") \in Row
        BY <2>1, BlocksTyped, RowValues
    <2>. HIDE DEF d
    <2>3. \A x \in Row : Event(x, "dispatched") \in Row
        BY BlocksTyped, RowValues
    <2>. QED  BY <2>1, <2>2, <2>3 DEF ReceiptRow, d
<1>2. RowAgrees(ReceiptRow(r)) /\ Announced(ReceiptRow(r))
    BY OwnerAssumption
    DEF OwnerAssumption, ReceiptOK, ReceiptRow, Event, SetState,
       RowAgrees, StateAgrees, TokenAgrees, LeaseAgrees, InteractionAgrees,
       Announced,
       Present, Outstanding, Waiting, Terminal, InLane, Ambiguous, Row
<1>3. /\ Calm(r, ReceiptRow(r)) /\ Held(r, ReceiptRow(r))
      /\ Move(r, ReceiptRow(r))
    BY DEF Calm, Held, Move, ReceiptOK, ReceiptRow, Event, SetState,
       RowAgrees, StateAgrees, TokenAgrees,
       Present, Outstanding, Waiting, Terminal, InLane, Ambiguous, Row
<1>. QED  BY <1>1, <1>2, <1>3 DEF Sound

-----------------------------------------------------------------------------
(* What the attempt reports. *)

\* ReportProgress changes counters only.
LEMMA ProgressSound ==
    ASSUME NEW r \in Row, NEW a \in Nat, RowAgrees(r), Announced(r),
           ProgressOK(r, a)
    PROVE  /\ Sound(ProgressRow(r)) /\ Calm(r, ProgressRow(r))
           /\ Held(r, ProgressRow(r)) /\ Move(r, ProgressRow(r))
<1>1. ProgressRow(r) \in Row
    <2>1. \A m, n \in Nat : [r EXCEPT !.progress = m, !.version = n] \in Row
        BY DEF Row
    <2>2. r.progress + 1 \in Nat /\ r.version + 1 \in Nat
        BY DEF Row
    <2>. QED  BY <2>1, <2>2 DEF ProgressRow
<1>2. RowAgrees(ProgressRow(r)) /\ Announced(ProgressRow(r))
    BY OwnerAssumption
    DEF OwnerAssumption, ProgressOK, ProgressRow,
       RowAgrees, StateAgrees, TokenAgrees, LeaseAgrees, InteractionAgrees,
       Announced,
       Present, Outstanding, Waiting, Terminal, InLane, Ambiguous, Row
<1>3. /\ Calm(r, ProgressRow(r)) /\ Held(r, ProgressRow(r))
      /\ Move(r, ProgressRow(r))
    BY DEF Calm, Held, Move, ProgressOK, ProgressRow,
       RowAgrees, StateAgrees, TokenAgrees,
       Present, Outstanding, Waiting, Terminal, InLane, Ambiguous, Row
<1>. QED  BY <1>1, <1>2, <1>3 DEF Sound

\* Complete ends a dispatched or canceling task.
LEMMA CompleteSound ==
    ASSUME NEW r \in Row, NEW v \in Nat, RowAgrees(r), Announced(r),
           CompleteOK(r, v)
    PROVE  /\ Sound(CompleteRow(r)) /\ Calm(r, CompleteRow(r))
           /\ Held(r, CompleteRow(r)) /\ Move(r, CompleteRow(r))
<1>1. CompleteRow(r) \in Row
    BY BlocksTyped, RowValues DEF CompleteRow
<1>2. RowAgrees(CompleteRow(r)) /\ Announced(CompleteRow(r))
    BY OwnerAssumption
    DEF OwnerAssumption, CompleteOK, CompleteRow, TerminalEvent, SetState,
       RowAgrees, StateAgrees, TokenAgrees, LeaseAgrees, InteractionAgrees,
       Announced,
       Present, Outstanding, Waiting, Terminal, InLane, Ambiguous, Row
<1>3. /\ Calm(r, CompleteRow(r)) /\ Held(r, CompleteRow(r))
      /\ Move(r, CompleteRow(r))
    BY DEF Calm, Held, Move, CompleteOK, CompleteRow, TerminalEvent, SetState,
       RowAgrees, StateAgrees, TokenAgrees,
       Present, Outstanding, Waiting, Terminal, InLane, Ambiguous, Row
<1>. QED  BY <1>1, <1>2, <1>3 DEF Sound

\* Reject ends a dispatched task and closes its dispatch.
LEMMA RejectSound ==
    ASSUME NEW r \in Row, NEW a \in Nat, RowAgrees(r), Announced(r),
           RejectOK(r, a)
    PROVE  /\ Sound(RejectRow(r)) /\ Calm(r, RejectRow(r))
           /\ Held(r, RejectRow(r)) /\ Move(r, RejectRow(r))
<1>1. RejectRow(r) \in Row
    <2>1. SetState(r, "rejected") \in Row
        BY BlocksTyped, RowValues
    <2>2. [SetState(r, "rejected") EXCEPT !.disp = "closed"] \in Row
        BY <2>1, RowValues DEF Row
    <2>. QED  BY <2>2, BlocksTyped, RowValues DEF RejectRow
<1>2. RowAgrees(RejectRow(r)) /\ Announced(RejectRow(r))
    BY OwnerAssumption
    DEF OwnerAssumption, RejectOK, RejectRow, TerminalEvent, SetState,
       RowAgrees, StateAgrees, TokenAgrees, LeaseAgrees, InteractionAgrees,
       Announced,
       Present, Outstanding, Waiting, Terminal, InLane, Ambiguous, Row
<1>3. /\ Calm(r, RejectRow(r)) /\ Held(r, RejectRow(r))
      /\ Move(r, RejectRow(r))
    BY DEF Calm, Held, Move, RejectOK, RejectRow, TerminalEvent, SetState,
       RowAgrees, StateAgrees, TokenAgrees,
       Present, Outstanding, Waiting, Terminal, InLane, Ambiguous, Row
<1>. QED  BY <1>1, <1>2, <1>3 DEF Sound

-----------------------------------------------------------------------------
(* Interactions. *)

\* RequestInteraction pauses a dispatched task and opens its next turn.
LEMMA RequestSound ==
    ASSUME NEW r \in Row, NEW a \in Nat, NEW x \in Waiting, RowAgrees(r),
           Announced(r), RequestOK(r, a)
    PROVE  /\ Sound(RequestRow(r, x)) /\ Held(r, RequestRow(r, x))
           /\ Move(r, RequestRow(r, x))
<1>1. RequestRow(r, x) \in Row
    <2>1. SetState(r, x) \in Row
        BY BlocksTyped, RowValues
    <2>2. \A n \in Nat, c \in Clocks, f \in Flows :
              [SetState(r, x) EXCEPT !.inter = "paused", !.turns = n,
                 !.interClock = c, !.flow = f] \in Row
        BY <2>1, RowValues DEF Row
    <2>3. SetState(r, x).turns + 1 \in Nat
        BY <2>1 DEF Row
    <2>4. \A y \in Row : Event(y, x) \in Row
        BY BlocksTyped, RowValues
    <2>. DEFINE c == IF r.due = "live" THEN "ahead" ELSE "past"
                f == IF x = "auth_required" THEN "pending" ELSE "none"
    <2>5. c \in Clocks /\ f \in Flows
        BY RowValues
    <2>. HIDE DEF c, f
    <2>6. [SetState(r, x) EXCEPT !.inter = "paused", !.turns = @ + 1,
             !.interClock = c, !.flow = f] \in Row
        BY <2>2, <2>3, <2>5
    <2>. QED  BY <2>4, <2>6 DEF RequestRow, c, f
<1>2. RowAgrees(RequestRow(r, x)) /\ Announced(RequestRow(r, x))
    BY OwnerAssumption
    DEF OwnerAssumption, RequestOK, RequestRow, Event, SetState,
       RowAgrees, StateAgrees, TokenAgrees, LeaseAgrees, InteractionAgrees,
       Announced,
       Present, Outstanding, Waiting, Terminal, InLane, Ambiguous, Row
<1>3. Held(r, RequestRow(r, x)) /\ Move(r, RequestRow(r, x))
    BY DEF Held, Move, RequestOK, RequestRow, Event, SetState,
       RowAgrees, StateAgrees, TokenAgrees,
       Present, Outstanding, Waiting, Terminal, InLane, Ambiguous, Row
<1>. QED  BY <1>1, <1>2, <1>3 DEF Sound

\* CompleteAuthorizationFlow touches the flow only.
LEMMA FlowSound ==
    ASSUME NEW r \in Row, RowAgrees(r), Announced(r)
    PROVE  /\ Sound(FlowRow(r)) /\ Calm(r, FlowRow(r))
           /\ Held(r, FlowRow(r)) /\ Move(r, FlowRow(r))
<1>1. FlowRow(r) \in Row
    BY RowValues DEF FlowRow, Row
<1>2. RowAgrees(FlowRow(r)) /\ Announced(FlowRow(r))
    BY OwnerAssumption
    DEF OwnerAssumption, FlowRow,
       RowAgrees, StateAgrees, TokenAgrees, LeaseAgrees, InteractionAgrees,
       Announced,
       Present, Outstanding, Waiting, Terminal, InLane, Ambiguous, Row
<1>3. /\ Calm(r, FlowRow(r)) /\ Held(r, FlowRow(r))
      /\ Move(r, FlowRow(r))
    BY DEF Calm, Held, Move, FlowRow,
       RowAgrees, StateAgrees, TokenAgrees,
       Present, Outstanding, Waiting, Terminal, InLane, Ambiguous, Row
<1>. QED  BY <1>1, <1>2, <1>3 DEF Sound

\* A late response finds the task waiting or already over.
LEMMA RespondLateSound ==
    ASSUME NEW r \in Row, RowAgrees(r), Announced(r), RespondLateOK(r)
    PROVE  /\ Sound(RespondLateRow(r)) /\ Calm(r, RespondLateRow(r))
           /\ Held(r, RespondLateRow(r)) /\ Move(r, RespondLateRow(r))
<1>1. RespondLateRow(r) \in Row
    <2>. DEFINE e == [r EXCEPT !.inter = "expired", !.disp = "closed"]
    <2>1. e \in Row
        BY RowValues DEF Row
    <2>. HIDE DEF e
    <2>2. TimeoutCode(r) \in FailureCodes
        BY RowValues DEF TimeoutCode
    <2>3. FailTask(e, TimeoutCode(r)) \in Row
        BY <2>1, <2>2, BlocksTyped, RowValues
    <2>4. \A x \in Row : TerminalEvent(x, "failed") \in Row
        BY BlocksTyped, RowValues
    <2>. QED  BY <2>1, <2>3, <2>4 DEF RespondLateRow, e
<1>2. RowAgrees(RespondLateRow(r)) /\ Announced(RespondLateRow(r))
    BY OwnerAssumption
    DEF OwnerAssumption, RespondLateOK, RespondLateRow,
       TerminalEvent, FailTask, SetState,
       RowAgrees, StateAgrees, TokenAgrees, LeaseAgrees, InteractionAgrees,
       Announced,
       Present, Outstanding, Waiting, Terminal, InLane, Ambiguous, Row
<1>3. /\ Calm(r, RespondLateRow(r)) /\ Held(r, RespondLateRow(r))
      /\ Move(r, RespondLateRow(r))
    BY DEF Calm, Held, Move, RespondLateOK, RespondLateRow,
       TerminalEvent, FailTask, SetState,
       RowAgrees, StateAgrees, TokenAgrees, InteractionAgrees,
       Present, Outstanding, Waiting, Terminal, InLane, Ambiguous, Row
<1>. QED  BY <1>1, <1>2, <1>3 DEF Sound

\* A timely response queues the next turn, without a token.
LEMMA RespondSound ==
    ASSUME NEW r \in Row, RowAgrees(r), Announced(r), RespondOK(r)
    PROVE  Sound(RespondRow(r)) /\ Held(r, RespondRow(r)) /\ Move(r, RespondRow(r))
<1>1. RespondRow(r) \in Row
    <2>1. SetState(r, "queued") \in Row
        BY BlocksTyped, RowValues
    <2>2. [SetState(r, "queued") EXCEPT
             !.inter = "answered", !.disp = "pending", !.attempts = 0,
             !.backoff = "ready", !.token = 0, !.receipt = 0,
             !.owner = NoOwner, !.lease = "none"] \in Row
        BY <2>1, RowValues DEF Row
    <2>. QED  BY <2>2, BlocksTyped, RowValues DEF RespondRow
<1>2. RowAgrees(RespondRow(r)) /\ Announced(RespondRow(r))
    BY OwnerAssumption
    DEF OwnerAssumption, RespondOK, RespondRow, Event, SetState,
       RowAgrees, StateAgrees, TokenAgrees, LeaseAgrees, InteractionAgrees,
       Announced,
       Present, Outstanding, Waiting, Terminal, InLane, Ambiguous, Row
<1>3. Held(r, RespondRow(r)) /\ Move(r, RespondRow(r))
    BY DEF Held, Move, RespondOK, RespondRow, Event, SetState,
       RowAgrees, StateAgrees, TokenAgrees,
       Present, Outstanding, Waiting, Terminal, InLane, Ambiguous, Row
<1>. QED  BY <1>1, <1>2, <1>3 DEF Sound

-----------------------------------------------------------------------------
(* Cancellation. *)

\* Cancel asks an exposed turn to stop and ends any other at once.
LEMMA CancelSound ==
    ASSUME NEW r \in Row, RowAgrees(r), Announced(r), CancelOK(r)
    PROVE  Sound(CancelRow(r)) /\ Calm(r, CancelRow(r)) /\ Move(r, CancelRow(r))
<1>1. CancelRow(r) \in Row
    <2>. DEFINE c == IF r.due = "live" THEN "ahead" ELSE "past"
    <2>1. c \in Clocks
        BY RowValues
    <2>. HIDE DEF c
    <2>2. SetState(r, "canceling") \in Row /\ SetState(r, "canceled") \in Row
        BY BlocksTyped, RowValues
    <2>3. r.token \in Nat
        BY DEF Row
    <2>4. [SetState(r, "canceling") EXCEPT !.cancel = "pending",
             !.cancelAttempt = r.token, !.cancelClock = c] \in Row
        BY <2>1, <2>2, <2>3, RowValues DEF Row
    <2>5. [SetState(r, "canceled") EXCEPT !.cancelClock = c] \in Row
        BY <2>1, <2>2 DEF Row
    <2>6. \A x \in Row : /\ Event(x, "canceling") \in Row
                        /\ TerminalEvent(CloseDispatch(x), "canceled") \in Row
        BY BlocksTyped, RowValues
    <2>. QED  BY <2>4, <2>5, <2>6 DEF CancelRow, c
<1>2. RowAgrees(CancelRow(r)) /\ Announced(CancelRow(r))
    BY OwnerAssumption
    DEF OwnerAssumption, CancelOK, CancelAmbiguous, CancelRow, Event, TerminalEvent,
       CloseDispatch, SetState,
       RowAgrees, StateAgrees, TokenAgrees, LeaseAgrees, InteractionAgrees,
       Announced,
       Present, Outstanding, Waiting, Terminal, InLane, Ambiguous, Row
<1>3. Calm(r, CancelRow(r)) /\ Move(r, CancelRow(r))
    BY DEF Calm, Move, CancelOK, CancelAmbiguous, CancelRow, Event, TerminalEvent,
       CloseDispatch, SetState,
       RowAgrees, StateAgrees, TokenAgrees,
       Present, Outstanding, Waiting, Terminal, InLane, Ambiguous, Row
<1>. QED  BY <1>1, <1>2, <1>3 DEF Sound

\* GetControl marks the cancellation notified.
LEMMA ControlSound ==
    ASSUME NEW r \in Row, NEW a \in Nat, RowAgrees(r), Announced(r),
           ControlOK(r, a)
    PROVE  /\ Sound(ControlRow(r)) /\ Calm(r, ControlRow(r))
           /\ Held(r, ControlRow(r)) /\ Move(r, ControlRow(r))
<1>1. ControlRow(r) \in Row
    BY RowValues DEF ControlRow, Row
<1>2. RowAgrees(ControlRow(r)) /\ Announced(ControlRow(r))
    BY OwnerAssumption
    DEF OwnerAssumption, ControlOK, ControlRow,
       RowAgrees, StateAgrees, TokenAgrees, LeaseAgrees, InteractionAgrees,
       Announced,
       Present, Outstanding, Waiting, Terminal, InLane, Ambiguous, Row
<1>3. /\ Calm(r, ControlRow(r)) /\ Held(r, ControlRow(r))
      /\ Move(r, ControlRow(r))
    BY DEF Calm, Held, Move, ControlOK, ControlRow,
       RowAgrees, StateAgrees, TokenAgrees,
       Present, Outstanding, Waiting, Terminal, InLane, Ambiguous, Row
<1>. QED  BY <1>1, <1>2, <1>3 DEF Sound

\* AcknowledgeCancel ends a canceling task.
LEMMA AckSound ==
    ASSUME NEW r \in Row, NEW a \in Nat, RowAgrees(r), Announced(r),
           AckOK(r, a)
    PROVE  /\ Sound(AckRow(r)) /\ Calm(r, AckRow(r))
           /\ Held(r, AckRow(r)) /\ Move(r, AckRow(r))
<1>1. AckRow(r) \in Row
    <2>1. SetState(r, "canceled") \in Row
        BY BlocksTyped, RowValues
    <2>2. [SetState(r, "canceled") EXCEPT !.cancel = "acknowledged"] \in Row
        BY <2>1, RowValues DEF Row
    <2>. QED  BY <2>2, BlocksTyped, RowValues DEF AckRow
<1>2. RowAgrees(AckRow(r)) /\ Announced(AckRow(r))
    BY OwnerAssumption
    DEF OwnerAssumption, AckOK, AckRow, TerminalEvent, CloseDispatch, SetState,
       RowAgrees, StateAgrees, TokenAgrees, LeaseAgrees, InteractionAgrees,
       Announced,
       Present, Outstanding, Waiting, Terminal, InLane, Ambiguous, Row
<1>3. /\ Calm(r, AckRow(r)) /\ Held(r, AckRow(r))
      /\ Move(r, AckRow(r))
    BY DEF Calm, Held, Move, AckOK, AckRow, TerminalEvent, CloseDispatch, SetState,
       RowAgrees, StateAgrees, TokenAgrees,
       Present, Outstanding, Waiting, Terminal, InLane, Ambiguous, Row
<1>. QED  BY <1>1, <1>2, <1>3 DEF Sound

-----------------------------------------------------------------------------
(* Time. *)

\* A clock changes nothing but what it is the clock of.
LEMMA LeaseExpiresSound ==
    ASSUME NEW r \in Row, RowAgrees(r), Announced(r), r.lease = "live"
    PROVE  /\ Sound(LeaseExpiresRow(r)) /\ Calm(r, LeaseExpiresRow(r))
           /\ Held(r, LeaseExpiresRow(r)) /\ Move(r, LeaseExpiresRow(r))
<1>1. LeaseExpiresRow(r) \in Row
    BY RowValues DEF LeaseExpiresRow, Row
<1>2. RowAgrees(LeaseExpiresRow(r)) /\ Announced(LeaseExpiresRow(r))
    BY OwnerAssumption
    DEF OwnerAssumption, LeaseExpiresRow,
       RowAgrees, StateAgrees, TokenAgrees, LeaseAgrees, InteractionAgrees,
       Announced,
       Present, Outstanding, Waiting, Terminal, InLane, Ambiguous, Row
<1>3. /\ Calm(r, LeaseExpiresRow(r)) /\ Held(r, LeaseExpiresRow(r))
      /\ Move(r, LeaseExpiresRow(r))
    BY DEF Calm, Held, Move, LeaseExpiresRow,
       RowAgrees, StateAgrees, TokenAgrees,
       Present, Outstanding, Waiting, Terminal, InLane, Ambiguous, Row
<1>. QED  BY <1>1, <1>2, <1>3 DEF Sound

\* A clock changes nothing but what it is the clock of.
LEMMA BackoffEndsSound ==
    ASSUME NEW r \in Row, RowAgrees(r), Announced(r)
    PROVE  /\ Sound(BackoffEndsRow(r)) /\ Calm(r, BackoffEndsRow(r))
           /\ Held(r, BackoffEndsRow(r)) /\ Move(r, BackoffEndsRow(r))
<1>1. BackoffEndsRow(r) \in Row
    BY RowValues DEF BackoffEndsRow, Row
<1>2. RowAgrees(BackoffEndsRow(r)) /\ Announced(BackoffEndsRow(r))
    BY OwnerAssumption
    DEF OwnerAssumption, BackoffEndsRow,
       RowAgrees, StateAgrees, TokenAgrees, LeaseAgrees, InteractionAgrees,
       Announced,
       Present, Outstanding, Waiting, Terminal, InLane, Ambiguous, Row
<1>3. /\ Calm(r, BackoffEndsRow(r)) /\ Held(r, BackoffEndsRow(r))
      /\ Move(r, BackoffEndsRow(r))
    BY DEF Calm, Held, Move, BackoffEndsRow,
       RowAgrees, StateAgrees, TokenAgrees,
       Present, Outstanding, Waiting, Terminal, InLane, Ambiguous, Row
<1>. QED  BY <1>1, <1>2, <1>3 DEF Sound

\* A clock changes nothing but what it is the clock of.
LEMMA InteractionDueSound ==
    ASSUME NEW r \in Row, RowAgrees(r), Announced(r)
    PROVE  /\ Sound(InteractionDueRow(r)) /\ Calm(r, InteractionDueRow(r))
           /\ Held(r, InteractionDueRow(r)) /\ Move(r, InteractionDueRow(r))
<1>1. InteractionDueRow(r) \in Row
    BY RowValues DEF InteractionDueRow, Row
<1>2. RowAgrees(InteractionDueRow(r)) /\ Announced(InteractionDueRow(r))
    BY OwnerAssumption
    DEF OwnerAssumption, InteractionDueRow,
       RowAgrees, StateAgrees, TokenAgrees, LeaseAgrees, InteractionAgrees,
       Announced,
       Present, Outstanding, Waiting, Terminal, InLane, Ambiguous, Row
<1>3. /\ Calm(r, InteractionDueRow(r)) /\ Held(r, InteractionDueRow(r))
      /\ Move(r, InteractionDueRow(r))
    BY DEF Calm, Held, Move, InteractionDueRow,
       RowAgrees, StateAgrees, TokenAgrees,
       Present, Outstanding, Waiting, Terminal, InLane, Ambiguous, Row
<1>. QED  BY <1>1, <1>2, <1>3 DEF Sound

\* A clock changes nothing but what it is the clock of.
LEMMA CancelDueSound ==
    ASSUME NEW r \in Row, RowAgrees(r), Announced(r)
    PROVE  /\ Sound(CancelDueRow(r)) /\ Calm(r, CancelDueRow(r))
           /\ Held(r, CancelDueRow(r)) /\ Move(r, CancelDueRow(r))
<1>1. CancelDueRow(r) \in Row
    BY RowValues DEF CancelDueRow, Row
<1>2. RowAgrees(CancelDueRow(r)) /\ Announced(CancelDueRow(r))
    BY OwnerAssumption
    DEF OwnerAssumption, CancelDueRow,
       RowAgrees, StateAgrees, TokenAgrees, LeaseAgrees, InteractionAgrees,
       Announced,
       Present, Outstanding, Waiting, Terminal, InLane, Ambiguous, Row
<1>3. /\ Calm(r, CancelDueRow(r)) /\ Held(r, CancelDueRow(r))
      /\ Move(r, CancelDueRow(r))
    BY DEF Calm, Held, Move, CancelDueRow,
       RowAgrees, StateAgrees, TokenAgrees,
       Present, Outstanding, Waiting, Terminal, InLane, Ambiguous, Row
<1>. QED  BY <1>1, <1>2, <1>3 DEF Sound

\* A clock changes nothing but what it is the clock of.
LEMMA DeadlineSound ==
    ASSUME NEW r \in Row, RowAgrees(r), Announced(r)
    PROVE  /\ Sound(DeadlineRow(r)) /\ Calm(r, DeadlineRow(r))
           /\ Held(r, DeadlineRow(r)) /\ Move(r, DeadlineRow(r))
<1>1. DeadlineRow(r) \in Row
    BY RowValues DEF DeadlineRow, Row
<1>2. RowAgrees(DeadlineRow(r)) /\ Announced(DeadlineRow(r))
    BY OwnerAssumption
    DEF OwnerAssumption, DeadlineRow,
       RowAgrees, StateAgrees, TokenAgrees, LeaseAgrees, InteractionAgrees,
       Announced,
       Present, Outstanding, Waiting, Terminal, InLane, Ambiguous, Row
<1>3. /\ Calm(r, DeadlineRow(r)) /\ Held(r, DeadlineRow(r))
      /\ Move(r, DeadlineRow(r))
    BY DEF Calm, Held, Move, DeadlineRow,
       RowAgrees, StateAgrees, TokenAgrees,
       Present, Outstanding, Waiting, Terminal, InLane, Ambiguous, Row
<1>. QED  BY <1>1, <1>2, <1>3 DEF Sound

\* A clock changes nothing but what it is the clock of.
LEMMA RetentionSound ==
    ASSUME NEW r \in Row, RowAgrees(r), Announced(r)
    PROVE  /\ Sound(RetentionRow(r)) /\ Calm(r, RetentionRow(r))
           /\ Held(r, RetentionRow(r)) /\ Move(r, RetentionRow(r))
<1>1. RetentionRow(r) \in Row
    BY RowValues DEF RetentionRow, Row
<1>2. RowAgrees(RetentionRow(r)) /\ Announced(RetentionRow(r))
    BY OwnerAssumption
    DEF OwnerAssumption, RetentionRow,
       RowAgrees, StateAgrees, TokenAgrees, LeaseAgrees, InteractionAgrees,
       Announced,
       Present, Outstanding, Waiting, Terminal, InLane, Ambiguous, Row
<1>3. /\ Calm(r, RetentionRow(r)) /\ Held(r, RetentionRow(r))
      /\ Move(r, RetentionRow(r))
    BY DEF Calm, Held, Move, RetentionRow,
       RowAgrees, StateAgrees, TokenAgrees,
       Present, Outstanding, Waiting, Terminal, InLane, Ambiguous, Row
<1>. QED  BY <1>1, <1>2, <1>3 DEF Sound

-----------------------------------------------------------------------------
(* The reconciler.  What its statements do to a row composes. *)

Swept(r, s) ==
    /\ s.turns = r.turns /\ s.token = r.token
    /\ s.disp \in InLane => r.disp \in InLane
    /\ \/ /\ s.state = r.state
          /\ s.cancel = "acknowledged" <=> r.cancel = "acknowledged"
       \/ r.state \in Outstanding /\ s.state = "failed"

\* Two statements in a row sweep like one.
LEMMA SweptTransitive ==
    ASSUME NEW r, NEW s, NEW q, Swept(r, s), Swept(s, q)
    PROVE  Swept(r, q)
BY DEF Swept, Outstanding, Waiting

\* A sweep is calm, and a move of the life cycle.
LEMMA SweptCalm ==
    ASSUME NEW r \in Row, NEW s \in Row, RowAgrees(r), Swept(r, s)
    PROVE  Calm(r, s) /\ Move(r, s)
<1>1. Calm(r, s)
    BY DEF Swept, Calm, Present, Outstanding, Terminal, Waiting
<1>2. Move(r, s)
    BY DEF Swept, Move
<1>. QED  BY <1>1, <1>2

\* An expired lease before the boundary is requeued.
LEMMA RequeueLeaseSound ==
    ASSUME NEW r \in Row, RowAgrees(r), Announced(r)
    PROVE  Sound(RequeueLease(r)) /\ Swept(r, RequeueLease(r))
<1>1. RequeueLease(r) \in Row
    BY RowValues DEF RequeueLease, ReleaseRow, Row
<1>2. RowAgrees(RequeueLease(r)) /\ Announced(RequeueLease(r))
    BY OwnerAssumption
    DEF OwnerAssumption, RequeueLease, ReleaseRow,
       RowAgrees, StateAgrees, TokenAgrees, LeaseAgrees, InteractionAgrees,
       Announced,
       Present, Outstanding, Waiting, Terminal, InLane, Ambiguous, Row
<1>3. Swept(r, RequeueLease(r))
    BY DEF Swept, RequeueLease, ReleaseRow, RowAgrees, StateAgrees,
       Present, Outstanding, Waiting, Terminal, InLane, Ambiguous, Row
<1>. QED  BY <1>1, <1>2, <1>3 DEF Sound

\* An attempt whose lease expired is closed, its queued task failed.
LEMMA CloseUnknownSound ==
    ASSUME NEW r \in Row, RowAgrees(r), Announced(r)
    PROVE  Sound(CloseUnknown(r)) /\ Swept(r, CloseUnknown(r))
<1>1. CloseUnknown(r) \in Row
    BY BlocksTyped, RowValues DEF CloseUnknown
<1>2. RowAgrees(CloseUnknown(r)) /\ Announced(CloseUnknown(r))
    BY OwnerAssumption
    DEF OwnerAssumption, CloseUnknown, TerminalEvent, CloseDispatch, FailTask, SetState,
       RowAgrees, StateAgrees, TokenAgrees, LeaseAgrees, InteractionAgrees,
       Announced,
       Present, Outstanding, Waiting, Terminal, InLane, Ambiguous, Row
<1>3. Swept(r, CloseUnknown(r))
    BY DEF Swept, CloseUnknown, TerminalEvent, CloseDispatch, FailTask, SetState,
       RowAgrees, StateAgrees,
       Present, Outstanding, Waiting, Terminal, InLane, Ambiguous, Row
<1>. QED  BY <1>1, <1>2, <1>3 DEF Sound

\* A task past its deadline fails.
LEMMA ExpireTaskSound ==
    ASSUME NEW r \in Row, RowAgrees(r), Announced(r)
    PROVE  Sound(ExpireTask(r)) /\ Swept(r, ExpireTask(r))
<1>1. ExpireTask(r) \in Row
    BY BlocksTyped, RowValues DEF ExpireTask
<1>2. RowAgrees(ExpireTask(r)) /\ Announced(ExpireTask(r))
    BY OwnerAssumption
    DEF OwnerAssumption, ExpireTask, TerminalEvent, CloseDispatch, FailTask, SetState,
       RowAgrees, StateAgrees, TokenAgrees, LeaseAgrees, InteractionAgrees,
       Announced,
       Present, Outstanding, Waiting, Terminal, InLane, Ambiguous, Row
<1>3. Swept(r, ExpireTask(r))
    BY DEF Swept, ExpireTask, TerminalEvent, CloseDispatch, FailTask, SetState,
       RowAgrees, StateAgrees,
       Present, Outstanding, Waiting, Terminal, InLane, Ambiguous, Row
<1>. QED  BY <1>1, <1>2, <1>3 DEF Sound

\* An unanswered interaction fails its task.
LEMMA ExpireInteractionSound ==
    ASSUME NEW r \in Row, RowAgrees(r), Announced(r)
    PROVE  Sound(ExpireInteraction(r)) /\ Swept(r, ExpireInteraction(r))
<1>1. ExpireInteraction(r) \in Row
    <2>1. TimeoutCode(r) \in FailureCodes
        BY RowValues DEF TimeoutCode
    <2>2. FailTask(r, TimeoutCode(r)) \in Row
        BY <2>1, BlocksTyped, RowValues
    <2>3. [FailTask(r, TimeoutCode(r)) EXCEPT !.inter = "expired",
                                              !.disp = "closed"] \in Row
        BY <2>2, RowValues DEF Row
    <2>. QED  BY <2>3, BlocksTyped, RowValues DEF ExpireInteraction
<1>2. RowAgrees(ExpireInteraction(r)) /\ Announced(ExpireInteraction(r))
    BY OwnerAssumption
    DEF OwnerAssumption, ExpireInteraction, TerminalEvent, FailTask, SetState,
       RowAgrees, StateAgrees, TokenAgrees, LeaseAgrees, InteractionAgrees,
       Announced,
       Present, Outstanding, Waiting, Terminal, InLane, Ambiguous, Row
<1>3. Swept(r, ExpireInteraction(r))
    BY DEF Swept, ExpireInteraction, TerminalEvent, FailTask, SetState,
       RowAgrees, StateAgrees,
       Present, Outstanding, Waiting, Terminal, InLane, Ambiguous, Row
<1>. QED  BY <1>1, <1>2, <1>3 DEF Sound

\* An unconfirmed cancellation fails its task.
LEMMA ExpireCancelSound ==
    ASSUME NEW r \in Row, RowAgrees(r), Announced(r)
    PROVE  Sound(ExpireCancel(r)) /\ Swept(r, ExpireCancel(r))
<1>1. ExpireCancel(r) \in Row
    <2>1. FailTask(r, "cancel_unconfirmed") \in Row
        BY BlocksTyped, RowValues
    <2>2. [FailTask(r, "cancel_unconfirmed") EXCEPT !.cancel = "closed"] \in Row
        BY <2>1, RowValues DEF Row
    <2>. QED  BY <2>2, BlocksTyped, RowValues DEF ExpireCancel
<1>2. RowAgrees(ExpireCancel(r)) /\ Announced(ExpireCancel(r))
    BY OwnerAssumption
    DEF OwnerAssumption, ExpireCancel, TerminalEvent, CloseDispatch, FailTask, SetState,
       RowAgrees, StateAgrees, TokenAgrees, LeaseAgrees, InteractionAgrees,
       Announced,
       Present, Outstanding, Waiting, Terminal, InLane, Ambiguous, Row
<1>3. Swept(r, ExpireCancel(r))
    BY DEF Swept, ExpireCancel, TerminalEvent, CloseDispatch, FailTask, SetState,
       RowAgrees, StateAgrees,
       Present, Outstanding, Waiting, Terminal, InLane, Ambiguous, Row
<1>. QED  BY <1>1, <1>2, <1>3 DEF Sound

\* The control record of a finished task is closed.
LEMMA CloseCancelSound ==
    ASSUME NEW r \in Row, RowAgrees(r), Announced(r)
    PROVE  Sound(CloseCancel(r)) /\ Swept(r, CloseCancel(r))
<1>1. CloseCancel(r) \in Row
    BY RowValues DEF CloseCancel, Row
<1>2. RowAgrees(CloseCancel(r)) /\ Announced(CloseCancel(r))
    BY OwnerAssumption
    DEF OwnerAssumption, CloseCancel,
       RowAgrees, StateAgrees, TokenAgrees, LeaseAgrees, InteractionAgrees,
       Announced,
       Present, Outstanding, Waiting, Terminal, InLane, Ambiguous, Row
<1>3. Swept(r, CloseCancel(r))
    BY DEF Swept, CloseCancel, RowAgrees, StateAgrees,
       Present, Outstanding, Waiting, Terminal, InLane, Ambiguous, Row
<1>. QED  BY <1>1, <1>2, <1>3 DEF Sound

\* Deletion asks for a finished task past its retention.
LEMMA DeleteSound ==
    ASSUME NEW r \in Row, RowAgrees(r), Announced(r)
    PROVE  \/ DeleteRetained(r) = r
           \/ /\ r.state \in Terminal /\ Sound(DeleteRetained(r))
              /\ DeleteRetained(r).state = "deleted" /\ DeleteRetained(r).token = 0
<1>. DEFINE gone == [AbsentRow EXCEPT !.state = "deleted"]
<1>1. gone \in Row
    BY RowValues DEF AbsentRow, Row
<1>2. RowAgrees(gone) /\ Announced(gone)
    BY DEF AbsentRow, RowAgrees, StateAgrees, TokenAgrees, LeaseAgrees,
       InteractionAgrees, Announced, Terminal, Waiting, InLane, Ambiguous
<1>3. gone.state = "deleted" /\ gone.token = 0
    BY DEF AbsentRow
<1>. QED  BY <1>1, <1>2, <1>3 DEF DeleteRetained, Sound

\* A reconciler run sweeps a row, or deletes it after its retention.
LEMMA ReconcileSound ==
    ASSUME NEW r \in Row, RowAgrees(r), Announced(r), NEW s \in ReconcileRows(r)
    PROVE  /\ Sound(s) /\ Move(r, s)
           /\ \/ Calm(r, s)
              \/ r.state \in Present /\ s.state = "deleted"
<1>. DEFINE Good(S) == \A x \in S : Sound(x) /\ Swept(r, x)
            s1 == {r, RequeueLease(r)}
            s2 == s1 \cup {CloseUnknown(x) : x \in s1}
            s3 == s2 \cup {ExpireTask(x) : x \in s2}
            s4 == s3 \cup {ExpireInteraction(x) : x \in s3}
            s5 == s4 \cup {ExpireCancel(x) : x \in s4}
            s6 == s5 \cup {CloseCancel(x) : x \in s5}
<1>1. Good(s1)
    BY RequeueLeaseSound DEF Sound, Swept
<1>2. Good(s2)
    <2>. HIDE DEF s1
    <2>. QED  BY <1>1, CloseUnknownSound, SweptTransitive DEF Sound
<1>3. Good(s3)
    <2>. HIDE DEF s2
    <2>. QED  BY <1>2, ExpireTaskSound, SweptTransitive DEF Sound
<1>4. Good(s4)
    <2>. HIDE DEF s3
    <2>. QED  BY <1>3, ExpireInteractionSound, SweptTransitive DEF Sound
<1>5. Good(s5)
    <2>. HIDE DEF s4
    <2>. QED  BY <1>4, ExpireCancelSound, SweptTransitive DEF Sound
<1>6. Good(s6)
    <2>. HIDE DEF s5
    <2>. QED  BY <1>5, CloseCancelSound, SweptTransitive DEF Sound
<1>7. s \in s6 \/ \E x \in s6 : s = DeleteRetained(x)
    BY DEF ReconcileRows
<1>. HIDE DEF s6
<1>8. CASE s \in s6
    BY <1>6, <1>8, SweptCalm DEF Sound
<1>9. CASE s \notin s6
    <2>1. PICK x \in s6 : s = DeleteRetained(x)
        BY <1>7, <1>9
    <2>2. Sound(x) /\ Swept(r, x)
        BY <1>6
    <2>3. /\ x.state \in Terminal /\ Sound(s)
          /\ s.state = "deleted" /\ s.token = 0
        BY <1>9, <2>1, <2>2, DeleteSound DEF Sound
    <2>4. r.state \in Present
        BY <2>2, <2>3 DEF Swept, Present, Outstanding, Terminal
    <2>. QED  BY <2>3, <2>4 DEF Move
<1>. QED  BY <1>8, <1>9
=============================================================================
