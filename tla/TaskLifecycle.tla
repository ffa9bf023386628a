--------------------------- MODULE TaskLifecycle ---------------------------
(***************************************************************************)
(* What durable tasks promise the callers of the tasks API, without        *)
(* workers, leases, retries or attempts.  Each task has a phase, the state *)
(* the API reports, and is exposed or not: whether the prompt of its       *)
(* current turn may have reached the agent.                                *)
(*                                                                         *)
(* The vocabulary of phases is that of pkg/taskstore/store.go.  A step     *)
(* moves any number of tasks, since one reconciler transaction sweeps      *)
(* many, but each of them by one of the moves below or not at all.         *)
(***************************************************************************)
CONSTANT Tasks

VARIABLES phase, exposed

Paused == {"input_required", "auth_required"}
Active == {"queued", "dispatched", "canceling"} \cup Paused
Final  == {"canceled", "completed", "failed", "rejected"}
Phases == Active \cup Final \cup {"absent", "deleted"}

Move(t, from, to) == phase[t] \in from /\ phase'[t] \in to

Submit(t) == Move(t, {"absent"}, {"queued"}) /\ exposed[t] = exposed'[t]

\* The turn crosses the ambiguity boundary, once.
Expose(t) ==
    Move(t, {"queued"}, {"queued"}) /\ ~exposed[t] /\ exposed'[t]

Start(t) ==
    Move(t, {"queued"}, {"dispatched"}) /\ exposed[t] /\ exposed'[t]

Pause(t)  == Move(t, {"dispatched"}, Paused) /\ exposed[t] /\ exposed'[t]
\* A resumed task is a new turn, not exposed yet.
Resume(t) == Move(t, Paused, {"queued"}) /\ ~exposed'[t]

\* A turn that may be running is asked to stop; one that cannot be is
\* canceled at once.
RequestCancel(t) ==
    /\ Move(t, {"queued", "dispatched"}, {"canceling"})
    /\ exposed[t] /\ exposed'[t]
Withdraw(t) ==
    /\ Move(t, {"queued"} \cup Paused, {"canceled"})
    /\ phase[t] = "queued" => ~exposed[t]
    /\ exposed[t] = exposed'[t]
ConfirmCancel(t) ==
    Move(t, {"canceling"}, {"canceled"}) /\ exposed[t] /\ exposed'[t]

\* Only the agent completes or rejects, and only what it was given.
Finish(t) ==
    /\ Move(t, {"dispatched", "canceling"}, {"completed"})
    /\ exposed[t] /\ exposed'[t]
Refuse(t) == Move(t, {"dispatched"}, {"rejected"}) /\ exposed[t] /\ exposed'[t]

Fail(t) == Move(t, Active, {"failed"}) /\ exposed[t] = exposed'[t]

\* Retention: the sweep that fails a task may also delete it.
Forget(t) == Move(t, Active \cup Final, {"deleted"}) /\ ~exposed'[t]

Step(t) ==
    \/ Submit(t) \/ Expose(t) \/ Start(t) \/ Pause(t) \/ Resume(t)
    \/ RequestCancel(t) \/ Withdraw(t) \/ ConfirmCancel(t)
    \/ Finish(t) \/ Refuse(t) \/ Fail(t) \/ Forget(t)

Stays(t) == phase'[t] = phase[t] /\ exposed'[t] = exposed[t]

Init ==
    /\ phase = [t \in Tasks |-> "absent"]
    /\ exposed = [t \in Tasks |-> FALSE]

Next == \A t \in Tasks : Step(t) \/ Stays(t)

Spec == Init /\ [][Next]_<<phase, exposed>>
=============================================================================
