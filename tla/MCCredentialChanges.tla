------------------------ MODULE MCCredentialChanges ------------------------
(* Two changes by two administrators, or one posted twice, as by a client    *)
(* whose answer was lost. Each side can lock the other or itself out.        *)
EXTENDS CredentialChanges, TLC

CONSTANTS k1, k2

MCOpsOf == [p \in Posts |-> 1..p]

MCChange(action, target, policy, actor) ==
    [action |-> action, target |-> target, policy |-> policy, actor |-> actor]
MCExpiring == [administrator |-> TRUE, expires |-> TRUE]
MCRestricted == [administrator |-> FALSE, expires |-> FALSE]

MCAsked ==
    (1 :> {MCChange("revoke", k2, None, k1), MCChange("create", 1, MCRestricted, k1)}) @@
    (2 :> {MCChange("revoke", k1, None, k2), MCChange("update", k1, MCExpiring, k1)})

=============================================================================
