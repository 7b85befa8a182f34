--------------------------- MODULE AgreementRegister ---------------------------
(***************************************************************************)
(* What the agreement lifecycle promises about a member's current agreement:*)
(* there is at most one, and one that has been retired never comes back.    *)
(***************************************************************************)
CONSTANTS Members, Agreements

VARIABLES current,  \* the agreements marked current, per member
          retired   \* the agreements that were current once

vars == <<current, retired>>

Init ==
    /\ current = [m \in Members |-> {}]
    /\ retired = {}

Unused(a) == a \notin retired /\ \A m \in Members : a \notin current[m]

Install(m, a) ==
    /\ current[m] = {}
    /\ Unused(a)
    /\ current' = [current EXCEPT ![m] = {a}]
    /\ UNCHANGED retired

Retire(m) ==
    /\ current[m] # {}
    /\ current' = [current EXCEPT ![m] = {}]
    /\ retired' = retired \cup current[m]

Replace(m, a) ==
    /\ current[m] # {}
    /\ Unused(a)
    /\ current' = [current EXCEPT ![m] = {a}]
    /\ retired' = retired \cup current[m]

Next ==
    \/ \E m \in Members, a \in Agreements : Install(m, a) \/ Replace(m, a)
    \/ \E m \in Members : Retire(m)

Spec == Init /\ [][Next]_vars
=============================================================================
