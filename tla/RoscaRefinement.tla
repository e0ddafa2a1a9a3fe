-------------------------- MODULE RoscaRefinement --------------------------
(***************************************************************************)
(* The pallet implements SavingsCircles.                                   *)
(***************************************************************************)
EXTENDS RoscaProperties

phaseOf(c) ==
    IF Completed(c) THEN "over"
    ELSE IF Active(c) THEN "running"
    ELSE IF Pending(c) THEN "forming" ELSE "unused"

\* The k-th turn after the present one: RotateRight takes the next claimant
\* from the end of the active order, one contribution_frequency later.
turnOf(c, k) ==
    [who |-> IF k = 0 THEN c.eligible_claimant
             ELSE c.active_order[Len(c.active_order) - k + 1],
     by  |-> c.next_pay_by + k * c.active_roscas.contribution_frequency]

aheadOf(c) ==
    IF Active(c)
    THEN {turnOf(c, k) : k \in {j \in 0..(Len(c.active_order) - 1) :
              c.next_pay_by + j * c.active_roscas.contribution_frequency <= c.final_pay_by}}
    ELSE {}

\* The variables of SavingsCircles.
phases == [id \in RoscaIds |-> phaseOf(circle[id])]
groups == [id \in RoscaIds |-> Members(circle[id])]
aheads == [id \in RoscaIds |-> aheadOf(circle[id])]

Abstract ==
    INSTANCE SavingsCircles WITH
        Ids     <- RoscaIds,
        People  <- Accounts,
        phase   <- phases,
        members <- groups,
        ahead   <- aheads

\* Whatever the order of calls, and however many rounds one call closes, the
\* circles go through their phases as SavingsCircles says: the members change
\* only while the circle forms, every member gets exactly one turn and nobody
\* else does, turns go by in the order of the cutoffs fixed at the start, at
\* most one of them in a call before its cutoff, and the circle is not over
\* before all of them have gone by.
ImplementsSavingsCircles == Abstract!Spec

=============================================================================
