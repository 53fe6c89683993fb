---------------------------- MODULE PlanRegistry ----------------------------
(***************************************************************************)
(* What the plan store promises its readers: per plan, a history of        *)
(* documents that only grows, one revision at a time, the last one being   *)
(* the current plan.                                                       *)
(***************************************************************************)
EXTENDS Naturals, Sequences

CONSTANTS Id, Document

VARIABLE history

Init == history = [id \in Id |-> << >>]

Publish(id, doc) ==
    /\ doc.rev = Len(history[id]) + 1
    /\ history' = [history EXCEPT ![id] = Append(@, doc)]

Next == \E id \in Id, doc \in Document : Publish(id, doc)

Spec == Init /\ [][Next]_history

=============================================================================
