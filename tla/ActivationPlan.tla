--------------------------- MODULE ActivationPlan ---------------------------
(***************************************************************************)
(* What the flow time wheel promises its only client, the flow service:    *)
(* a partial map from flows to activation moments, each activation waiting *)
(* until the wheel hands it out or it is cancelled.  The wheel remembers   *)
(* the moment of a flow it has already handed out: such a flow stays       *)
(* planned (it can be cancelled, and only an earlier moment re-plans it),  *)
(* it is just no longer waiting.                                           *)
(*                                                                         *)
(* The module has no heap: FlowTimeWheel is the data structure and is      *)
(* shown to implement this specification; FlowService uses these actions.  *)
(***************************************************************************)
EXTENDS Naturals

CONSTANTS FlowIds, Times


VARIABLES plan,      \* FlowId -> moment it was last planned for, or NotPlanned
          waiting    \* planned flows not handed out yet

planVars == <<plan, waiting>>

NotPlanned == 0         \* no moment of the model is 0

IsPlanned(f) == plan[f] # NotPlanned

PlanTypeOK ==
    /\ plan \in [FlowIds -> Times \cup {NotPlanned}]
    /\ waiting \subseteq {f \in FlowIds : IsPlanned(f)}

PlanInit ==
    /\ plan = [f \in FlowIds |-> NotPlanned]
    /\ waiting = {}

\* The moment every waiting flow is at or after.
IsNearest(m) ==
    /\ \E f \in waiting : plan[f] = m
    /\ \A f \in waiting : m <= plan[f]

\* A planned flow only moves to an earlier moment; any other request is ignored.
Activate(f, t) ==
    IF IsPlanned(f) => t < plan[f]
    THEN /\ plan' = [plan EXCEPT ![f] = t]
         /\ waiting' = waiting \cup {f}
    ELSE UNCHANGED planVars

Cancel(f) ==
    /\ IsPlanned(f)
    /\ plan' = [plan EXCEPT ![f] = NotPlanned]
    /\ waiting' = waiting \ {f}

DueAt(m) == {f \in waiting : plan[f] = m}

\* Hands out every flow due at the nearest moment.
Take(m) ==
    /\ IsNearest(m)
    /\ waiting' = waiting \ DueAt(m)
    /\ UNCHANGED plan

PlanNext ==
    \/ \E f \in FlowIds, t \in Times : Activate(f, t)
    \/ \E f \in FlowIds : Cancel(f)
    \/ \E m \in Times : Take(m)

PlanSpec == PlanInit /\ [][PlanNext]_planVars

=============================================================================
