----------------------------- MODULE MCControl -----------------------------
(***************************************************************************)
(* What moves the daemon's loop: control requests, in a production mode and*)
(* in a rehearsal, the session workflows, and the broker's callbacks.  A   *)
(* behaviour is one of a single component.                                 *)
(***************************************************************************)
EXTENDS RuntimeControl, SessionWorkflow, BrokerEvents, TLC

VARIABLE component  \* the one whose behaviour this is

allVars == <<component, vars, workflowVars, pumpVars>>

Rehearsal == INSTANCE RuntimeControl WITH Production <- FALSE

ASSUME ControlAssumption ==
    /\ ReqAssumption /\ ModeAssumption /\ Rehearsal!ModeAssumption
    /\ SessionAssumption /\ EventAssumption /\ BoundAssumption

-----------------------------------------------------------------------------
\* The others rest in an initial state.
MCInit ==
    /\ component \in {"production", "rehearsal", "workflow", "pump"}
    /\ Init /\ WorkflowInit /\ PumpInit

ProductionStep ==
    /\ component = "production" /\ Next
    /\ UNCHANGED <<component, workflowVars, pumpVars>>

RehearsalStep ==
    /\ component = "rehearsal" /\ Rehearsal!Next
    /\ UNCHANGED <<component, workflowVars, pumpVars>>

SessionStep ==
    /\ component = "workflow" /\ WorkflowNext
    /\ UNCHANGED <<component, vars, pumpVars>>

PumpStep ==
    /\ component = "pump" /\ PumpNext
    /\ UNCHANGED <<component, vars, workflowVars>>

MCNext == ProductionStep \/ RehearsalStep \/ SessionStep \/ PumpStep

MCSpec == MCInit /\ [][MCNext]_allVars

\* Requests are told apart by their commands only.
Symmetry == Permutations(Req)
=============================================================================
