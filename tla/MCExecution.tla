---------------------------- MODULE MCExecution ----------------------------
(***************************************************************************)
(* The order loop of the live controller and the sizing of its orders, each*)
(* against every answer of the other: a behaviour is one of a single       *)
(* component.                                                              *)
(***************************************************************************)
EXTENDS LiveExecution, ExecutionSizing

VARIABLE component  \* the one whose behaviour this is

allVars == <<component, vars, sizingVars>>

\* Two sells before a buy.
SellsThenBuy == <<"SELL", "SELL", "BUY">>

ASSUME ExecutionAssumption ==
    /\ DeadlineAssumption /\ WindowAssumption /\ PlanAssumption
    /\ ProviderAssumption /\ SizingAssumption /\ FeeAssumption

-----------------------------------------------------------------------------
\* The others rest in an initial state.
MCInit ==
    /\ component \in {"live", "sizing"}
    /\ Init /\ SizingInit
    /\ component # "sizing" =>
        /\ cash = 0 /\ ~freeze /\ held = [s \in Symbols |-> 0]
        /\ price = [s \in Symbols |-> 1]
        /\ order = [s \in Symbols |-> [side |-> "BUY", weight |-> 0]]

LiveStep ==
    /\ component = "live" /\ Next
    /\ UNCHANGED <<component, sizingVars>>

SizingStep ==
    /\ component = "sizing" /\ SizingNext
    /\ UNCHANGED <<component, vars>>

MCNext == LiveStep \/ SizingStep

MCSpec == MCInit /\ [][MCNext]_allVars

=============================================================================
