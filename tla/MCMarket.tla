------------------------------ MODULE MCMarket ------------------------------
(***************************************************************************)
(* The market as the system sees it: its data, its calendar, and the paper *)
(* broker a rehearsal trades with.  They share no variable: a behaviour is *)
(* one of a single component.                                              *)
(***************************************************************************)
EXTENDS DataGenerations, CalendarUpdate, PaperBroker

VARIABLE component  \* the one whose behaviour this is

allVars == <<component, vars, calendarVars, paperVars>>

ASSUME MarketAssumption ==
    /\ DataAssumption /\ NoneAssumption
    /\ CalendarAssumption /\ PaperAssumption

-----------------------------------------------------------------------------
\* The others rest in an initial state.
MCInit ==
    /\ component \in {"data", "calendar", "paper"}
    /\ Init /\ CalendarInit /\ PaperInit
    /\ component # "calendar" => calendar = [from |-> 1, through |-> 1, sessions |-> {1}]
    /\ component # "paper" => quote = [price |-> 2, volume |-> 4, open |-> TRUE]

DataStep ==
    /\ component = "data" /\ Next
    /\ UNCHANGED <<component, calendarVars, paperVars>>

CalendarStep ==
    /\ component = "calendar" /\ CalendarNext
    /\ UNCHANGED <<component, vars, paperVars>>

PaperStep ==
    /\ component = "paper" /\ PaperNext
    /\ UNCHANGED <<component, vars, calendarVars>>

MCNext == DataStep \/ CalendarStep \/ PaperStep

MCSpec == MCInit /\ [][MCNext]_allVars
=============================================================================
