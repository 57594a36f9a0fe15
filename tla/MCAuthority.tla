---------------------------- MODULE MCAuthority ----------------------------
(***************************************************************************)
(* What the right to trade rests on: evidence of earlier sessions, and an  *)
(* account that agrees with the broker.  They share no variable: a         *)
(* behaviour is one of a single component.                                 *)
(***************************************************************************)
EXTENDS AccountReconciliation, PromotionEvidence

VARIABLE component  \* the one whose behaviour this is

allVars == <<component, vars, promotionVars>>

\* Evidence with an order placed outside the system, and no crash.
Outside == INSTANCE PromotionEvidence WITH MaxCrashes <- 0, MaxForeign <- 1

ASSUME AuthorityAssumption ==
    /\ PromotionAssumption /\ Outside!PromotionAssumption
    /\ ReconciliationAssumption

-----------------------------------------------------------------------------
\* The others rest in an initial state.
MCInit ==
    /\ component \in {"account", "evidence", "foreign"}
    /\ Init /\ PromotionInit

AccountStep ==
    /\ component = "account" /\ Next
    /\ UNCHANGED <<component, promotionVars>>

EvidenceStep ==
    /\ component = "evidence" /\ PromotionNext
    /\ UNCHANGED <<component, vars>>

ForeignStep ==
    /\ component = "foreign" /\ Outside!PromotionNext
    /\ UNCHANGED <<component, vars>>

MCNext == AccountStep \/ EvidenceStep \/ ForeignStep

MCSpec == MCInit /\ [][MCNext]_allVars
=============================================================================
