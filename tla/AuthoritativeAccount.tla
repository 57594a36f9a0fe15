------------------------ MODULE AuthoritativeAccount ------------------------
(***************************************************************************)
(* What the account file promises the rest of the system: it changes in    *)
(* atomic steps of exactly two kinds.  A reconciliation replaces the       *)
(* broker's facts and vouches for the result in the same step; a decision  *)
(* that was frozen on the present account state advances it, so no         *)
(* decision is applied twice, to another state or before it is frozen.     *)
(***************************************************************************)
EXTENDS Naturals

CONSTANTS Sessions, Facts

VARIABLES account, certified, decided

NotDecided == [before |-> [facts |-> 0, dec |-> 0], after |-> [facts |-> 0, dec |-> 0]]

Init ==
    /\ account = [facts |-> 0, dec |-> 0]
    /\ certified = {}
    /\ decided = [s \in Sessions |-> NotDecided]

Reconcile(v) ==
    /\ account' = [account EXCEPT !.facts = v]
    /\ certified' = certified \cup {account'}
    /\ UNCHANGED decided

Freeze(s) ==
    /\ decided[s] = NotDecided
    /\ decided' = [decided EXCEPT
                     ![s] = [before |-> account, after |-> [account EXCEPT !.dec = s]]]
    /\ UNCHANGED <<account, certified>>

Apply(s) ==
    /\ decided[s] # NotDecided /\ account = decided[s].before
    /\ account' = decided[s].after
    /\ UNCHANGED <<certified, decided>>

Next ==
    \/ \E v \in Facts : Reconcile(v)
    \/ \E s \in Sessions : Freeze(s) \/ Apply(s)

Spec == Init /\ [][Next]_<<account, certified, decided>>

=============================================================================
