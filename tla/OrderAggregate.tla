--------------------------- MODULE OrderAggregate ---------------------------
(***************************************************************************)
(* The order aggregate of src/firmquant/domain/orders.py: its state        *)
(* machine and the effect of every order event.  The aggregate is a value  *)
(* here, as it is in the code (a frozen dataclass); OrderLedger makes it   *)
(* durable.                                                                *)
(*                                                                         *)
(* Abstractions.  Shares are counted in fill units: the broker executes an *)
(* order of Requested units one unit at a time, so the retained fills are  *)
(* the prefix 1..filled and "filled" stands for both filled_shares and the *)
(* fill tuple.  Fingerprints, anomalies, prices and versions are left out. *)
(* A raised exception is the value of "err": "transition" stands for       *)
(* DomainTransitionError, "conflict" for PersistenceConflict; a           *)
(* transaction that ends with err # "" is rolled back by its caller.       *)
(***************************************************************************)
EXTENDS Naturals

CONSTANTS
    Requested,   \* requested_shares, in fill units
    FillSeq      \* FillSeq[n]: event_sequence of the n-th fill of the order

ASSUME RequestedAssumption == Requested \in Nat \ {0}
ASSUME FillSeqAssumption ==
    /\ FillSeq \in [1..Requested -> Nat]
    /\ \A n \in 2..Requested : FillSeq[n-1] <= FillSeq[n]

\* OrderState; "NONE" is the absence of a row in execution_intents.
OrderState == {"NONE", "PLANNED", "VALIDATED", "ARMED", "SUBMITTING",
               "ACKNOWLEDGED", "PARTIALLY_FILLED", "FILLED",
               "CANCEL_REQUESTED", "CANCELLED", "REJECTED", "EXPIRED",
               "UNKNOWN"}

TERMINAL_ORDER_STATES == {"FILLED", "CANCELLED", "REJECTED", "EXPIRED"}

OpenStates == {"ACKNOWLEDGED", "PARTIALLY_FILLED"}

UnresolvedStates == {"SUBMITTING", "CANCEL_REQUESTED", "UNKNOWN"}

BrokerOutcomes == {"PARTIALLY_FILLED", "FILLED", "CANCELLED", "REJECTED"}

ORDER_TRANSITIONS(s) ==
    CASE s = "PLANNED"          -> {"VALIDATED", "EXPIRED"}
      [] s = "VALIDATED"        -> {"ARMED", "EXPIRED"}
      [] s = "ARMED"            -> {"SUBMITTING", "EXPIRED"}
      [] s = "SUBMITTING"       -> BrokerOutcomes \cup {"ARMED", "ACKNOWLEDGED", "UNKNOWN"}
      [] s = "ACKNOWLEDGED"     -> BrokerOutcomes \cup {"CANCEL_REQUESTED", "EXPIRED", "UNKNOWN"}
      [] s = "PARTIALLY_FILLED" -> {"FILLED", "CANCEL_REQUESTED", "CANCELLED",
                                    "REJECTED", "EXPIRED", "UNKNOWN"}
      [] s = "CANCEL_REQUESTED" -> BrokerOutcomes \cup {"ACKNOWLEDGED", "EXPIRED", "UNKNOWN"}
      [] s = "UNKNOWN"          -> BrokerOutcomes \cup {"ARMED", "ACKNOWLEDGED", "EXPIRED"}
      [] OTHER                  -> {}

\* bid: the broker order id is known; late: late_fill_investigation_required;
\* seen, acked, unclear: the part of applied_events that can still recur.
NoAggregate == [state |-> "NONE", bid |-> FALSE, filled |-> 0, late |-> FALSE,
                seen |-> {}, acked |-> 0, unclear |-> 0, err |-> ""]

-----------------------------------------------------------------------------
Raise(a, kind) == [a EXCEPT !.err = kind]

\* OrderAggregate._updated: move to target, or raise when the move is illegal.
Updated(a, target) ==
    IF target = a.state \/ target \in ORDER_TRANSITIONS(a.state)
    THEN [a EXCEPT !.state = target]
    ELSE Raise(a, "transition")

\* OrderAggregate._event_seen: an event id is applied at most once.  Of the
\* applied ids the model keeps those that can come again: "seen" holds the
\* (attempt, diagnostic) ids of outcome-unknown events, "acked" and "unclear"
\* the broker sequence of the latest acknowledgement and of the latest
\* unclear status (a recorded sequence never goes back, so an older one
\* cannot recur).  The terminal events change nothing the second time, and
\* the other ids are fresh whenever they are used.
Once(a, id, next) ==
    IF a.err # "" \/ id \in a.seen THEN a
    ELSE [next EXCEPT !.seen = @ \cup {id}]

\* from_intent followed by OrderValidated and OrderArmed (validate_and_arm),
\* which _new_aggregate runs in one transaction.
ArmedAggregate == [NoAggregate EXCEPT !.state = "ARMED"]

SubmitStarted(a) == Updated(a, "SUBMITTING")

SubmitNotAccepted(a) ==
    IF a.state = "SUBMITTING" THEN Updated(a, "ARMED") ELSE Raise(a, "transition")

UnknownResolvedNotAccepted(a) == Updated(a, "ARMED")

ToUnknown(a) ==
    Updated(a, IF a.state \in TERMINAL_ORDER_STATES THEN a.state ELSE "UNKNOWN")

SubmitOutcomeUnknown(a, id) == Once(a, id, ToUnknown(a))

\* SubmitOutcomeUnknown again, with the event id of reconcile_broker_fact.
StatusUnknown(a, seq) ==
    IF a.err # "" \/ seq = a.unclear THEN a
    ELSE [ToUnknown(a) EXCEPT !.unclear = seq]

BrokerAcknowledged(a, seq) ==
    IF a.err # "" \/ seq = a.acked THEN a
    ELSE [Updated(a, IF a.state \in TERMINAL_ORDER_STATES \cup OpenStates
                                    \cup {"CANCEL_REQUESTED"}
                     THEN a.state ELSE "ACKNOWLEDGED")
          EXCEPT !.bid = TRUE, !.acked = seq]

\* Mutant: a late fill reopens a cancelled order.
FillReopensTerminal(a, k) ==
    IF a.err # "" \/ k <= a.filled THEN a
    ELSE [a EXCEPT !.state = IF k = Requested THEN "FILLED" ELSE "PARTIALLY_FILLED",
                   !.filled = k, !.bid = TRUE]

\* The fills a.filled+1..k, applied in execution order (_apply_fill).  Fills
\* are keyed by broker_fill_id, so a repeated fill changes nothing.
FillReported(a, k) ==
    IF a.err # "" \/ k <= a.filled THEN a
    ELSE IF a.state \in {"NONE", "PLANNED", "VALIDATED", "ARMED"} \/ k > Requested
    THEN Raise(a, "transition")
    ELSE IF a.state \in {"CANCELLED", "REJECTED", "EXPIRED"}
    THEN [a EXCEPT !.filled = k, !.bid = TRUE, !.late = TRUE]
    ELSE [Updated(a, IF k = Requested THEN "FILLED"
                     ELSE IF a.state = "CANCEL_REQUESTED" THEN "CANCEL_REQUESTED"
                     ELSE "PARTIALLY_FILLED") EXCEPT !.filled = k, !.bid = TRUE]

CancelRequested(a) ==
    IF a.bid THEN Updated(a, "CANCEL_REQUESTED") ELSE Raise(a, "transition")

\* Mutant: a refused cancel always goes back to PARTIALLY_FILLED.
CancelNotAcceptedForgetsFills(a) ==
    IF a.state = "CANCEL_REQUESTED" THEN Updated(a, "PARTIALLY_FILLED")
    ELSE Raise(a, "transition")

CancelNotAccepted(a) ==
    IF a.state = "CANCEL_REQUESTED"
    THEN Updated(a, IF a.filled > 0 THEN "PARTIALLY_FILLED" ELSE "ACKNOWLEDGED")
    ELSE Raise(a, "transition")

CancelOutcomeUnknown(a, id) ==
    Once(a, id, IF a.state \in OpenStates \cup {"CANCEL_REQUESTED", "UNKNOWN"}
                THEN Updated(a, "UNKNOWN") ELSE Raise(a, "transition"))

CancelConfirmed(a) ==
    IF a.err # "" THEN a
    ELSE [Updated(a, IF a.state = "FILLED" THEN "FILLED" ELSE "CANCELLED")
          EXCEPT !.bid = TRUE]

BrokerRejected(a) ==
    IF a.err # "" THEN a
    ELSE Updated(a, IF a.state \in TERMINAL_ORDER_STATES THEN a.state ELSE "REJECTED")

OrderExpired(a) == IF a.err # "" THEN a ELSE Updated(a, "EXPIRED")

=============================================================================
