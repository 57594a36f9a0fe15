------------------------- MODULE OrderLedgerProofs -------------------------
(***************************************************************************)
(* Proofs about OrderLedger for every Requested, FillSeq, MaxAttempts and  *)
(* BrokerStatuses.                                                         *)
(***************************************************************************)
EXTENDS OrderLedger, TLAPS

-----------------------------------------------------------------------------
(* The aggregate.                                                          *)

\* The values an aggregate takes while a transaction runs: err may be set.
AnyAggregate ==
    [state : OrderState, bid : BOOLEAN, filled : 0..Requested, late : BOOLEAN,
     seen : SUBSET (Attempts \X Diagnostics), acked : Nat, unclear : Nat,
     err : {"", "transition", "conflict"}]

WellFormed(a) ==
    /\ a \in AnyAggregate
    /\ a.state \in OpenStates \cup {"CANCEL_REQUESTED"} => a.bid
    /\ a.state = "FILLED" => a.filled = Requested
    /\ a.filled = Requested => a.state \in TERMINAL_ORDER_STATES
    /\ a.state = "PARTIALLY_FILLED" => a.filled > 0

\* What every operation of the aggregate respects: it drops no fill, leaves no
\* terminal state, and enters NONE, ARMED or a terminal state only if it is in S.
Evolves(a, b, S) ==
    /\ WellFormed(b)
    /\ a.filled <= b.filled
    /\ a.bid => b.bid
    /\ a.state \in TERMINAL_ORDER_STATES => b.state = a.state
    /\ b.state \in {"NONE", "ARMED"} \cup TERMINAL_ORDER_STATES =>
           b.state = a.state \/ b.state \in S

LEMMA RequestedNat == Requested \in Nat /\ Requested > 0
  BY RequestedAssumption

LEMMA SequenceType ==
    ASSUME NEW f \in Fact
    PROVE  _order_sequence(f) \in Nat
  BY RequestedNat DEF Fact, _order_sequence, _STATUS_RANK

LEMMA TransitionsOfTerminal ==
    ASSUME NEW s \in TERMINAL_ORDER_STATES
    PROVE  ORDER_TRANSITIONS(s) = {}
  BY DEF ORDER_TRANSITIONS, TERMINAL_ORDER_STATES

LEMMA AggregateTypes ==
    ASSUME NEW a \in AnyAggregate
    PROVE  /\ a.state \in OrderState /\ a.bid \in BOOLEAN
           /\ a.filled \in Nat /\ a.filled <= Requested
  <1>1. a.state \in OrderState /\ a.filled \in 0..Requested
    BY DEF AnyAggregate
  <1>2. a.bid \in BOOLEAN
    BY DEF AnyAggregate
  <1>. QED  BY <1>1, <1>2, RequestedNat

LEMMA RaiseType ==
    ASSUME NEW a \in AnyAggregate, NEW kind \in {"transition", "conflict"}
    PROVE  /\ Raise(a, kind) \in AnyAggregate
           /\ Raise(a, kind).filled = a.filled
           /\ Raise(a, kind).state = a.state
           /\ Raise(a, kind).bid = a.bid
           /\ Raise(a, kind).err = kind
  BY DEF AnyAggregate, Raise

LEMMA RaiseEvolves ==
    ASSUME NEW a, WellFormed(a), NEW kind \in {"transition", "conflict"}, NEW S
    PROVE  Evolves(a, Raise(a, kind), S)
  BY RaiseType, AggregateTypes DEF Evolves, WellFormed

LEMMA UpdatedType ==
    ASSUME NEW a \in AnyAggregate, NEW target \in OrderState
    PROVE  /\ Updated(a, target) \in AnyAggregate
           /\ Updated(a, target).filled = a.filled
           /\ Updated(a, target).bid = a.bid
           /\ Updated(a, target).state \in {a.state, target}
           /\ a.state \in TERMINAL_ORDER_STATES => Updated(a, target).state = a.state
           /\ target \in ORDER_TRANSITIONS(a.state) =>
                 Updated(a, target).state = target /\ Updated(a, target).err = a.err
  <1>1. /\ [a EXCEPT !.state = target] \in AnyAggregate
        /\ [a EXCEPT !.state = target].filled = a.filled
        /\ [a EXCEPT !.state = target].bid = a.bid
        /\ [a EXCEPT !.state = target].state = target
        /\ [a EXCEPT !.state = target].err = a.err
    BY DEF AnyAggregate
  <1>. QED
    BY <1>1, TransitionsOfTerminal, RaiseType DEF Updated

LEMMA EvolvesRefl ==
    ASSUME NEW a, WellFormed(a), NEW S
    PROVE  Evolves(a, a, S)
  BY AggregateTypes DEF Evolves, WellFormed

LEMMA EvolvesTrans ==
    ASSUME NEW a, NEW b, NEW c, NEW S, NEW T, WellFormed(a),
           Evolves(a, b, S), Evolves(b, c, T)
    PROVE  Evolves(a, c, S \cup T)
  BY AggregateTypes DEF Evolves, WellFormed

USE DEF OpenStates

LEMMA SubmitNotAcceptedEvolves ==
    ASSUME NEW a, WellFormed(a)
    PROVE  /\ Evolves(a, SubmitNotAccepted(a), {"ARMED"})
           /\ Evolves(a, UnknownResolvedNotAccepted(a), {"ARMED"})
  <1>1. Evolves(a, Updated(a, "ARMED"), {"ARMED"})
    BY UpdatedType, AggregateTypes
       DEF Evolves, WellFormed, TERMINAL_ORDER_STATES, OrderState
  <1>. QED
    BY <1>1, RaiseEvolves DEF SubmitNotAccepted, UnknownResolvedNotAccepted

LEMMA ToUnknownEvolves ==
    ASSUME NEW a, WellFormed(a)
    PROVE  Evolves(a, ToUnknown(a), {})
  BY UpdatedType, AggregateTypes
     DEF ToUnknown, Evolves, WellFormed, TERMINAL_ORDER_STATES, OrderState

LEMMA OnceEvolves ==
    ASSUME NEW a, NEW next, WellFormed(a), Evolves(a, next, {}),
           NEW id \in Attempts \X Diagnostics
    PROVE  Evolves(a, Once(a, id, next), {})
  <1>1. /\ [next EXCEPT !.seen = @ \cup {id}] \in AnyAggregate
        /\ [next EXCEPT !.seen = @ \cup {id}].state = next.state
        /\ [next EXCEPT !.seen = @ \cup {id}].filled = next.filled
        /\ [next EXCEPT !.seen = @ \cup {id}].bid = next.bid
    BY DEF AnyAggregate, Evolves, WellFormed
  <1>. QED
    BY <1>1, EvolvesRefl, AggregateTypes DEF Once, Evolves, WellFormed

LEMMA OutcomeUnknownEvolves ==
    ASSUME NEW a, WellFormed(a), NEW id \in Attempts \X Diagnostics
    PROVE  /\ Evolves(a, SubmitOutcomeUnknown(a, id), {})
           /\ Evolves(a, CancelOutcomeUnknown(a, id), {})
  <1>1. Evolves(a, SubmitOutcomeUnknown(a, id), {})
    BY ToUnknownEvolves, OnceEvolves DEF SubmitOutcomeUnknown
  <1>2. ASSUME a.state \in OpenStates \cup {"CANCEL_REQUESTED", "UNKNOWN"}
        PROVE  Evolves(a, Updated(a, "UNKNOWN"), {})
    <2>1. ToUnknown(a) = Updated(a, "UNKNOWN")
      BY <1>2 DEF ToUnknown, TERMINAL_ORDER_STATES
    <2>. QED  BY <2>1, ToUnknownEvolves
  <1>3. Evolves(a, CancelOutcomeUnknown(a, id), {})
    BY <1>2, RaiseEvolves, OnceEvolves DEF CancelOutcomeUnknown
  <1>. QED  BY <1>1, <1>3

LEMMA StatusUnknownEvolves ==
    ASSUME NEW a, WellFormed(a), NEW seq \in Nat
    PROVE  Evolves(a, StatusUnknown(a, seq), {})
  <1> DEFINE b == ToUnknown(a)
  <1>1. Evolves(a, b, {})
    BY ToUnknownEvolves
  <1>2. /\ [b EXCEPT !.unclear = seq] \in AnyAggregate
        /\ [b EXCEPT !.unclear = seq].state = b.state
        /\ [b EXCEPT !.unclear = seq].filled = b.filled
        /\ [b EXCEPT !.unclear = seq].bid = b.bid
    BY <1>1 DEF AnyAggregate, Evolves, WellFormed
  <1>. QED
    BY <1>1, <1>2, EvolvesRefl, AggregateTypes DEF StatusUnknown, Evolves, WellFormed

LEMMA BrokerAcknowledgedEvolves ==
    ASSUME NEW a, WellFormed(a), NEW seq \in Nat
    PROVE  Evolves(a, BrokerAcknowledged(a, seq), {})
  <1> DEFINE target == IF a.state \in TERMINAL_ORDER_STATES \cup OpenStates
                                      \cup {"CANCEL_REQUESTED"}
                       THEN a.state ELSE "ACKNOWLEDGED"
             b == Updated(a, target)
             c == [b EXCEPT !.bid = TRUE, !.acked = seq]
  <1>1. target \in OrderState
    BY AggregateTypes DEF WellFormed, OrderState
  <1>2. /\ b \in AnyAggregate /\ b.filled = a.filled
        /\ b.state \in {a.state, target}
        /\ a.state \in TERMINAL_ORDER_STATES => b.state = a.state
    BY <1>1, UpdatedType DEF WellFormed
  <1>3. c \in AnyAggregate /\ c.state = b.state /\ c.filled = b.filled /\ c.bid
    BY <1>2 DEF AnyAggregate
  <1>4. Evolves(a, c, {})
    <2>1. a.state \in OrderState /\ a.filled \in Nat
      BY AggregateTypes DEF WellFormed
    <2>2. a.filled = Requested => a.state \in TERMINAL_ORDER_STATES
      BY DEF WellFormed
    <2> HIDE DEF c, b
    <2>. QED
      BY <1>2, <1>3, <2>1, <2>2 DEF Evolves, WellFormed, TERMINAL_ORDER_STATES, OrderState
  <1>. QED
    BY <1>4, EvolvesRefl DEF BrokerAcknowledged

\* Every open or unresolved state may become FILLED or PARTIALLY_FILLED.
LEMMA FillTransitions ==
    ASSUME NEW s \in {"SUBMITTING", "ACKNOWLEDGED", "PARTIALLY_FILLED",
                      "CANCEL_REQUESTED", "UNKNOWN"}
    PROVE  /\ "FILLED" \in ORDER_TRANSITIONS(s)
           /\ s # "PARTIALLY_FILLED" => "PARTIALLY_FILLED" \in ORDER_TRANSITIONS(s)
  BY DEF ORDER_TRANSITIONS, BrokerOutcomes

\* Updated to the state the aggregate is already in changes nothing.
LEMMA UpdatedSame ==
    ASSUME NEW a \in AnyAggregate
    PROVE  Updated(a, a.state).state = a.state /\ Updated(a, a.state).err = a.err
  BY DEF Updated, AnyAggregate

LEMMA FillReportedEvolves ==
    ASSUME NEW a, WellFormed(a), NEW k \in 0..Requested
    PROVE  /\ Evolves(a, FillReported(a, k), {"FILLED"})
           /\ FillReported(a, k).filled \in {a.filled, k}
  <1>1. /\ a \in AnyAggregate /\ a.state \in OrderState /\ a.filled \in Nat
        /\ a.filled <= Requested
    BY AggregateTypes DEF WellFormed
  <1>0. k \in Nat /\ k <= Requested /\ ~(k > Requested)
    BY RequestedNat
  <1>7. ~(k <= a.filled) => a.filled < k /\ a.filled <= k /\ k > 0
    <2>1. k \in Nat /\ a.filled \in Nat
      BY <1>0, <1>1
    <2>. QED  BY ONLY <2>1
  <1>2. CASE a.err # "" \/ k <= a.filled
    BY <1>2, EvolvesRefl DEF FillReported
  <1>3. CASE /\ ~(a.err # "" \/ k <= a.filled)
             /\ a.state \in {"NONE", "PLANNED", "VALIDATED", "ARMED"}
    BY <1>3, RaiseEvolves, RaiseType, <1>1 DEF FillReported
  <1>4. CASE /\ ~(a.err # "" \/ k <= a.filled)
             /\ a.state \in {"CANCELLED", "REJECTED", "EXPIRED"}
    <2> DEFINE c == [a EXCEPT !.filled = k, !.bid = TRUE, !.late = TRUE]
    <2>1. c \in AnyAggregate /\ c.filled = k /\ c.state = a.state /\ c.bid
      BY <1>1 DEF AnyAggregate
    <2>2. FillReported(a, k) = c
      BY <1>0, <1>4, Zenon DEF FillReported
    <2> HIDE DEF c
    <2>3. WellFormed(c)
      BY <1>4, <2>1 DEF WellFormed, TERMINAL_ORDER_STATES
    <2>4. a.filled <= c.filled
      BY <1>4, <1>7, <2>1, Zenon
    <2>. QED
      BY <2>1, <2>2, <2>3, <2>4 DEF Evolves
  <1>5. CASE /\ ~(a.err # "" \/ k <= a.filled)
             /\ a.state \in {"SUBMITTING", "ACKNOWLEDGED", "PARTIALLY_FILLED",
                             "CANCEL_REQUESTED", "UNKNOWN"}
    <2> DEFINE target == IF k = Requested THEN "FILLED"
                         ELSE IF a.state = "CANCEL_REQUESTED" THEN "CANCEL_REQUESTED"
                         ELSE "PARTIALLY_FILLED"
               b == Updated(a, target)
               c == [b EXCEPT !.filled = k, !.bid = TRUE]
    <2>1. target \in OrderState
      BY DEF OrderState
    <2>2. b \in AnyAggregate /\ b.state = target
      BY <1>1, <1>5, <2>1, UpdatedType, FillTransitions, UpdatedSame
    <2>3. c \in AnyAggregate /\ c.filled = k /\ c.state = target /\ c.bid
      BY <2>2 DEF AnyAggregate
    <2>4. FillReported(a, k) = c
      BY <1>0, <1>5, Zenon DEF FillReported
    <2> HIDE DEF c, b
    <2>5. WellFormed(c)
      <3>1. c.filled > 0
        BY <1>5, <1>7, <2>3, Zenon
      <3>. QED
        BY <1>5, <2>3, <3>1 DEF WellFormed, TERMINAL_ORDER_STATES
    <2>6. a.filled <= c.filled
      BY <1>5, <1>7, <2>3, Zenon
    <2>. QED
      BY <1>5, <2>3, <2>4, <2>5, <2>6 DEF Evolves, TERMINAL_ORDER_STATES
  <1>6. CASE ~(a.err # "" \/ k <= a.filled) /\ a.state = "FILLED"
    BY <1>0, <1>6, <1>1, RequestedNat DEF WellFormed
  <1>. QED
    BY <1>1, <1>2, <1>3, <1>4, <1>5, <1>6 DEF OrderState

LEMMA CancelEvolves ==
    ASSUME NEW a, WellFormed(a)
    PROVE  /\ Evolves(a, CancelRequested(a), {})
           /\ Evolves(a, CancelNotAccepted(a), {})
  <1>1. /\ a \in AnyAggregate /\ a.state \in OrderState /\ a.filled \in Nat
        /\ a.filled <= Requested
    BY AggregateTypes DEF WellFormed
  <1>2. ASSUME a.bid
        PROVE  Evolves(a, Updated(a, "CANCEL_REQUESTED"), {})
    BY <1>1, <1>2, UpdatedType DEF Evolves, WellFormed, TERMINAL_ORDER_STATES, OrderState
  <1>3. ASSUME a.state = "CANCEL_REQUESTED"
        PROVE  a.bid /\ a.filled < Requested
    <2>1. a.bid /\ a.filled # Requested
      BY <1>3, Zenon DEF WellFormed, TERMINAL_ORDER_STATES
    <2>. QED  BY <1>1, <2>1, RequestedNat
  <1>4. ASSUME a.state = "CANCEL_REQUESTED", a.filled > 0
        PROVE  Evolves(a, Updated(a, "PARTIALLY_FILLED"), {})
    BY <1>1, <1>3, <1>4, UpdatedType
       DEF Evolves, WellFormed, TERMINAL_ORDER_STATES, OrderState
  <1>5. ASSUME a.state = "CANCEL_REQUESTED"
        PROVE  Evolves(a, Updated(a, "ACKNOWLEDGED"), {})
    BY <1>1, <1>3, <1>5, UpdatedType
       DEF Evolves, WellFormed, TERMINAL_ORDER_STATES, OrderState
  <1>. QED
    BY <1>2, <1>4, <1>5, RaiseEvolves DEF CancelRequested, CancelNotAccepted

LEMMA TerminalEvolves ==
    ASSUME NEW a, WellFormed(a)
    PROVE  /\ Evolves(a, CancelConfirmed(a), {"CANCELLED"})
           /\ Evolves(a, BrokerRejected(a), {"REJECTED"})
           /\ Evolves(a, OrderExpired(a), {"EXPIRED"})
  <1> DEFINE target == IF a.state = "FILLED" THEN "FILLED" ELSE "CANCELLED"
             b == Updated(a, target)
             c == [b EXCEPT !.bid = TRUE]
  <1>1. /\ b \in AnyAggregate /\ b.filled = a.filled /\ b.state \in {a.state, target}
        /\ a.state \in TERMINAL_ORDER_STATES => b.state = a.state
    BY UpdatedType DEF WellFormed, OrderState
  <1>2. c \in AnyAggregate /\ c.filled = b.filled /\ c.state = b.state /\ c.bid
    BY <1>1 DEF AnyAggregate
  <1>3. Evolves(a, CancelConfirmed(a), {"CANCELLED"})
    BY <1>1, <1>2, EvolvesRefl, AggregateTypes
       DEF CancelConfirmed, Evolves, WellFormed, TERMINAL_ORDER_STATES
  <1>4. ASSUME NEW to \in {"REJECTED", "EXPIRED"}
        PROVE  Evolves(a, Updated(a, to), {to})
    BY UpdatedType, AggregateTypes
       DEF Evolves, WellFormed, TERMINAL_ORDER_STATES, OrderState
  <1>5. ASSUME a.state \in TERMINAL_ORDER_STATES
        PROVE  Evolves(a, Updated(a, a.state), {"REJECTED"})
    BY <1>5, UpdatedType, AggregateTypes
       DEF Evolves, WellFormed, TERMINAL_ORDER_STATES, OrderState
  <1>6. /\ Evolves(a, BrokerRejected(a), {"REJECTED"})
        /\ Evolves(a, OrderExpired(a), {"EXPIRED"})
    BY <1>4, <1>5, EvolvesRefl DEF BrokerRejected, OrderExpired
  <1>. QED  BY <1>3, <1>6

-----------------------------------------------------------------------------
(* Transactions of the repository.                                         *)

LEMMA EvolvesMono ==
    ASSUME NEW a, NEW b, NEW S, NEW T, Evolves(a, b, S), S \subseteq T
    PROVE  Evolves(a, b, T)
  BY DEF Evolves

TxType ==
    [agg : AnyAggregate, row : Fact \cup {NoFact}, att : [Attempts -> AttemptRow]]

\* What a transaction that records the broker fact f and the fills 1..k does.
TxStep(t, u, f, k, S) ==
    /\ u \in TxType
    /\ Evolves(t.agg, u.agg, S)
    /\ u.agg.filled \in {t.agg.filled, k}
    /\ u.row \in {t.row, f}
    /\ t.att[1].state # "NONE" => u.att[1].state # "NONE"

GoodTx(t) == t \in TxType /\ WellFormed(t.agg)

LEMMA TxStepGood ==
    ASSUME NEW t, NEW u, NEW f, NEW k, NEW S, TxStep(t, u, f, k, S)
    PROVE  GoodTx(u)
  BY DEF TxStep, GoodTx, Evolves

LEMMA TxStepRefl ==
    ASSUME NEW t, GoodTx(t), NEW f, NEW k, NEW S
    PROVE  TxStep(t, t, f, k, S)
  BY EvolvesRefl DEF TxStep, GoodTx

LEMMA TxStepTrans ==
    ASSUME NEW t, NEW u, NEW v, NEW f, NEW k, NEW S, GoodTx(t),
           TxStep(t, u, f, k, S), TxStep(u, v, f, k, S)
    PROVE  TxStep(t, v, f, k, S)
  <1>1. Evolves(t.agg, v.agg, S \cup S)
    BY EvolvesTrans DEF TxStep, GoodTx
  <1>2. Evolves(t.agg, v.agg, S)
    BY <1>1, EvolvesMono
  <1>. QED  BY <1>2 DEF TxStep

\* A transaction that only changes the aggregate.
LEMMA SetAgg ==
    ASSUME NEW t, GoodTx(t), NEW a, NEW f, NEW k, NEW S, Evolves(t.agg, a, S),
           a.filled \in {t.agg.filled, k}
    PROVE  TxStep(t, [t EXCEPT !.agg = a], f, k, S)
  <1> DEFINE u == [t EXCEPT !.agg = a]
  <1>1. a \in AnyAggregate
    BY DEF Evolves, WellFormed
  <1>2. u \in TxType /\ u.agg = a /\ u.row = t.row /\ u.att = t.att
    BY <1>1 DEF TxType, GoodTx
  <1> HIDE DEF u
  <1>3. TxStep(t, u, f, k, S)
    BY <1>2 DEF TxStep
  <1>. QED  BY <1>3 DEF u

LEMMA FailStep ==
    ASSUME NEW t, GoodTx(t), NEW kind \in {"transition", "conflict"},
           NEW f, NEW k, NEW S
    PROVE  TxStep(t, Fail(t, kind), f, k, S)
  <1>1. Raise(t.agg, kind).filled = t.agg.filled
    BY RaiseType DEF GoodTx, WellFormed
  <1>2. Evolves(t.agg, Raise(t.agg, kind), S)
    BY RaiseEvolves DEF GoodTx
  <1>3. TxStep(t, [t EXCEPT !.agg = Raise(t.agg, kind)], f, k, S)
    BY <1>1, <1>2, SetAgg
  <1>. QED  BY <1>3, TxStepRefl DEF Fail

LEMMA RecordBrokerOrderStep ==
    ASSUME NEW t, GoodTx(t), NEW f \in Fact, NEW k, NEW S
    PROVE  TxStep(t, RecordBrokerOrder(t, f), f, k, S)
  <1> DEFINE u == [t EXCEPT !.row = f]
  <1>1. u \in TxType /\ u.agg = t.agg /\ u.row = f /\ u.att = t.att
    BY DEF TxType, GoodTx
  <1> HIDE DEF u
  <1>2. TxStep(t, u, f, k, S)
    BY <1>1, EvolvesRefl DEF TxStep, GoodTx
  <1>. QED  BY <1>2, FailStep DEF RecordBrokerOrder, u

LEMMA CompleteAttemptStep ==
    ASSUME NEW t, GoodTx(t), NEW i \in Attempts, NEW f \in Fact, NEW k, NEW S
    PROVE  TxStep(t, CompleteAttempt(t, i, f), f, k, S)
  <1> DEFINE r == [state |-> "RETURNED", resp |-> f]
             u == [t EXCEPT !.att[i] = r]
  <1>1. r \in AttemptRow /\ r.state = "RETURNED"
    BY DEF AttemptRow
  <1> HIDE DEF r
  <1>2. u \in TxType /\ u.agg = t.agg /\ u.row = t.row /\ u.att = [t.att EXCEPT ![i] = r]
    BY <1>1 DEF TxType, GoodTx
  <1>3. t.att[1].state # "NONE" => u.att[1].state # "NONE"
    BY <1>1, <1>2 DEF TxType, GoodTx, Attempts
  <1> HIDE DEF u
  <1>4. TxStep(t, u, f, k, S)
    BY <1>2, <1>3, EvolvesRefl DEF TxStep, GoodTx
  <1>. QED  BY <1>4, FailStep, TxStepRefl DEF CompleteAttempt, u, r

\* A transaction that changes the aggregate and the state of one attempt.
LEMMA SetAggAndAttempt ==
    ASSUME NEW t, GoodTx(t), NEW a, NEW f, NEW k, NEW S, Evolves(t.agg, a, S),
           a.filled \in {t.agg.filled, k}, NEW i \in Attempts,
           NEW st \in {"SUBMITTING", "UNKNOWN", "FAILED_LOCAL"}
    PROVE  TxStep(t, [t EXCEPT !.agg = a, !.att[i].state = st], f, k, S)
  <1> DEFINE r == [t.att[i] EXCEPT !.state = st]
             u == [t EXCEPT !.agg = a, !.att[i].state = st]
  <1>1. a \in AnyAggregate
    BY DEF Evolves, WellFormed
  <1>2. r \in AttemptRow /\ r.state = st
    BY DEF AttemptRow, TxType, GoodTx
  <1>3. u \in TxType /\ u.agg = a /\ u.row = t.row /\ u.att = [t.att EXCEPT ![i] = r]
    BY <1>1, <1>2 DEF TxType, GoodTx
  <1> HIDE DEF u, r
  <1>4. t.att[1].state # "NONE" => u.att[1].state # "NONE"
    BY <1>2, <1>3 DEF TxType, GoodTx, Attempts
  <1>5. TxStep(t, u, f, k, S)
    BY <1>3, <1>4 DEF TxStep
  <1>. QED  BY <1>5 DEF u

\* The events that are not about fills keep the retained fills.
LEMMA FilledKept ==
    ASSUME NEW a, WellFormed(a)
    PROVE  /\ \A id \in Attempts \X Diagnostics :
                 /\ SubmitOutcomeUnknown(a, id).filled = a.filled
                 /\ CancelOutcomeUnknown(a, id).filled = a.filled
           /\ \A seq \in Nat : /\ StatusUnknown(a, seq).filled = a.filled
                               /\ BrokerAcknowledged(a, seq).filled = a.filled
           /\ CancelConfirmed(a).filled = a.filled
           /\ BrokerRejected(a).filled = a.filled
           /\ OrderExpired(a).filled = a.filled
           /\ CancelRequested(a).filled = a.filled
           /\ CancelNotAccepted(a).filled = a.filled
           /\ SubmitNotAccepted(a).filled = a.filled
           /\ UnknownResolvedNotAccepted(a).filled = a.filled
           /\ SubmitStarted(a).filled = a.filled
  <1>1. a \in AnyAggregate /\ a.state \in OrderState
    BY AggregateTypes DEF WellFormed
  <1>2. \A to \in OrderState : Updated(a, to) \in AnyAggregate /\ Updated(a, to).filled = a.filled
    BY <1>1, UpdatedType
  <1>3. \A kind \in {"transition", "conflict"} : Raise(a, kind) \in AnyAggregate /\ Raise(a, kind).filled = a.filled
    BY <1>1, RaiseType
  <1>4. ASSUME NEW b \in AnyAggregate, NEW x
        PROVE  /\ [b EXCEPT !.seen = @ \cup {x}].filled = b.filled
               /\ [b EXCEPT !.unclear = x].filled = b.filled
               /\ [b EXCEPT !.bid = TRUE, !.acked = x].filled = b.filled
               /\ [b EXCEPT !.bid = TRUE].filled = b.filled
    BY DEF AnyAggregate
  <1>5. ToUnknown(a) \in AnyAggregate /\ ToUnknown(a).filled = a.filled
    BY <1>1, <1>2 DEF ToUnknown, OrderState
  <1>6. ASSUME NEW id \in Attempts \X Diagnostics
        PROVE  SubmitOutcomeUnknown(a, id).filled = a.filled
    BY <1>4, <1>5 DEF SubmitOutcomeUnknown, Once
  <1>7. ASSUME NEW id \in Attempts \X Diagnostics
        PROVE  CancelOutcomeUnknown(a, id).filled = a.filled
    <2> DEFINE b == IF a.state \in OpenStates \cup {"CANCEL_REQUESTED", "UNKNOWN"}
                    THEN Updated(a, "UNKNOWN") ELSE Raise(a, "transition")
    <2>1. b \in AnyAggregate /\ b.filled = a.filled
      BY <1>2, <1>3 DEF OrderState
    <2>2. CancelOutcomeUnknown(a, id) = Once(a, id, b)
      BY DEF CancelOutcomeUnknown
    <2> HIDE DEF b
    <2>3. [b EXCEPT !.seen = @ \cup {id}].filled = b.filled
      BY <1>4, <2>1
    <2>. QED  BY <2>1, <2>2, <2>3, Zenon DEF Once
  <1>8. ASSUME NEW seq \in Nat
        PROVE  StatusUnknown(a, seq).filled = a.filled
    BY <1>4, <1>5 DEF StatusUnknown
  <1>9. ASSUME NEW seq \in Nat
        PROVE  BrokerAcknowledged(a, seq).filled = a.filled
    <2> DEFINE target == IF a.state \in TERMINAL_ORDER_STATES \cup OpenStates
                                        \cup {"CANCEL_REQUESTED"}
                         THEN a.state ELSE "ACKNOWLEDGED"
               b == Updated(a, target)
    <2>1. target \in OrderState
      BY <1>1 DEF OrderState
    <2> HIDE DEF target
    <2>2. b \in AnyAggregate /\ b.filled = a.filled
      BY <1>2, <2>1
    <2>3. [b EXCEPT !.bid = TRUE, !.acked = seq].filled = a.filled
      BY <1>4, <2>2
    <2>. QED  BY <2>3, Zenon DEF BrokerAcknowledged, target
  <1>10. CancelConfirmed(a).filled = a.filled
    BY <1>2, <1>4 DEF CancelConfirmed, OrderState
  <1>11. /\ BrokerRejected(a).filled = a.filled
         /\ OrderExpired(a).filled = a.filled
         /\ CancelRequested(a).filled = a.filled
    BY <1>1, <1>2, <1>3 DEF BrokerRejected, OrderExpired, CancelRequested, OrderState
  <1>12. /\ CancelNotAccepted(a).filled = a.filled
         /\ SubmitNotAccepted(a).filled = a.filled
         /\ UnknownResolvedNotAccepted(a).filled = a.filled
         /\ SubmitStarted(a).filled = a.filled
    BY <1>2, <1>3 DEF CancelNotAccepted, SubmitNotAccepted,
                      UnknownResolvedNotAccepted, SubmitStarted, OrderState
  <1>. QED
    BY <1>6, <1>7, <1>8, <1>9, <1>10, <1>11, <1>12

LEMMA MarkAttemptUnknownStep ==
    ASSUME NEW t, GoodTx(t), NEW i \in Attempts, NEW d \in Diagnostics,
           NEW f, NEW k, NEW S
    PROVE  TxStep(t, MarkAttemptUnknown(t, i, d), f, k, S)
  <1> DEFINE id == <<i, d>>
             a == IF i = 1 THEN SubmitOutcomeUnknown(t.agg, id)
                  ELSE CancelOutcomeUnknown(t.agg, id)
  <1>1. id \in Attempts \X Diagnostics
    OBVIOUS
  <1>2. Evolves(t.agg, a, {})
    BY <1>1, OutcomeUnknownEvolves DEF GoodTx
  <1>3. a.filled = t.agg.filled
    BY <1>1, FilledKept DEF GoodTx
  <1>4. Evolves(t.agg, a, S)
    BY <1>2, EvolvesMono
  <1>5. MarkAttemptUnknown(t, i, d) = [t EXCEPT !.agg = a, !.att[i].state = "UNKNOWN"]
    BY DEF MarkAttemptUnknown
  <1> HIDE DEF a
  <1>6. TxStep(t, [t EXCEPT !.agg = a, !.att[i].state = "UNKNOWN"], f, k, S)
    BY <1>3, <1>4, SetAggAndAttempt
  <1>. QED  BY <1>5, <1>6

LEMMA ApplyBrokerEconomicsStep ==
    ASSUME NEW t, GoodTx(t), NEW f \in Fact, NEW k \in 0..Requested,
           NEW S, "FILLED" \in S
    PROVE  TxStep(t, ApplyBrokerEconomics(t, f, k), f, k, S)
  <1> DEFINE a == IF ~t.agg.bid \/ t.agg.state \notin TERMINAL_ORDER_STATES
                  THEN BrokerAcknowledged(t.agg, _order_sequence(f))
                  ELSE t.agg
             b == FillReported(a, k)
  <1>1. Evolves(t.agg, a, {}) /\ a.filled = t.agg.filled
    BY SequenceType, BrokerAcknowledgedEvolves, EvolvesRefl, FilledKept DEF GoodTx
  <1>2. WellFormed(a)
    BY <1>1 DEF Evolves
  <1>3. Evolves(a, b, {"FILLED"}) /\ b.filled \in {a.filled, k}
    BY <1>2, FillReportedEvolves
  <1>4. Evolves(t.agg, b, S)
    <2>1. Evolves(t.agg, b, {} \cup {"FILLED"})
      BY <1>1, <1>3, EvolvesTrans DEF GoodTx
    <2>. QED  BY <2>1, EvolvesMono
  <1>5. Evolves(t.agg, a, S)
    BY <1>1, EvolvesMono
  <1>6. TxStep(t, [t EXCEPT !.agg = b], f, k, S)
    BY <1>1, <1>3, <1>4, SetAgg
  <1>7. TxStep(t, [t EXCEPT !.agg = a], f, k, S)
    BY <1>1, <1>5, SetAgg
  <1>8. TxStep(t, Fail([t EXCEPT !.agg = a], "conflict"), f, k, S)
    BY <1>7, TxStepGood, FailStep, TxStepTrans
  <1>. QED  BY <1>6, <1>8, Zenon DEF ApplyBrokerEconomics

LEMMA ApplyTerminalFactStep ==
    ASSUME NEW t, GoodTx(t), NEW f \in Fact, NEW k, NEW S, f.status \in S
    PROVE  TxStep(t, ApplyTerminalFact(t, f), f, k, S)
  <1>1. CASE t.agg.state = f.status
    BY <1>1, TxStepRefl DEF ApplyTerminalFact
  <1>2. CASE t.agg.state # f.status /\ f.status = "REJECTED"
    <2>1. Evolves(t.agg, BrokerRejected(t.agg), S)
      BY <1>2, TerminalEvolves, EvolvesMono DEF GoodTx
    <2>2. BrokerRejected(t.agg).filled = t.agg.filled
      BY FilledKept DEF GoodTx
    <2>3. ApplyTerminalFact(t, f) = [t EXCEPT !.agg = BrokerRejected(t.agg)]
      BY <1>2 DEF ApplyTerminalFact
    <2>. QED  BY <2>1, <2>2, <2>3, SetAgg
  <1>3. CASE t.agg.state # f.status /\ f.status = "EXPIRED"
    <2>1. Evolves(t.agg, OrderExpired(t.agg), S)
      BY <1>3, TerminalEvolves, EvolvesMono DEF GoodTx
    <2>2. OrderExpired(t.agg).filled = t.agg.filled
      BY FilledKept DEF GoodTx
    <2>3. ApplyTerminalFact(t, f) = [t EXCEPT !.agg = OrderExpired(t.agg)]
      BY <1>3 DEF ApplyTerminalFact
    <2>. QED  BY <2>1, <2>2, <2>3, SetAgg
  <1>4. CASE t.agg.state # f.status /\ f.status = "CANCELLED"
    <2>1. Evolves(t.agg, CancelConfirmed(t.agg), S)
      BY <1>4, TerminalEvolves, EvolvesMono DEF GoodTx
    <2>2. CancelConfirmed(t.agg).filled = t.agg.filled
      BY FilledKept DEF GoodTx
    <2>3. ApplyTerminalFact(t, f) = [t EXCEPT !.agg = CancelConfirmed(t.agg)]
      BY <1>4 DEF ApplyTerminalFact
    <2>. QED  BY <2>1, <2>2, <2>3, SetAgg
  <1>5. CASE t.agg.state # f.status /\ f.status \notin {"REJECTED", "EXPIRED", "CANCELLED"}
    <2>1. ApplyTerminalFact(t, f) = t
      BY <1>5 DEF ApplyTerminalFact
    <2>. QED  BY <2>1, TxStepRefl
  <1>. QED  BY <1>1, <1>2, <1>3, <1>4, <1>5

\* The transactions that record a broker fact: what _record_returned_result
\* and reconcile_broker_fact can do to the ledger, whatever the fact.
LEMMA RecordReturnedResultStep ==
    ASSUME NEW t, GoodTx(t), NEW i \in Attempts, NEW f \in Fact, NEW k \in 0..Requested
    PROVE  TxStep(t, RecordReturnedResult(t, i, f, k), f, k, {f.status, "FILLED"})
  <1> DEFINE S == {f.status, "FILLED"}
             t0 == RecordBrokerOrder(t, f)
             t1 == CompleteAttempt(t0, i, f)
             t2 == ApplyBrokerEconomics(t1, f, k)
             t3 == ApplyTerminalFact(t2, f)
  <1>0. TxStep(t, t0, f, k, S) /\ GoodTx(t0)
    BY RecordBrokerOrderStep, TxStepGood
  <1>1. TxStep(t, t1, f, k, S) /\ GoodTx(t1)
    BY <1>0, CompleteAttemptStep, TxStepTrans, TxStepGood
  <1>2. TxStep(t, t2, f, k, S) /\ GoodTx(t2)
    BY <1>1, ApplyBrokerEconomicsStep, TxStepTrans, TxStepGood
  <1>3. TxStep(t, t3, f, k, S) /\ GoodTx(t3)
    BY <1>2, ApplyTerminalFactStep, TxStepTrans, TxStepGood
  <1>4. TxStep(t, SameCumulative(t3, f), f, k, S)
    BY <1>3, FailStep, TxStepTrans DEF SameCumulative
  <1>5. \A d \in Diagnostics : TxStep(t, MarkAttemptUnknown(t2, i, d), f, k, S)
    BY <1>2, MarkAttemptUnknownStep, TxStepTrans
  <1>6. TxStep(t, Fail(t, "conflict"), f, k, S)
    BY FailStep
  <1>. HIDE DEF S
  <1>7. TxStep(t, RecordReturnedResult(t, i, f, k), f, k, S)
    BY <1>4, <1>5, <1>6, Zenon DEF RecordReturnedResult, Diagnostics
  <1>. QED  BY <1>7 DEF S

LEMMA ReconcileBrokerFactStep ==
    ASSUME NEW t, GoodTx(t), NEW f \in Fact, NEW k \in 0..Requested
    PROVE  TxStep(t, ReconcileBrokerFact(t, f, k), f, k, {f.status, "FILLED"})
  <1> DEFINE S == {f.status, "FILLED"}
             t0 == RecordBrokerOrder(t, f)
             t1 == ApplyBrokerEconomics(t0, f, k)
             t2 == [t1 EXCEPT !.agg = StatusUnknown(t1.agg, _order_sequence(f))]
             t3 == ApplyTerminalFact(t1, f)
             t4 == IF f.status = "UNKNOWN" THEN t2 ELSE t3
  <1>0. TxStep(t, t0, f, k, S) /\ GoodTx(t0)
    BY RecordBrokerOrderStep, TxStepGood
  <1>1. TxStep(t, t1, f, k, S) /\ GoodTx(t1)
    BY <1>0, ApplyBrokerEconomicsStep, TxStepTrans, TxStepGood
  <1>2. TxStep(t1, t2, f, k, S)
    <2>1. StatusUnknown(t1.agg, _order_sequence(f)).filled = t1.agg.filled
      BY <1>1, SequenceType, FilledKept DEF GoodTx
    <2>2. Evolves(t1.agg, StatusUnknown(t1.agg, _order_sequence(f)), S)
      BY <1>1, SequenceType, StatusUnknownEvolves, EvolvesMono DEF GoodTx
    <2> HIDE DEF t1, S
    <2>. QED  BY <1>1, <2>1, <2>2, SetAgg
  <1>3. TxStep(t1, t3, f, k, S)
    BY <1>1, ApplyTerminalFactStep
  <1>4. TxStep(t, t4, f, k, S) /\ GoodTx(t4)
    BY <1>1, <1>2, <1>3, TxStepTrans, TxStepGood
  <1>5. TxStep(t, SameCumulative(t4, f), f, k, S)
    <2> HIDE DEF t4, S
    <2>. QED  BY <1>4, FailStep, TxStepTrans DEF SameCumulative
  <1>6. TxStep(t, Fail(t, "conflict"), f, k, S)
    BY FailStep
  <1>. HIDE DEF S
  <1>7. TxStep(t, ReconcileBrokerFact(t, f, k), f, k, S)
    BY <1>5, <1>6, Zenon DEF ReconcileBrokerFact
  <1>. QED  BY <1>7 DEF S

-----------------------------------------------------------------------------
(* The inductive invariant.                                                *)

\* Nothing has ever been sent to the broker.
Untouched == broker.st = "NONE" /\ ~broker.inflight /\ broker.n = 0

BrokerType ==
    /\ broker \in [st : Status \cup {"NONE"}, filled : 0..Requested, n : Nat,
                   inflight : BOOLEAN]
    /\ broker.inflight = TRUE => broker.st = "NONE"

CertainOutcome == {"CANCELLED", "REJECTED", "EXPIRED"}

\* f is something the broker said: its final statuses stay true, and its
\* cumulative shares only grow.
Heard(f) ==
    /\ f.status \in CertainOutcome => broker.st = f.status
    /\ f.filled <= broker.filled

\* The durable tables against the broker.
LedgerInv ==
    /\ WellFormed(agg) /\ agg.err = ""
    /\ row \in Fact \cup {NoFact}
    /\ att \in [Attempts -> AttemptRow]
    /\ agg.state \in CertainOutcome => broker.st = agg.state
    /\ agg.filled <= broker.filled
    /\ row.filled <= broker.filled
    /\ NeverDisowned

\* Where the process is against the ledger and the broker.
ControlInv ==
    /\ att[1].state = "NONE" =>
           /\ agg.state \in {"NONE", "ARMED"} /\ pc \in {"idle", "armed"}
           /\ row = NoFact /\ \A i \in Attempts : att[i].state = "NONE"
    /\ agg.state = "NONE" =>
           att[1].state = "NONE" /\ Untouched /\ pc = "idle" /\ agg.filled = 0
    /\ pc = "armed" => agg.state = "ARMED" /\ Untouched
    /\ pc = "submitting" => agg.state = "SUBMITTING" /\ Untouched
    /\ pc = "refused" /\ cur = 1 => Untouched
    /\ pc = "cancelling" => cur # 1
    /\ pc = "open" => agg.state \in OpenStates
    /\ pc \in {"returned", "refresh"} => fact # NoFact
    /\ Heard(fact)
    /\ nf <= broker.filled

IInv == BrokerType /\ Memory /\ LedgerInv /\ ControlInv /\ OneBrokerOrder

LEMMA AttemptsFacts == 1 \in Attempts /\ Attempts \subseteq Nat
  <1>1. MaxAttempts \in Nat /\ MaxAttempts > 0
    BY MaxAttemptsAssumption
  <1>. QED  BY <1>1 DEF Attempts

LEMMA NoAggregateFacts ==
    /\ NoAggregate \in AnyAggregate
    /\ NoAggregate.state = "NONE" /\ NoAggregate.filled = 0 /\ NoAggregate.err = ""
  <1>1. NoAggregate \in AnyAggregate
    BY RequestedNat DEF NoAggregate, AnyAggregate, OrderState
  <1>2. NoAggregate.state = "NONE" /\ NoAggregate.filled = 0 /\ NoAggregate.err = ""
    BY DEF NoAggregate
  <1>. QED  BY <1>1, <1>2

LEMMA InitIInv == Init => IInv
  <1> SUFFICES ASSUME Init PROVE IInv
    OBVIOUS
  <1>1. BrokerType /\ OneBrokerOrder
    BY RequestedNat DEF Init, BrokerType, OneBrokerOrder
  <1>2. Memory
    <2>1. /\ pc = "idle" /\ who = "live" /\ cur = 1 /\ fact = NoFact /\ nf = 0 /\ todo = {}
          /\ ready \in BOOLEAN /\ blocked \in BOOLEAN
      BY Zenon DEF Init
    <2>2. nf \in 0..Requested
      BY <2>1, RequestedNat
    <2>. QED  BY <2>1, <2>2, AttemptsFacts, Zenon DEF Memory
  <1>3. WellFormed(agg) /\ agg.err = ""
    <2>1. agg = NoAggregate
      BY DEF Init
    <2>2. 0 # Requested
      BY RequestedNat
    <2>. QED  BY <2>1, <2>2, NoAggregateFacts, Zenon DEF WellFormed
  <1>4. agg.state = "NONE" /\ agg.filled = 0
    BY DEF Init, NoAggregate
  <1>5. row = NoFact /\ NoFact.filled = 0 /\ NoFact.status = "NONE"
    BY DEF Init, NoFact
  <1>6. broker.st = "NONE" /\ broker.filled = 0 /\ broker.n = 0 /\ broker.inflight = FALSE
    BY DEF Init
  <1>7. att \in [Attempts -> AttemptRow] /\ \A i \in Attempts : att[i].state = "NONE"
    BY DEF Init, AttemptRow
  <1>8. LedgerInv
    <2>1. agg.state \notin CertainOutcome /\ NeverDisowned
      BY <1>4, <1>6 DEF CertainOutcome, NeverDisowned
    <2>2. agg.filled <= broker.filled /\ row.filled <= broker.filled
      BY <1>4, <1>5, <1>6
    <2>. QED  BY <1>3, <1>5, <1>7, <2>1, <2>2, Zenon DEF LedgerInv
  <1>9. ControlInv
    <2>1. pc = "idle" /\ fact = NoFact /\ nf = 0
      BY DEF Init
    <2>. QED
      BY <1>4, <1>5, <1>6, <1>7, <2>1, AttemptsFacts
         DEF ControlInv, Untouched, Heard, CertainOutcome
  <1>. QED  BY <1>1, <1>2, <1>8, <1>9 DEF IInv

LEMMA BrokerFacts ==
    ASSUME BrokerType
    PROVE  /\ broker.st \in Status \cup {"NONE"} /\ broker.filled \in Nat
           /\ broker.filled <= Requested /\ broker.n \in Nat
  <1>1. broker.st \in Status \cup {"NONE"} /\ broker.filled \in 0..Requested /\ broker.n \in Nat
    BY DEF BrokerType
  <1>. QED  BY <1>1, RequestedNat

\* The broker moves: final statuses stay, fills grow, nothing appears from nowhere.
LEMMA BrokerMoves ==
    ASSUME BrokerType, OneBrokerOrder, BrokerNext
    PROVE  /\ BrokerType' /\ OneBrokerOrder'
           /\ broker.st \in CertainOutcome => broker'.st = broker.st
           /\ broker.filled <= broker'.filled
           /\ broker.st # "NONE" \/ broker.inflight
           /\ UNCHANGED <<durable, memory>>
  <1>0. broker.st \in Status \cup {"NONE"} /\ broker.filled \in Nat /\ broker.n \in Nat
    BY BrokerFacts
  <1>1. CASE BrokerLateArrival
    <2>1. /\ broker.inflight = TRUE /\ broker.n = 0 /\ UNCHANGED <<durable, memory>>
          /\ broker.st = "NONE"
      BY <1>0, <1>1 DEF BrokerLateArrival, OneBrokerOrder, BrokerType
    <2>2. CASE broker' = Accept(broker)
      <3>1. /\ broker'.st = "PENDING_NEW" /\ broker'.n = 1 /\ broker'.inflight = FALSE
            /\ broker'.filled = broker.filled
        BY <2>1, <2>2 DEF Accept, BrokerType
      <3>2. BrokerType'
        <4>1. broker.n + 1 \in Nat /\ "PENDING_NEW" \in Status
          BY <1>0 DEF Status, ActiveStatus
        <4>. QED  BY <2>2, <3>1, <4>1 DEF Accept, BrokerType
      <3>. QED  BY <1>0, <2>1, <3>1, <3>2 DEF OneBrokerOrder, CertainOutcome
    <2>3. CASE broker' = [broker EXCEPT !.inflight = FALSE]
      <3>1. /\ BrokerType' /\ broker'.n = 0 /\ broker'.inflight = FALSE
            /\ broker'.filled = broker.filled /\ broker'.st = broker.st
        BY <2>1, <2>3 DEF BrokerType
      <3>. QED  BY <1>0, <2>1, <3>1 DEF OneBrokerOrder
    <2>. QED  BY <1>1, <2>2, <2>3 DEF BrokerLateArrival
  <1>2. CASE BrokerFill
    <2> DEFINE to == IF broker.st = "CANCELLED" THEN "CANCELLED"
                     ELSE IF broker.filled + 1 = Requested THEN "FILLED"
                     ELSE IF broker.st = "PENDING_CANCEL" THEN "PENDING_CANCEL"
                     ELSE "PARTIALLY_FILLED"
    <2>1. /\ broker.st \in Working \cup {"CANCELLED"} /\ UNCHANGED <<durable, memory>>
          /\ broker' = [broker EXCEPT !.filled = broker.filled + 1, !.st = to]
      BY <1>2 DEF BrokerFill
    <2>2. to \in Status
      BY DEF Status, ActiveStatus, TerminalStatus
    <2>3. broker.filled + 1 \in 0..Requested
      BY <1>0, <1>2, RequestedNat DEF BrokerFill
    <2>4. broker.st \in CertainOutcome => to = broker.st
      BY <2>1 DEF CertainOutcome, Working, ActiveStatus
    <2>5. broker.st # "NONE" /\ broker.inflight = FALSE
      BY <2>1 DEF Working, ActiveStatus, BrokerType
    <2> HIDE DEF to
    <2>6. /\ broker'.st = to /\ broker'.filled = broker.filled + 1 /\ broker'.n = broker.n
          /\ broker'.inflight = broker.inflight
      BY <2>1 DEF BrokerType
    <2>7. BrokerType'
      BY <2>1, <2>2, <2>3, <2>5, <2>6 DEF BrokerType
    <2>. QED  BY <1>0, <2>1, <2>4, <2>5, <2>6, <2>7 DEF OneBrokerOrder
  <1>3. CASE BrokerStatus
    BY <1>3, RequestedNat DEF BrokerStatus, Move, BrokerType, OneBrokerOrder, Working, Status,
       ActiveStatus, TerminalStatus, CertainOutcome
  <1>. QED  BY <1>1, <1>2, <1>3 DEF BrokerNext

\* The whole invariant is insensitive to what the broker does by itself.
LEMMA BrokerPreserves == IInv /\ BrokerNext => IInv'
  <1> SUFFICES ASSUME IInv, BrokerNext PROVE IInv'
    OBVIOUS
  <1>1. /\ BrokerType' /\ OneBrokerOrder'
        /\ broker.st \in CertainOutcome => broker'.st = broker.st
        /\ broker.filled <= broker'.filled
        /\ broker.st # "NONE" \/ broker.inflight
        /\ UNCHANGED <<durable, memory>>
    BY BrokerMoves DEF IInv
  <1>2. broker.filled \in Nat /\ broker'.filled \in Nat
    BY <1>1, BrokerFacts, RequestedNat DEF IInv, BrokerType
  <1>3. /\ agg' = agg /\ row' = row /\ att' = att /\ pc' = pc /\ cur' = cur
        /\ fact' = fact /\ nf' = nf /\ ready' = ready /\ who' = who /\ todo' = todo
        /\ blocked' = blocked
    BY <1>1 DEF durable, memory
  <1>4. Memory'
    BY <1>3, Zenon DEF IInv, Memory
  <1>5. agg.filled \in Nat /\ row.filled \in Nat /\ fact.filled \in Nat /\ nf \in Nat
    <2>1. agg.filled \in Nat
      BY AggregateTypes DEF IInv, LedgerInv, WellFormed
    <2>2. \A f \in Fact \cup {NoFact} : f.filled \in 0..Requested
      BY RequestedNat DEF Fact, NoFact
    <2>3. row \in Fact \cup {NoFact} /\ fact \in Fact \cup {NoFact} /\ nf \in 0..Requested
      BY DEF IInv, LedgerInv, Memory
    <2>. QED  BY <2>1, <2>2, <2>3, RequestedNat
  <1>6. LedgerInv'
    <2>0. agg.filled <= broker.filled /\ row.filled <= broker.filled
      BY DEF IInv, LedgerInv
    <2>1. agg.filled <= broker'.filled /\ row.filled <= broker'.filled
      BY <1>1, <1>2, <1>5, <2>0
    <2>2. NeverDisowned'
      BY <1>1, <1>3 DEF IInv, LedgerInv, NeverDisowned
    <2>3. agg.state \in CertainOutcome => broker'.st = agg.state
      BY <1>1 DEF IInv, LedgerInv
    <2>4. (WellFormed(agg))'
      BY <1>3 DEF IInv, LedgerInv, WellFormed
    <2>. QED
      BY <1>3, <2>1, <2>2, <2>3, <2>4 DEF IInv, LedgerInv
  <1>7. ControlInv'
    <2>1. fact.filled <= broker'.filled /\ nf <= broker'.filled
      BY <1>1, <1>2, <1>5 DEF IInv, ControlInv, Heard
    <2>2. ~Untouched
      BY <1>1 DEF Untouched
    <2>3. fact.status \in CertainOutcome => broker'.st = fact.status
      BY <1>1 DEF IInv, ControlInv, Heard
    <2>4. Heard(fact)'
      BY <1>3, <2>1, <2>3 DEF Heard
    <2>. QED
      BY <1>3, <2>1, <2>2, <2>4 DEF IInv, ControlInv
  <1>. QED  BY <1>1, <1>4, <1>6, <1>7 DEF IInv

-----------------------------------------------------------------------------
(* Steps of the process.                                                   *)

LEMMA NoFactFacts == NoFact.status = "NONE" /\ NoFact.filled = 0
  BY DEF NoFact

LEMMA FactFilled ==
    ASSUME NEW f \in Fact \cup {NoFact}
    PROVE  f.filled \in Nat /\ f.filled <= Requested
  <1>1. f.filled \in 0..Requested
    BY RequestedNat DEF Fact, NoFact
  <1>. QED  BY <1>1, RequestedNat

\* Giving up the call stack keeps the invariant of a ledger that is in order.
LEMMA IdleInv ==
    ASSUME IInv, NEW r \in BOOLEAN, Idle(r), UNCHANGED broker, LedgerInv',
           agg'.state = "NONE" => att'[1].state = "NONE" /\ Untouched /\ agg'.filled = 0,
           att'[1].state = "NONE" =>
               /\ agg'.state \in {"NONE", "ARMED"} /\ row' = NoFact
               /\ \A i \in Attempts : att'[i].state = "NONE"
    PROVE  IInv'
  <1>1. /\ pc' = "idle" /\ ready' = r /\ who' = "live" /\ cur' = 1 /\ fact' = NoFact
        /\ nf' = 0 /\ todo' = {} /\ blocked' = FALSE
    BY DEF Idle
  <1>2. Memory'
    <2>1. nf' \in 0..Requested
      BY <1>1, RequestedNat
    <2>. QED  BY <1>1, <2>1, AttemptsFacts, Zenon DEF Memory
  <1>3. BrokerType' /\ OneBrokerOrder'
    BY DEF IInv, BrokerType, OneBrokerOrder
  <1>4. broker'.filled \in Nat
    BY BrokerFacts DEF IInv
  <1>5. Heard(fact)' /\ nf' <= broker'.filled
    BY <1>1, <1>4, NoFactFacts DEF Heard, CertainOutcome
  <1>6. Untouched => Untouched'
    BY DEF Untouched
  <1>7. ControlInv'
    BY <1>1, <1>5, <1>6 DEF ControlInv
  <1>. QED  BY <1>2, <1>3, <1>7 DEF IInv

LEMMA HaltInv ==
    ASSUME IInv, NEW r \in BOOLEAN, Idle(r), UNCHANGED durable, UNCHANGED broker
    PROVE  IInv'
  <1>1. agg' = agg /\ row' = row /\ att' = att /\ broker' = broker
    BY DEF durable
  <1>2. LedgerInv'
    <2>1. (WellFormed(agg))'
      BY <1>1 DEF IInv, LedgerInv, WellFormed
    <2>. QED  BY <1>1, <2>1 DEF IInv, LedgerInv, NeverDisowned
  <1>. QED
    BY <1>1, <1>2, IdleInv DEF IInv, ControlInv

\* The states a transaction may enter are true of the broker.
Allowed(S) ==
    /\ "NONE" \notin S
    /\ "ARMED" \in S => broker.st = "NONE" /\ ~broker.inflight
    /\ \A s \in S \cap CertainOutcome : broker.st = s

LEMMA AllowedFact ==
    ASSUME NEW f \in Fact, Heard(f)
    PROVE  Allowed({f.status, "FILLED"})
  BY DEF Allowed, Heard, Fact, Status, ActiveStatus, TerminalStatus, CertainOutcome

LEMMA TxGood ==
    ASSUME IInv
    PROVE  /\ GoodTx(Tx) /\ Tx.agg = agg /\ Tx.row = row /\ Tx.att = att
  <1>1. Tx.agg = agg /\ Tx.row = row /\ Tx.att = att
    BY DEF Tx
  <1>2. WellFormed(agg) /\ agg \in AnyAggregate
    BY DEF IInv, LedgerInv, WellFormed
  <1>3. Tx \in TxType
    BY <1>2 DEF Tx, TxType, IInv, LedgerInv
  <1>. QED  BY <1>1, <1>2, <1>3 DEF GoodTx

LEMMA WriteLedger ==
    ASSUME IInv, att[1].state # "NONE",
           NEW t, NEW f \in Fact \cup {NoFact}, NEW k \in 0..Requested, NEW S,
           TxStep(Tx, t, f, k, S), t.agg.err = "", Heard(f), k <= broker.filled,
           Allowed(S), Write(t), UNCHANGED broker
    PROVE  /\ LedgerInv' /\ agg'.state # "NONE" /\ att'[1].state # "NONE"
  <1>1. agg' = t.agg /\ row' = t.row /\ att' = t.att /\ broker' = broker
    BY DEF Write
  <1>2. /\ t \in TxType /\ Evolves(agg, t.agg, S)
        /\ t.agg.filled \in {agg.filled, k} /\ t.row \in {row, f}
        /\ t.att[1].state # "NONE"
    BY TxGood DEF TxStep
  <1>3. agg.state # "NONE"
    BY DEF IInv, ControlInv
  <1>4. agg'.state # "NONE"
    BY <1>1, <1>2, <1>3 DEF Evolves, Allowed
  <1>5. t.row \in Fact \cup {NoFact} /\ t.att \in [Attempts -> AttemptRow]
    BY <1>2 DEF TxType
  <1>6. agg'.state \in CertainOutcome => broker.st = agg'.state
    <2>1. CertainOutcome \subseteq TERMINAL_ORDER_STATES
      BY DEF CertainOutcome, TERMINAL_ORDER_STATES
    <2>2. agg.state \in CertainOutcome => broker.st = agg.state
      BY DEF IInv, LedgerInv
    <2>. QED  BY <1>1, <1>2, <2>1, <2>2 DEF Evolves, Allowed
  <1>7. agg'.filled <= broker.filled /\ row'.filled <= broker.filled
    BY <1>1, <1>2 DEF IInv, LedgerInv, Heard
  <1>8. NeverDisowned'
    <2>1. broker.st # "NONE" \/ broker.inflight => agg.state # "ARMED"
      BY DEF IInv, LedgerInv, NeverDisowned
    <2>2. broker.st # "NONE" \/ broker.inflight => agg'.state # "ARMED"
      BY <1>1, <1>2, <2>1 DEF Evolves, Allowed
    <2>. QED  BY <1>1, <1>2, <1>4, <2>2 DEF NeverDisowned
  <1>9. (WellFormed(agg))'
    BY <1>1, <1>2 DEF Evolves, WellFormed
  <1>10. LedgerInv'
    BY <1>1, <1>5, <1>6, <1>7, <1>8, <1>9 DEF LedgerInv
  <1>. QED  BY <1>1, <1>2, <1>4, <1>10

\* CommitOrHalt of a transaction that only says what the broker said.
LEMMA CommitInv ==
    ASSUME IInv, pc \notin {"idle", "armed"},
           NEW t, NEW f \in Fact \cup {NoFact}, NEW k \in 0..Requested, NEW S,
           TxStep(Tx, t, f, k, S), Heard(f), k <= broker.filled,
           Allowed(S), CommitOrHalt(t), UNCHANGED broker
    PROVE  IInv'
  <1>0. att[1].state # "NONE"
    BY DEF IInv, ControlInv
  <1>1. CASE t.agg.err # ""
    <2>1. UNCHANGED durable /\ Idle(FALSE)
      BY <1>1 DEF CommitOrHalt
    <2>. QED  BY <2>1, HaltInv
  <1>2. CASE t.agg.err = ""
    <2>1. Write(t) /\ AfterWrite(t)
      BY <1>2 DEF CommitOrHalt
    <2>2. LedgerInv' /\ agg'.state # "NONE" /\ att'[1].state # "NONE"
      BY <1>0, <1>2, <2>1, WriteLedger
    <2>3. agg' = t.agg
      BY <2>1 DEF Write
    <2>4. ready \in BOOLEAN /\ (t.agg.state # "UNKNOWN") \in BOOLEAN
      BY Zenon DEF IInv, Memory
    <2>5. ASSUME NEW r \in BOOLEAN, Idle(r)
          PROVE  IInv'
      BY <2>2, <2>5, IdleInv
    <2>6. CASE who = "sweep"
      BY <2>1, <2>4, <2>5, <2>6 DEF AfterWrite
    <2>7. CASE who # "sweep" /\ ~(t.agg.state \in OpenStates /\ cur = 1)
      BY <2>1, <2>4, <2>5, <2>7, Zenon DEF AfterWrite
    <2>8. CASE who # "sweep" /\ t.agg.state \in OpenStates /\ cur = 1
      <3>1. /\ pc' = "open" /\ fact' = NoFact /\ nf' = 0
            /\ UNCHANGED <<ready, who, cur, todo, blocked>>
        BY <2>1, <2>8 DEF AfterWrite
      <3>2. Memory'
        <4>1. nf' \in 0..Requested
          BY <3>1, RequestedNat
        <4>. QED  BY <3>1, <4>1, Zenon DEF IInv, Memory
      <3>3. BrokerType' /\ OneBrokerOrder'
        BY DEF IInv, BrokerType, OneBrokerOrder
      <3>4. broker'.filled \in Nat
        BY BrokerFacts DEF IInv
      <3>5. Heard(fact)' /\ nf' <= broker'.filled
        BY <3>1, <3>4, NoFactFacts DEF Heard, CertainOutcome
      <3>6. ControlInv'
        BY <2>2, <2>3, <2>8, <3>1, <3>5 DEF ControlInv
      <3>. QED  BY <2>2, <3>2, <3>3, <3>6 DEF IInv
    <2>. QED  BY <2>6, <2>7, <2>8
  <1>. QED  BY <1>1, <1>2

LEMMA ResolveNotAcceptedStep ==
    ASSUME NEW t, GoodTx(t), NEW i \in Attempts, NEW f, NEW k
    PROVE  TxStep(t, ResolveNotAccepted(t, i), f, k, IF i = 1 THEN {"ARMED"} ELSE {})
  <1> DEFINE a == IF i > 1 THEN CancelNotAccepted(t.agg)
                  ELSE IF t.agg.state = "UNKNOWN" THEN UnknownResolvedNotAccepted(t.agg)
                  ELSE SubmitNotAccepted(t.agg)
             S == IF i = 1 THEN {"ARMED"} ELSE {}
  <1>1. i > 1 <=> i # 1
    <2>1. MaxAttempts \in Nat
      BY MaxAttemptsAssumption
    <2>. QED  BY <2>1 DEF Attempts
  <1>2. Evolves(t.agg, a, S)
    BY <1>1, CancelEvolves, SubmitNotAcceptedEvolves DEF GoodTx
  <1>3. a.filled = t.agg.filled
    BY FilledKept DEF GoodTx
  <1>4. ResolveNotAccepted(t, i) = [t EXCEPT !.agg = a, !.att[i].state = "FAILED_LOCAL"]
    BY DEF ResolveNotAccepted
  <1> HIDE DEF a, S
  <1>5. TxStep(t, [t EXCEPT !.agg = a, !.att[i].state = "FAILED_LOCAL"], f, k, S)
    BY <1>2, <1>3, SetAggAndAttempt
  <1>. QED  BY <1>4, <1>5 DEF S

LEMMA MemoryFacts ==
    ASSUME IInv
    PROVE  /\ cur \in Attempts /\ fact \in Fact \cup {NoFact} /\ nf \in 0..Requested
           /\ todo \in SUBSET Attempts /\ Heard(fact) /\ nf <= broker.filled
           /\ Heard(NoFact) /\ 0 <= broker.filled /\ 0 \in 0..Requested
  <1>1. broker.filled \in Nat
    BY BrokerFacts DEF IInv
  <1>2. Heard(NoFact) /\ 0 <= broker.filled
    BY <1>1, NoFactFacts DEF Heard, CertainOutcome
  <1>3. 0 \in 0..Requested
    BY RequestedNat
  <1>. QED  BY <1>2, <1>3 DEF IInv, Memory, ControlInv

LEMMA RecordInv ==
    ASSUME IInv, RecordReturn \/ RefreshApply \/ RecordLost \/ RecordRefused
    PROVE  IInv'
  <1>1. CASE RecordReturn \/ RefreshApply
    <2>1. pc \in {"returned", "refresh"} /\ UNCHANGED broker
      BY <1>1 DEF RecordReturn, RefreshApply
    <2>2. fact \in Fact
      BY <2>1, MemoryFacts DEF IInv, ControlInv
    <2>3. PICK k \in 0..broker.filled : \/ CommitOrHalt(RecordReturnedResult(Tx, cur, fact, k))
                                        \/ CommitOrHalt(ReconcileBrokerFact(Tx, fact, k))
      BY <1>1 DEF RecordReturn, RefreshApply
    <2>4. k \in 0..Requested /\ k <= broker.filled
      BY BrokerFacts, RequestedNat DEF IInv
    <2>5. /\ TxStep(Tx, RecordReturnedResult(Tx, cur, fact, k), fact, k, {fact.status, "FILLED"})
          /\ TxStep(Tx, ReconcileBrokerFact(Tx, fact, k), fact, k, {fact.status, "FILLED"})
      BY <2>2, <2>4, TxGood, MemoryFacts, RecordReturnedResultStep, ReconcileBrokerFactStep
    <2>6. Allowed({fact.status, "FILLED"})
      BY <2>2, MemoryFacts, AllowedFact
    <2>. QED  BY <2>1, <2>2, <2>3, <2>4, <2>5, <2>6, MemoryFacts, CommitInv
  <1>2. ASSUME NEW d \in Diagnostics
        PROVE  TxStep(Tx, MarkAttemptUnknown(Tx, cur, d), NoFact, 0, {})
    BY TxGood, MemoryFacts, MarkAttemptUnknownStep
  <1>3. Allowed({}) /\ "CALL_OUTCOME_UNKNOWN" \in Diagnostics
    BY DEF Allowed, Diagnostics
  <1>4. CASE RecordLost
    <2>1. /\ pc = "lost" /\ UNCHANGED broker
          /\ CommitOrHalt(MarkAttemptUnknown(Tx, cur, "CALL_OUTCOME_UNKNOWN"))
      BY <1>4 DEF RecordLost
    <2>. QED  BY <1>2, <1>3, <2>1, MemoryFacts, CommitInv
  <1>5. CASE RecordRefused
    <2>1. pc = "refused" /\ UNCHANGED broker
      BY <1>5 DEF RecordRefused
    <2>2. CASE who = "sweep"
      <3>1. CommitOrHalt(MarkAttemptUnknown(Tx, cur, "CALL_OUTCOME_UNKNOWN"))
        BY <1>5, <2>2 DEF RecordRefused
      <3>. QED  BY <1>2, <1>3, <2>1, <3>1, MemoryFacts, CommitInv
    <2>3. CASE who # "sweep"
      <3> DEFINE S == IF cur = 1 THEN {"ARMED"} ELSE {}
      <3>1. CommitOrHalt(ResolveNotAccepted(Tx, cur))
        BY <1>5, <2>3 DEF RecordRefused
      <3>2. TxStep(Tx, ResolveNotAccepted(Tx, cur), NoFact, 0, S)
        BY TxGood, MemoryFacts, ResolveNotAcceptedStep
      <3>3. Allowed(S)
        BY <2>1 DEF IInv, ControlInv, Untouched, Allowed, CertainOutcome
      <3> HIDE DEF S
      <3>. QED  BY <2>1, <3>1, <3>2, <3>3, MemoryFacts, CommitInv
    <2>. QED  BY <2>2, <2>3
  <1>. QED  BY <1>1, <1>4, <1>5

\* Steps that leave the ledger and the broker alone.
LEMMA SameLedger ==
    ASSUME IInv, UNCHANGED durable, UNCHANGED broker
    PROVE  LedgerInv' /\ BrokerType' /\ OneBrokerOrder'
  <1>1. agg' = agg /\ row' = row /\ att' = att /\ broker' = broker
    BY DEF durable
  <1>2. (WellFormed(agg))'
    BY <1>1 DEF IInv, LedgerInv, WellFormed
  <1>. QED
    BY <1>1, <1>2 DEF IInv, LedgerInv, NeverDisowned, BrokerType, OneBrokerOrder

\* What a broker query may return has been said by the broker.
LEMMA ObservationsHeard ==
    ASSUME BrokerType, NEW f \in Observations
    PROVE  f \in Fact /\ Heard(f) /\ f # NoFact
  <1>1. PICK s \in {broker.st} \cup ({"UNKNOWN"} \cap BrokerStatuses) :
            broker.st # "NONE" /\ f = [status |-> s, filled |-> broker.filled]
    BY DEF Observations
  <1>2. s \in Status /\ (s \in CertainOutcome => broker.st = s)
    BY <1>1, BrokerFacts DEF Status, CertainOutcome
  <1>3. f.status = s /\ f.filled = broker.filled /\ broker.filled \in 0..Requested
    BY <1>1 DEF BrokerType
  <1>4. f \in Fact
    BY <1>1, <1>2, <1>3 DEF Fact
  <1>5. Heard(f)
    BY <1>2, <1>3, BrokerFacts DEF Heard
  <1>6. f # NoFact
    BY <1>2, <1>3, NoFactFacts DEF Status, ActiveStatus, TerminalStatus
  <1>. QED  BY <1>4, <1>5, <1>6

LEMMA NewAggregateInv ==
    ASSUME IInv, NewAggregate
    PROVE  IInv'
  <1>1. /\ agg.state = "NONE" /\ agg' = ArmedAggregate /\ pc' = "armed" /\ UNCHANGED <<row, att, broker>>
        /\ UNCHANGED <<ready, who, cur, fact, nf, todo, blocked>>
    BY DEF NewAggregate, Goto
  <1>2. ArmedAggregate \in AnyAggregate /\ ArmedAggregate.state = "ARMED"
        /\ ArmedAggregate.filled = 0 /\ ArmedAggregate.err = ""
    BY NoAggregateFacts DEF ArmedAggregate, AnyAggregate, OrderState
  <1>3. (WellFormed(agg))'
    <2>1. 0 # Requested
      BY RequestedNat
    <2>. QED  BY <1>1, <1>2, <2>1, Zenon DEF WellFormed
  <1>4. att[1].state = "NONE" /\ Untouched /\ Untouched'
    BY <1>1 DEF IInv, ControlInv, Untouched
  <1>5. BrokerType' /\ OneBrokerOrder' /\ Memory'
    BY <1>1, Zenon DEF IInv, BrokerType, OneBrokerOrder, Memory
  <1>6. LedgerInv'
    <2>0. broker'.filled \in Nat /\ agg'.filled = 0 /\ row'.filled <= broker'.filled
      BY <1>1, <1>2, BrokerFacts DEF IInv, LedgerInv
    <2>1. agg'.filled <= broker'.filled /\ row'.filled <= broker'.filled
      BY <2>0
    <2>2. NeverDisowned'
      BY <1>4 DEF NeverDisowned, Untouched
    <2>3. agg'.state \notin CertainOutcome
      BY <1>1, <1>2 DEF CertainOutcome
    <2>. QED  BY <1>1, <1>2, <1>3, <2>1, <2>2, <2>3 DEF IInv, LedgerInv
  <1>7. ControlInv'
    BY <1>1, <1>2, <1>4 DEF IInv, ControlInv, Heard
  <1>. QED  BY <1>5, <1>6, <1>7 DEF IInv

\* Inserting an attempt together with an event of the aggregate.
LEMMA InsertAttemptType ==
    ASSUME NEW t, GoodTx(t), NEW a \in AnyAggregate, NEW i \in Attempts,
           NEW w, w = InsertAttempt([t EXCEPT !.agg = a], i)
    PROVE  /\ w.agg = a /\ w.row = t.row /\ w.att \in [Attempts -> AttemptRow]
           /\ w.att[i].state = "SUBMITTING"
           /\ \A j \in Attempts : j # i => w.att[j] = t.att[j]
  <1> DEFINE v == [t EXCEPT !.agg = a]
             r == [state |-> "SUBMITTING", resp |-> NoFact]
             u == [v EXCEPT !.att[i] = r]
  <1>1. v \in TxType /\ v.agg = a /\ v.row = t.row /\ v.att = t.att
    BY DEF GoodTx, TxType
  <1>2. r \in AttemptRow /\ r.state = "SUBMITTING"
    BY DEF AttemptRow
  <1> HIDE DEF v, r
  <1>3. u.agg = v.agg /\ u.row = v.row /\ u.att = [v.att EXCEPT ![i] = r]
    BY <1>1, <1>2 DEF TxType
  <1>4. v.att \in [Attempts -> AttemptRow]
    BY <1>1 DEF TxType
  <1> HIDE DEF u
  <1>5. /\ u.agg = a /\ u.row = t.row /\ u.att \in [Attempts -> AttemptRow]
        /\ u.att[i].state = "SUBMITTING"
        /\ \A j \in Attempts : j # i => u.att[j] = t.att[j]
    BY <1>1, <1>2, <1>3, <1>4
  <1>6. w = u
    BY DEF InsertAttempt, u, v, r
  <1>. QED  BY <1>5, <1>6

LEMMA SubmitBeginInv ==
    ASSUME IInv, SubmitBegin
    PROVE  IInv'
  <1> DEFINE a == SubmitStarted(agg)
             u == InsertAttempt([Tx EXCEPT !.agg = a], 1)
  <1>1. /\ pc = "armed" /\ agg.state = "ARMED" /\ Untouched /\ agg \in AnyAggregate
        /\ agg.err = "" /\ agg.filled \in Nat /\ agg.filled # Requested /\ WellFormed(agg)
    <2>1. pc = "armed" /\ agg.state = "ARMED" /\ Untouched
      BY DEF SubmitBegin, IInv, ControlInv
    <2>2. WellFormed(agg) /\ agg \in AnyAggregate /\ agg.err = ""
      BY DEF IInv, LedgerInv, WellFormed
    <2>. QED  BY <2>1, <2>2, AggregateTypes DEF WellFormed, TERMINAL_ORDER_STATES
  <1>2. a \in AnyAggregate /\ a.state = "SUBMITTING" /\ a.filled = agg.filled /\ a.err = ""
    <2>1. "SUBMITTING" \in ORDER_TRANSITIONS("ARMED") /\ "SUBMITTING" \in OrderState
      BY DEF ORDER_TRANSITIONS, OrderState
    <2>. QED  BY <1>1, <2>1, UpdatedType DEF SubmitStarted
  <1>3. WellFormed(a)
    BY <1>1, <1>2 DEF WellFormed
  <1>4. BeginSubmit(Tx) = u
    BY TxGood DEF BeginSubmit
  <1> HIDE DEF a
  <1>11. u = InsertAttempt([Tx EXCEPT !.agg = a], 1) /\ GoodTx(Tx) /\ Tx.row = row
    BY TxGood
  <1> HIDE DEF u
  <1>5. /\ u.agg = a /\ u.row = row /\ u.att \in [Attempts -> AttemptRow]
        /\ u.att[1].state = "SUBMITTING"
    <2>1. a \in AnyAggregate /\ 1 \in Attempts
      BY <1>2, AttemptsFacts
    <2>. QED  BY <1>11, <2>1, InsertAttemptType
  <1>6. /\ agg' = a /\ row' = row /\ att' = u.att /\ broker' = broker
        /\ pc' = "submitting" /\ cur' = 1
        /\ UNCHANGED <<ready, who, fact, nf, todo, blocked>>
    BY <1>4, <1>5 DEF SubmitBegin, Write
  <1>7. Memory'
    BY <1>6, AttemptsFacts, Zenon DEF IInv, Memory
  <1>8. BrokerType' /\ OneBrokerOrder'
    BY <1>6 DEF IInv, BrokerType, OneBrokerOrder
  <1>9. LedgerInv'
    <2>1. (WellFormed(agg))'
      BY <1>3, <1>6 DEF WellFormed
    <2>2. NeverDisowned'
      BY <1>1, <1>6 DEF NeverDisowned, Untouched
    <2>3. agg'.state \notin CertainOutcome
      BY <1>2, <1>6 DEF CertainOutcome
    <2>. QED
      BY <1>2, <1>5, <1>6, <2>1, <2>2, <2>3 DEF IInv, LedgerInv
  <1>10. ControlInv'
    <2>1. Untouched' /\ Heard(fact)' /\ nf' <= broker'.filled
      BY <1>1, <1>6 DEF IInv, ControlInv, Untouched, Heard
    <2>. QED
      BY <1>2, <1>5, <1>6, <2>1 DEF ControlInv
  <1>. QED  BY <1>7, <1>8, <1>9, <1>10 DEF IInv

\* A cancel is begun only for an open order, whose broker id is known.
LEMMA BeginCancelInv ==
    ASSUME IInv, agg.state \in OpenStates, NEW i \in Attempts, att[i].state = "NONE",
           Write(BeginCancel(Tx, i)), cur' = i, pc' = "cancelling", who' \in {"live", "sweep"},
           UNCHANGED <<ready, fact, nf, todo, blocked, broker>>
    PROVE  IInv'
  <1> DEFINE a == CancelRequested(agg)
             u == InsertAttempt([Tx EXCEPT !.agg = a], i)
  <1>1. /\ agg \in AnyAggregate /\ WellFormed(agg) /\ agg.err = "" /\ att[1].state # "NONE"
        /\ agg.bid
    BY Zenon DEF IInv, LedgerInv, ControlInv, WellFormed
  <1>2. Evolves(agg, a, {}) /\ a.filled = agg.filled
    BY <1>1, CancelEvolves, FilledKept
  <1>3. a.state = "CANCEL_REQUESTED" /\ a.err = ""
    <2>1. "CANCEL_REQUESTED" \in ORDER_TRANSITIONS(agg.state) /\ "CANCEL_REQUESTED" \in OrderState
      BY DEF ORDER_TRANSITIONS, OrderState
    <2>2. a = Updated(agg, "CANCEL_REQUESTED")
      BY <1>1, Zenon DEF CancelRequested
    <2>3. agg \in AnyAggregate /\ agg.err = ""
      BY <1>1, Zenon
    <2> HIDE DEF a
    <2>. QED  BY <2>1, <2>2, <2>3, UpdatedType
  <1>4. BeginCancel(Tx, i) = u /\ WellFormed(a) /\ a \in AnyAggregate
    BY <1>2, TxGood DEF BeginCancel, Evolves, WellFormed
  <1> HIDE DEF a
  <1>11. i # 1
    BY <1>1, Zenon
  <1>12. /\ u = InsertAttempt([Tx EXCEPT !.agg = a], i) /\ GoodTx(Tx) /\ Tx.row = row
         /\ Tx.att = att
    BY TxGood
  <1> HIDE DEF u
  <1>5. /\ u.agg = a /\ u.row = row /\ u.att \in [Attempts -> AttemptRow]
        /\ u.att[1] = att[1]
    BY <1>11, <1>12, <1>4, AttemptsFacts, InsertAttemptType
  <1>6. agg' = a /\ row' = row /\ att' = u.att /\ broker' = broker
    BY <1>4, <1>5 DEF Write
  <1>7. Memory'
    BY Zenon DEF IInv, Memory
  <1>8. BrokerType' /\ OneBrokerOrder'
    BY <1>6 DEF IInv, BrokerType, OneBrokerOrder
  <1>9. LedgerInv'
    <2>1. (WellFormed(agg))'
      BY <1>4, <1>6 DEF WellFormed
    <2>2. NeverDisowned'
      BY <1>1, <1>3, <1>5, <1>6 DEF NeverDisowned
    <2>3. agg'.state \notin CertainOutcome
      BY <1>3, <1>6 DEF CertainOutcome
    <2>. QED
      BY <1>2, <1>3, <1>5, <1>6, <2>1, <2>2, <2>3 DEF IInv, LedgerInv
  <1>10. ControlInv'
    <2>1. Heard(fact)' /\ nf' <= broker'.filled
      BY <1>6 DEF IInv, ControlInv, Heard
    <2>. QED
      BY <1>1, <1>3, <1>5, <1>6, <1>11, <2>1 DEF ControlInv
  <1>. QED  BY <1>7, <1>8, <1>9, <1>10 DEF IInv

\* Steps that only move the process and the facts it holds.
LEMMA MoveInv ==
    ASSUME IInv, UNCHANGED durable, UNCHANGED broker, Memory',
           att[1].state # "NONE",
           pc' \in {"confirm", "returned", "lost", "refresh", "unreadable", "queryFills",
                   "recover"},
           pc' \in {"returned", "refresh"} => fact' # NoFact,
           Heard(fact'), nf' <= broker.filled
    PROVE  IInv'
  <1>1. agg' = agg /\ row' = row /\ att' = att /\ broker' = broker
    BY DEF durable
  <1>2. agg.state # "NONE"
    BY DEF IInv, ControlInv
  <1>3. Heard(fact)'
    BY <1>1 DEF Heard
  <1>4. ControlInv'
    BY <1>1, <1>2, <1>3 DEF ControlInv
  <1>. QED  BY <1>4, SameLedger DEF IInv

\* Outside the idle and armed labels a submit has been begun.
LEMMA Begun ==
    ASSUME IInv, pc \notin {"idle", "armed"}
    PROVE  att[1].state # "NONE" /\ agg.state # "NONE"
  BY DEF IInv, ControlInv

LEMMA SubmitCallInv ==
    ASSUME IInv, SubmitCall
    PROVE  IInv'
  <1>1. /\ pc = "submitting" /\ UNCHANGED durable
        /\ UNCHANGED <<ready, who, cur, fact, nf, todo, blocked>>
        /\ pc' \in {"confirm", "refused", "lost"}
        /\ pc' = "refused" => broker' = broker
        /\ broker' \in {Accept(broker), [broker EXCEPT !.inflight = TRUE], broker}
    BY DEF SubmitCall, Goto
  <1>2. /\ Untouched /\ agg.state = "SUBMITTING" /\ att[1].state # "NONE" /\ WellFormed(agg)
        /\ agg.filled \in Nat /\ row.filled \in Nat /\ fact.filled \in Nat /\ nf \in Nat
    <2>1. Untouched /\ agg.state = "SUBMITTING" /\ att[1].state # "NONE" /\ WellFormed(agg)
      BY <1>1, Begun DEF IInv, ControlInv, LedgerInv
    <2>2. agg.filled \in Nat
      BY <2>1, AggregateTypes DEF WellFormed
    <2>3. row \in Fact \cup {NoFact}
      BY DEF IInv, LedgerInv
    <2>. QED  BY <2>1, <2>2, <2>3, FactFilled, MemoryFacts, RequestedNat
  <1>3. agg' = agg /\ row' = row /\ att' = att
    BY <1>1 DEF durable
  <1>4. /\ BrokerType' /\ OneBrokerOrder' /\ broker'.filled = broker.filled
        /\ broker'.st \in {"NONE", "PENDING_NEW"}
    <2>1. broker.st = "NONE" /\ broker.inflight = FALSE /\ broker.n = 0
      BY <1>2, Zenon DEF Untouched, IInv, BrokerType
    <2>2. CASE broker' = Accept(broker)
      <3>1. /\ broker'.st = "PENDING_NEW" /\ broker'.n = 1 /\ broker'.inflight = FALSE
            /\ broker'.filled = broker.filled
        BY <2>1, <2>2 DEF Accept, IInv, BrokerType
      <3>2. BrokerType'
        <4>1. broker.n + 1 \in Nat /\ "PENDING_NEW" \in Status
          BY <2>1 DEF Status, ActiveStatus
        <4>. QED  BY <2>2, <3>1, <4>1 DEF Accept, IInv, BrokerType
      <3>. QED  BY <3>1, <3>2 DEF OneBrokerOrder
    <2>3. CASE broker' = [broker EXCEPT !.inflight = TRUE]
      <3>1. /\ broker'.st = "NONE" /\ broker'.n = 0 /\ broker'.inflight = TRUE
            /\ broker'.filled = broker.filled
        BY <2>1, <2>3 DEF IInv, BrokerType
      <3>2. BrokerType'
        BY <2>3, <3>1 DEF IInv, BrokerType
      <3>. QED  BY <3>1, <3>2 DEF OneBrokerOrder
    <2>4. CASE broker' = broker
      BY <2>1, <2>4 DEF IInv, BrokerType, OneBrokerOrder
    <2>. QED  BY <1>1, <2>2, <2>3, <2>4
  <1>5. Memory'
    BY <1>1, Zenon DEF IInv, Memory
  <1>6. LedgerInv'
    <2>1. (WellFormed(agg))'
      BY <1>2, <1>3 DEF WellFormed
    <2>2. NeverDisowned'
      BY <1>2, <1>3 DEF NeverDisowned
    <2>3. agg'.state \notin CertainOutcome
      BY <1>2, <1>3 DEF CertainOutcome
    <2>. QED  BY <1>3, <1>4, <2>1, <2>2, <2>3 DEF IInv, LedgerInv
  <1>7. ControlInv'
    <2>1. fact.status \notin CertainOutcome
      BY <1>2 DEF IInv, ControlInv, Heard, Untouched, CertainOutcome
    <2>2. Heard(fact)' /\ nf' <= broker'.filled
      BY <1>1, <1>4, <2>1 DEF IInv, ControlInv, Heard
    <2>3. pc' = "refused" => Untouched'
      BY <1>1, <1>2 DEF Untouched
    <2>. QED  BY <1>1, <1>2, <1>3, <2>2, <2>3 DEF ControlInv
  <1>. QED  BY <1>4, <1>5, <1>6, <1>7 DEF IInv

LEMMA CancelCallInv ==
    ASSUME IInv, CancelCall
    PROVE  IInv'
  <1>1. /\ pc = "cancelling" /\ UNCHANGED durable
        /\ UNCHANGED <<ready, who, cur, fact, nf, todo, blocked>>
        /\ pc' \in {"confirm", "refused", "lost"}
        /\ broker' \in {AcceptCancel(broker), broker}
    BY DEF CancelCall, Goto
  <1>2. att[1].state # "NONE" /\ agg.state # "NONE" /\ cur # 1 /\ WellFormed(agg)
    BY <1>1, Begun DEF IInv, ControlInv, LedgerInv
  <1>3. agg' = agg /\ row' = row /\ att' = att
    BY <1>1 DEF durable
  <1>4. /\ BrokerType' /\ OneBrokerOrder' /\ broker'.filled = broker.filled
        /\ broker.st \in CertainOutcome => broker'.st = broker.st
        /\ broker'.inflight = broker.inflight
        /\ broker'.st = "NONE" <=> broker.st = "NONE"
    <2>1. CASE broker' = broker
      BY <2>1 DEF IInv, BrokerType, OneBrokerOrder
    <2>2. CASE broker.st \in ActiveStatus /\ broker' = [broker EXCEPT !.st = "PENDING_CANCEL"]
      <3>1. /\ broker'.st = "PENDING_CANCEL" /\ broker'.n = broker.n
            /\ broker'.inflight = broker.inflight /\ broker'.filled = broker.filled
        BY <2>2 DEF IInv, BrokerType
      <3>2. broker.st # "NONE" /\ broker.st \notin CertainOutcome /\ "PENDING_CANCEL" \in Status
        BY <2>2 DEF ActiveStatus, CertainOutcome, Status
      <3>3. BrokerType'
        BY <2>2, <3>1, <3>2 DEF IInv, BrokerType
      <3>4. OneBrokerOrder'
        BY <3>1 DEF IInv, OneBrokerOrder
      <3>. QED  BY <3>1, <3>2, <3>3, <3>4
    <2>. QED  BY <1>1, <2>1, <2>2, Zenon DEF AcceptCancel
  <1>5. Memory'
    BY <1>1, Zenon DEF IInv, Memory
  <1>6. LedgerInv'
    <2>1. (WellFormed(agg))'
      BY <1>2, <1>3 DEF WellFormed
    <2>2. NeverDisowned'
      BY <1>3, <1>4 DEF IInv, LedgerInv, NeverDisowned
    <2>. QED  BY <1>3, <1>4, <2>1, <2>2 DEF IInv, LedgerInv
  <1>7. ControlInv'
    <2>1. Heard(fact)' /\ nf' <= broker'.filled
      BY <1>1, <1>4 DEF IInv, ControlInv, Heard
    <2>. QED  BY <1>1, <1>2, <1>3, <2>1 DEF ControlInv
  <1>. QED  BY <1>4, <1>5, <1>6, <1>7 DEF IInv

LEMMA QueryInv ==
    ASSUME IInv, Confirm \/ RefreshOrders
    PROVE  IInv'
  <1>1. /\ pc \in {"confirm", "open"} /\ UNCHANGED durable /\ UNCHANGED broker
        /\ UNCHANGED <<ready, who, cur, nf, todo, blocked>>
        /\ \/ fact' \in Observations /\ pc' \in {"returned", "refresh"}
           \/ fact' = fact /\ pc' = "lost"
    BY DEF Confirm, RefreshOrders, Goto, durable
  <1>2. att[1].state # "NONE"
    BY <1>1, Begun
  <1>3. /\ fact' \in Fact \cup {NoFact} /\ Heard(fact') /\ nf' <= broker.filled
        /\ pc' \in {"returned", "refresh"} => fact' # NoFact
    BY <1>1, MemoryFacts, ObservationsHeard DEF IInv
  <1>4. Memory'
    BY <1>1, <1>3, Zenon DEF IInv, Memory
  <1>. QED  BY <1>1, <1>2, <1>3, <1>4, MoveInv

LEMMA CancelBegins ==
    ASSUME IInv, DeadlineCancel \/ SweepBegin
    PROVE  IInv'
  <1>1. /\ agg.state \in OpenStates /\ pc' = "cancelling" /\ who' \in {"live", "sweep"}
        /\ UNCHANGED <<ready, fact, nf, todo, blocked, broker>>
    <2>1. who \in {"live", "sweep"} /\ (pc = "open" => agg.state \in OpenStates)
      BY DEF IInv, Memory, ControlInv
    <2>. QED  BY <2>1 DEF DeadlineCancel, SweepBegin, SweepCandidate
  <1>2. PICK i \in Attempts : att[i].state = "NONE" /\ Write(BeginCancel(Tx, i)) /\ cur' = i
    BY DEF DeadlineCancel, SweepBegin, NextAttempt
  <1>. QED  BY <1>1, <1>2, BeginCancelInv

LEMMA CleanBoolean ==
    ASSUME NEW t, NEW b \in BOOLEAN
    PROVE  Clean(t, b) \in BOOLEAN
  BY DEF Clean

LEMMA StopsInv ==
    ASSUME IInv, Crash \/ Restart \/ WindowIncomplete \/ RecoverNothing \/ RecoverUnavailableDone
    PROVE  IInv'
  <1>1. UNCHANGED durable /\ UNCHANGED broker
    BY DEF Crash, Restart, WindowIncomplete, RecoverNothing, RecoverUnavailableDone, durable
  <1>2. ready \in BOOLEAN /\ blocked \in BOOLEAN
    BY Zenon DEF IInv, Memory
  <1>3. \E r \in BOOLEAN : Idle(r)
    BY <1>2, CleanBoolean, Zenon
       DEF Crash, Restart, WindowIncomplete, RecoverNothing, RecoverUnavailableDone
  <1>. QED  BY <1>1, <1>3, HaltInv

\* Recovery starts only when there is something in the ledger to recover.
LEMMA RecoverQueries ==
    ASSUME IInv,
           \/ RecoverUnreadable
           \/ \E f \in Observations \cup {NoFact} : RecoverOrders(f)
           \/ \E k \in 0..Requested : RecoverFills(k)
           \/ RecoverFillsUnreadable
    PROVE  IInv'
  <1>1. UNCHANGED durable /\ UNCHANGED broker
    BY DEF RecoverUnreadable, RecoverOrders, RecoverFills, RecoverFillsUnreadable, durable
  <1>2. att[1].state # "NONE"
    <2>1. CASE NeedsRecovery
      BY <2>1 DEF NeedsRecovery, PendingAttempts, IInv, ControlInv
    <2>2. CASE pc = "queryFills"
      BY <2>2, Begun
    <2>. QED
      BY <2>1, <2>2 DEF RecoverUnreadable, RecoverOrders, RecoverFills, RecoverFillsUnreadable
  <1>3. PendingAttempts \in SUBSET Attempts
    BY DEF PendingAttempts
  <1>4. Heard(fact) /\ Heard(NoFact) /\ nf <= broker.filled
    BY MemoryFacts
  <1>5. CASE RecoverUnreadable
    <2>1. Memory'
      BY <1>3, <1>5, Zenon DEF RecoverUnreadable, IInv, Memory
    <2>. QED  BY <1>1, <1>2, <1>4, <1>5, <2>1, MoveInv DEF RecoverUnreadable
  <1>6. CASE \E f \in Observations \cup {NoFact} : RecoverOrders(f)
    <2>1. PICK f \in Observations \cup {NoFact} : RecoverOrders(f)
      BY <1>6
    <2>2. f \in Fact \cup {NoFact} /\ Heard(f)
      BY <1>4, ObservationsHeard DEF IInv
    <2>3. Memory'
      BY <1>3, <2>1, <2>2, Zenon DEF RecoverOrders, IInv, Memory
    <2>. QED  BY <1>1, <1>2, <1>4, <2>1, <2>2, <2>3, MoveInv DEF RecoverOrders
  <1>7. CASE \E k \in 0..Requested : RecoverFills(k)
    <2>1. PICK k \in 0..Requested : RecoverFills(k)
      BY <1>7
    <2>2. Memory'
      BY <2>1, Zenon DEF RecoverFills, IInv, Memory
    <2>. QED  BY <1>1, <1>2, <1>4, <2>1, <2>2, MoveInv DEF RecoverFills
  <1>8. CASE RecoverFillsUnreadable
    <2>1. Memory'
      BY <1>8, Zenon DEF RecoverFillsUnreadable, IInv, Memory
    <2>. QED  BY <1>1, <1>2, <1>4, <1>8, <2>1, MoveInv DEF RecoverFillsUnreadable
  <1>. QED  BY <1>5, <1>6, <1>7, <1>8

\* Recovery handles one pending attempt and goes on.
LEMMA VisitedInv ==
    ASSUME IInv, pc \in {"unreadable", "recover"}, NEW i \in Attempts, NEW b \in BOOLEAN,
           Visited(i, b), UNCHANGED broker, LedgerInv', agg'.state # "NONE",
           att'[1].state # "NONE"
    PROVE  IInv'
  <1>1. todo' = todo \ {i} /\ blocked' = b /\ UNCHANGED <<pc, ready, who, cur, fact, nf>>
    BY DEF Visited
  <1>2. Memory'
    BY <1>1, Zenon DEF IInv, Memory
  <1>3. Heard(fact)' /\ nf' <= broker'.filled
    BY <1>1 DEF IInv, ControlInv, Heard
  <1>4. ControlInv'
    BY <1>1, <1>3 DEF ControlInv
  <1>5. BrokerType' /\ OneBrokerOrder'
    BY DEF IInv, BrokerType, OneBrokerOrder
  <1>. QED  BY <1>2, <1>4, <1>5 DEF IInv

LEMMA MarkOrHaltInv ==
    ASSUME IInv, pc \in {"unreadable", "recover"}, NEW i \in Attempts, NEW d \in Diagnostics,
           MarkOrHalt(i, d), UNCHANGED broker
    PROVE  IInv'
  <1> DEFINE t == MarkAttemptUnknown(Tx, i, d)
  <1>1. TxStep(Tx, t, NoFact, 0, {}) /\ Allowed({})
    BY TxGood, MarkAttemptUnknownStep DEF Allowed
  <1>2. blocked \in BOOLEAN
    BY Zenon DEF IInv, Memory
  <1>3. CASE t.agg.err = ""
    <2>1. Write(t) /\ Visited(i, blocked)
      BY <1>3 DEF MarkOrHalt
    <2> HIDE DEF t
    <2>2. LedgerInv' /\ agg'.state # "NONE" /\ att'[1].state # "NONE"
      BY <1>1, <1>3, <2>1, Begun, MemoryFacts, WriteLedger
    <2>. QED  BY <1>2, <2>1, <2>2, VisitedInv
  <1>4. CASE t.agg.err # ""
    <2>1. UNCHANGED durable /\ Idle(FALSE)
      BY <1>4 DEF MarkOrHalt
    <2>. QED  BY <2>1, HaltInv
  <1>. QED  BY <1>3, <1>4

\* An order is returned to ARMED only when the broker cannot hold it.
LEMMA ProveNotAcceptedInv ==
    ASSUME IInv, pc = "recover", ProveNotAccepted, UNCHANGED broker
    PROVE  IInv'
  <1> DEFINE t == ResolveNotAccepted(Tx, 1)
  <1>1. AbsenceProvable /\ t.agg.err = "" /\ Write(t) /\ Visited(1, blocked)
    BY DEF ProveNotAccepted
  <1>2. TxStep(Tx, t, NoFact, 0, {"ARMED"})
    BY TxGood, AttemptsFacts, ResolveNotAcceptedStep
  <1>3. Allowed({"ARMED"})
    BY <1>1 DEF AbsenceProvable, Allowed, CertainOutcome
  <1>4. blocked \in BOOLEAN
    BY Zenon DEF IInv, Memory
  <1> HIDE DEF t
  <1>5. LedgerInv' /\ agg'.state # "NONE" /\ att'[1].state # "NONE"
    BY <1>1, <1>2, <1>3, Begun, MemoryFacts, WriteLedger
  <1>. QED  BY <1>1, <1>4, <1>5, AttemptsFacts, VisitedInv

LEMMA RecoverAttemptInv ==
    ASSUME IInv, RecoverUnavailableAttempt \/ RecoverUnproven
    PROVE  IInv'
  <1>1. UNCHANGED broker /\ pc \in {"unreadable", "recover"}
    BY DEF RecoverUnavailableAttempt, RecoverUnproven
  <1>2. /\ "BROKER_RECOVERY_UNAVAILABLE" \in Diagnostics
        /\ "BROKER_ACCEPTANCE_UNPROVEN" \in Diagnostics
    BY DEF Diagnostics
  <1>3. PICK i \in Attempts :
            \/ MarkOrHalt(i, "BROKER_RECOVERY_UNAVAILABLE")
            \/ MarkOrHalt(i, "BROKER_ACCEPTANCE_UNPROVEN")
            \/ pc = "recover" /\ ProveNotAccepted
    BY DEF RecoverUnavailableAttempt, RecoverUnproven
  <1>. QED  BY <1>1, <1>2, <1>3, MarkOrHaltInv, ProveNotAcceptedInv

LEMMA RecoverMatchedInv ==
    ASSUME IInv, RecoverMatched
    PROVE  IInv'
  <1>1. pc = "recover" /\ fact \in Fact /\ UNCHANGED broker
    BY MemoryFacts DEF RecoverMatched
  <1>2. PICK i \in Attempts : RecordMatched(i)
    BY DEF RecoverMatched
  <1> DEFINE t == RecordReturnedResult(Tx, i, fact, nf)
             S == {fact.status, "FILLED"}
  <1>3. TxStep(Tx, t, fact, nf, S)
    BY <1>1, TxGood, MemoryFacts, RecordReturnedResultStep
  <1>4. Allowed(S)
    BY <1>1, MemoryFacts, AllowedFact
  <1>5. blocked \in BOOLEAN /\ att[1].state # "NONE" /\ agg.state # "NONE"
    BY <1>1, Begun, Zenon DEF IInv, Memory
  <1>6. CASE UNCHANGED durable /\ Visited(i, TRUE)
    <2>1. LedgerInv' /\ agg'.state # "NONE" /\ att'[1].state # "NONE"
      BY <1>1, <1>5, <1>6, SameLedger DEF durable
    <2>. QED  BY <1>1, <1>6, <2>1, VisitedInv
  <1>7. CASE t.agg.err = "" /\ Write(t) /\ Visited(i, blocked)
    <2> HIDE DEF t, S
    <2>1. LedgerInv' /\ agg'.state # "NONE" /\ att'[1].state # "NONE"
      BY <1>1, <1>3, <1>4, <1>5, <1>7, MemoryFacts, WriteLedger
    <2>. QED  BY <1>1, <1>5, <1>7, <2>1, VisitedInv
  <1>8. CASE UNCHANGED durable /\ Idle(FALSE)
    BY <1>1, <1>8, HaltInv
  <1>. QED  BY <1>2, <1>6, <1>7, <1>8, Zenon DEF RecordMatched

LEMMA ApplyLateFactsInv ==
    ASSUME IInv, ApplyLateFacts
    PROVE  IInv'
  <1> DEFINE t == ReconcileBrokerFact(Tx, fact, nf)
             unmapped == row = NoFact /\ (fact # NoFact \/ nf > 0)
             S == {fact.status, "FILLED"}
  <1>1. pc = "recover" /\ UNCHANGED broker
    BY DEF ApplyLateFacts
  <1>2. blocked \in BOOLEAN /\ att[1].state # "NONE"
    BY <1>1, Begun, Zenon DEF IInv, Memory
  <1>3. CASE row = NoFact \/ fact = NoFact
    <2>1. UNCHANGED durable /\ Idle(Clean(Tx, blocked \/ unmapped))
      BY <1>3 DEF ApplyLateFacts
    <2>2. Clean(Tx, blocked \/ unmapped) \in BOOLEAN
      BY <1>2, CleanBoolean, Zenon
    <2>. QED  BY <1>1, <2>1, <2>2, HaltInv
  <1>4. CASE ~(row = NoFact \/ fact = NoFact) /\ t.agg.err # ""
    <2>1. UNCHANGED durable /\ Idle(FALSE)
      BY <1>4, Zenon DEF ApplyLateFacts
    <2>. QED  BY <1>1, <2>1, HaltInv
  <1>5. CASE ~(row = NoFact \/ fact = NoFact) /\ t.agg.err = ""
    <2>1. Write(t) /\ Idle(Clean(t, blocked \/ t.agg.late))
      BY <1>5, Zenon DEF ApplyLateFacts
    <2>2. fact \in Fact
      BY <1>5, MemoryFacts
    <2>3. TxStep(Tx, t, fact, nf, S)
      BY <2>2, TxGood, MemoryFacts, ReconcileBrokerFactStep
    <2>4. Allowed(S)
      BY <2>2, MemoryFacts, AllowedFact
    <2> HIDE DEF t, S
    <2>5. LedgerInv' /\ agg'.state # "NONE" /\ att'[1].state # "NONE"
      BY <1>1, <1>2, <1>5, <2>1, <2>2, <2>3, <2>4, MemoryFacts, WriteLedger
    <2>6. t.agg \in AnyAggregate
      BY <2>3 DEF TxStep, TxType
    <2>7. t.agg.late \in BOOLEAN
      BY <2>6 DEF AnyAggregate
    <2>8. Clean(t, blocked \/ t.agg.late) \in BOOLEAN
      BY <1>2, <2>7, CleanBoolean, Zenon
    <2>. QED  BY <1>1, <2>1, <2>5, <2>8, IdleInv
  <1>. QED  BY <1>3, <1>4, <1>5

LEMMA Stuttering == IInv /\ UNCHANGED vars => IInv'
  <1> SUFFICES ASSUME IInv, UNCHANGED vars PROVE IInv'
    OBVIOUS
  <1>1. UNCHANGED durable /\ UNCHANGED broker
    BY DEF vars, durable
  <1>2. Memory'
    BY Zenon DEF IInv, Memory, vars
  <1>3. ControlInv'
    BY DEF IInv, ControlInv, Untouched, Heard, vars
  <1>. QED  BY <1>1, <1>2, <1>3, SameLedger DEF IInv

LEMMA Inductive == IInv /\ [Next]_vars => IInv'
  <1> SUFFICES ASSUME IInv, [Next]_vars PROVE IInv'
    OBVIOUS
  <1>1. CASE BrokerNext
    BY <1>1, BrokerPreserves
  <1>2. CASE LiveNext
    BY <1>2, NewAggregateInv, SubmitBeginInv, SubmitCallInv, CancelCallInv, QueryInv,
       RecordInv, CancelBegins, StopsInv, Zenon DEF LiveNext
  <1>3. CASE RecoverNext
    BY <1>3, StopsInv, RecoverQueries, RecoverAttemptInv, RecoverMatchedInv,
       ApplyLateFactsInv, Zenon DEF RecoverNext
  <1>4. CASE Restart \/ Crash
    BY <1>4, StopsInv
  <1>5. CASE UNCHANGED vars
    BY <1>5, Stuttering
  <1>. QED  BY <1>1, <1>2, <1>3, <1>4, <1>5 DEF Next, NormalNext

-----------------------------------------------------------------------------
(* The theorems.                                                           *)

LEMMA Invariant == Spec => []IInv
  <1>1. Init => IInv
    BY InitIInv
  <1>2. IInv /\ [Next]_vars => IInv'
    BY Inductive
  <1>. QED  BY <1>1, <1>2, PTL DEF Spec

LEMMA AggregateDurable ==
    ASSUME NEW a \in AnyAggregate, a.err = ""
    PROVE  a \in Aggregate
  BY DEF AnyAggregate, Aggregate

\* Every state that the repository ever commits is well typed: no aggregate
\* whose event raised is persisted (Database.transaction rolls back), and
\* neither the ledger nor the process ever counts more shares than requested.
THEOREM TypeCorrect == Spec => []TypeOK
  <1>1. IInv => TypeOK
    <2> SUFFICES ASSUME IInv PROVE TypeOK
      OBVIOUS
    <2>1. agg \in Aggregate
      BY AggregateDurable DEF IInv, LedgerInv, WellFormed
    <2>2. broker \in [st : Status \cup {"NONE"}, filled : 0..Requested, n : Nat,
                      inflight : BOOLEAN]
      BY DEF IInv, BrokerType
    <2>. QED  BY <2>1, <2>2 DEF IInv, LedgerInv, TypeOK
  <1>. QED  BY <1>1, Invariant, PTL

\* However submits, crashes, lost answers and recoveries interleave, the
\* broker never holds two orders for one economic order
\* (LiveExecutionController.execute submits only an order that
\* find_economic_order does not know).
THEOREM AtMostOneBrokerOrder == Spec => []OneBrokerOrder
  <1>1. IInv => OneBrokerOrder
    BY DEF IInv
  <1>. QED  BY <1>1, Invariant, PTL

\* While the broker holds the order or may still receive it, the ledger has a
\* durable submit attempt and does not say "not submitted"
\* (resolve_submit_not_accepted, mark_attempt_unknown).
THEOREM LedgerNeverDisowns == Spec => []NeverDisowned
  <1>1. IInv => NeverDisowned
    BY DEF IInv, LedgerInv
  <1>. QED  BY <1>1, Invariant, PTL

\* The ledger says CANCELLED, REJECTED or EXPIRED only when the broker says
\* exactly that, and FILLED only when every share was executed
\* (_apply_terminal_fact, _apply_fill).
THEOREM TerminalStatesAreTrue == Spec => []TerminalIsBrokerTruth
  <1>1. IInv => TerminalIsBrokerTruth
    <2> SUFFICES ASSUME IInv PROVE TerminalIsBrokerTruth
      OBVIOUS
    <2>1. agg.state \in {"CANCELLED", "REJECTED", "EXPIRED"} => broker.st = agg.state
      BY DEF IInv, LedgerInv, CertainOutcome
    <2>2. ASSUME agg.state = "FILLED" PROVE broker.filled = Requested
      <3>1. agg.filled = Requested /\ agg.filled <= broker.filled
        BY <2>2 DEF IInv, LedgerInv, WellFormed
      <3>2. broker.filled \in Nat /\ broker.filled <= Requested
        BY BrokerFacts DEF IInv
      <3>. QED  BY <3>1, <3>2, RequestedNat
    <2>. QED  BY <2>1, <2>2 DEF TerminalIsBrokerTruth
  <1>. QED  BY <1>1, Invariant, PTL

\* Every persisted aggregate satisfies the checks of
\* OrderAggregate.__post_init__, so loading it never fails.
THEOREM PersistedAggregateLoads == Spec => []AggregateConsistent
  <1>1. IInv => AggregateConsistent
    <2> SUFFICES ASSUME IInv PROVE AggregateConsistent
      OBVIOUS
    <2>1. agg \in AnyAggregate /\ WellFormed(agg)
      BY DEF IInv, LedgerInv, WellFormed
    <2>2. agg.filled \in Nat /\ agg.filled <= Requested
      BY <2>1, AggregateTypes
    <2>3. ASSUME agg.state = "PARTIALLY_FILLED"
          PROVE  agg.filled > 0 /\ agg.filled < Requested
      <3>1. agg.filled > 0 /\ agg.filled # Requested
        BY <2>1, <2>3 DEF WellFormed, TERMINAL_ORDER_STATES
      <3>. QED  BY <2>2, <3>1, RequestedNat
    <2>. QED  BY <2>1, <2>3 DEF WellFormed, AggregateConsistent
  <1>. QED  BY <1>1, Invariant, PTL

-----------------------------------------------------------------------------
(* Terminal orders and retained fills are final.                           *)

\* The step respects them.
Final ==
    /\ agg.state \in TERMINAL_ORDER_STATES => agg'.state = agg.state
    /\ agg'.filled >= agg.filled

LEMMA SameIsFinal ==
    ASSUME IInv, agg' = agg
    PROVE  Final
  <1>1. agg.filled \in Nat
    BY AggregateTypes DEF IInv, LedgerInv, WellFormed
  <1>. QED  BY <1>1 DEF Final

LEMMA EvolutionIsFinal ==
    ASSUME IInv, NEW a, NEW S, Evolves(agg, a, S), agg' = a
    PROVE  Final
  <1>1. agg.filled \in Nat /\ a.filled \in Nat /\ agg.filled <= a.filled
    BY AggregateTypes DEF IInv, LedgerInv, WellFormed, Evolves
  <1>2. a.filled >= agg.filled
    BY ONLY <1>1
  <1>. QED  BY <1>2 DEF Final, Evolves

LEMMA WriteIsFinal ==
    ASSUME IInv, NEW t, NEW f, NEW k, NEW S, TxStep(Tx, t, f, k, S), Write(t)
    PROVE  Final
  BY TxGood, EvolutionIsFinal DEF TxStep, Write

LEMMA RecordIsFinal ==
    ASSUME IInv, RecordReturn \/ RefreshApply \/ RecordLost \/ RecordRefused
    PROVE  Final
  <1>1. ASSUME NEW t, NEW f, NEW k, NEW S, TxStep(Tx, t, f, k, S), CommitOrHalt(t)
        PROVE  Final
    BY <1>1, WriteIsFinal, SameIsFinal DEF CommitOrHalt, durable
  <1>2. CASE RecordReturn \/ RefreshApply
    <2>1. fact \in Fact
      BY <1>2, MemoryFacts DEF RecordReturn, RefreshApply, IInv, ControlInv
    <2>2. PICK k \in 0..broker.filled : \/ CommitOrHalt(RecordReturnedResult(Tx, cur, fact, k))
                                        \/ CommitOrHalt(ReconcileBrokerFact(Tx, fact, k))
      BY <1>2 DEF RecordReturn, RefreshApply
    <2>3. k \in 0..Requested
      BY BrokerFacts, RequestedNat DEF IInv
    <2>. QED
      BY <1>1, <2>1, <2>2, <2>3, TxGood, MemoryFacts, RecordReturnedResultStep,
         ReconcileBrokerFactStep
  <1>3. CASE RecordLost \/ RecordRefused
    <2>1. \/ CommitOrHalt(MarkAttemptUnknown(Tx, cur, "CALL_OUTCOME_UNKNOWN"))
          \/ CommitOrHalt(ResolveNotAccepted(Tx, cur))
      BY <1>3 DEF RecordLost, RecordRefused
    <2>2. "CALL_OUTCOME_UNKNOWN" \in Diagnostics
      BY DEF Diagnostics
    <2>. QED
      BY <1>1, <2>1, <2>2, TxGood, MemoryFacts, MarkAttemptUnknownStep, ResolveNotAcceptedStep
  <1>. QED  BY <1>2, <1>3

\* Inserting an attempt does not touch the aggregate.
LEMMA InsertedAggregate ==
    ASSUME IInv, NEW a, NEW i
    PROVE  InsertAttempt([Tx EXCEPT !.agg = a], i).agg = a
  BY DEF InsertAttempt, Tx

LEMMA BeginIsFinal ==
    ASSUME IInv, NewAggregate \/ SubmitBegin \/ DeadlineCancel \/ SweepBegin
    PROVE  Final
  <1>1. WellFormed(agg) /\ agg \in AnyAggregate /\ agg.filled \in Nat /\ agg.filled <= Requested
    BY AggregateTypes DEF IInv, LedgerInv, WellFormed
  <1>2. CASE NewAggregate
    <2>1. agg.state = "NONE" /\ agg' = ArmedAggregate
      BY <1>2 DEF NewAggregate
    <2>2. agg.filled = 0 /\ ArmedAggregate.filled = 0
      BY <2>1 DEF IInv, ControlInv, ArmedAggregate, NoAggregate
    <2>. QED  BY <2>1, <2>2 DEF Final, TERMINAL_ORDER_STATES
  <1>3. CASE SubmitBegin
    <2>1. /\ agg.state = "ARMED" /\ agg' = SubmitStarted(agg)
      BY <1>3, TxGood, InsertedAggregate
         DEF SubmitBegin, Write, BeginSubmit, IInv, ControlInv
    <2>2. SubmitStarted(agg).filled = agg.filled
      BY <1>1, UpdatedType DEF SubmitStarted, OrderState
    <2>. QED  BY <1>1, <2>1, <2>2 DEF Final, TERMINAL_ORDER_STATES
  <1>4. CASE DeadlineCancel \/ SweepBegin
    <2>1. PICK i \in Attempts : Write(BeginCancel(Tx, i))
      BY <1>4 DEF DeadlineCancel, SweepBegin
    <2>2. agg' = CancelRequested(agg)
      BY <2>1, TxGood, InsertedAggregate DEF Write, BeginCancel
    <2>. QED  BY <1>1, <2>2, CancelEvolves, EvolutionIsFinal
  <1>. QED  BY <1>2, <1>3, <1>4

LEMMA RecoveryIsFinal ==
    ASSUME IInv,
           RecoverUnavailableAttempt \/ RecoverUnproven \/ RecoverMatched \/ ApplyLateFacts
    PROVE  Final
  <1>1. ASSUME NEW t, NEW f, NEW k, NEW S, TxStep(Tx, t, f, k, S), Write(t) \/ UNCHANGED durable
        PROVE  Final
    BY <1>1, WriteIsFinal, SameIsFinal DEF durable
  <1>2. CASE RecoverUnavailableAttempt \/ RecoverUnproven
    <2>1. PICK i \in Attempts :
              \/ \E d \in Diagnostics : Write(MarkAttemptUnknown(Tx, i, d))
              \/ Write(ResolveNotAccepted(Tx, 1))
              \/ UNCHANGED durable
      BY <1>2 DEF RecoverUnavailableAttempt, RecoverUnproven, MarkOrHalt, ProveNotAccepted,
                  Diagnostics
    <2>. QED
      BY <1>1, <2>1, TxGood, AttemptsFacts, MarkAttemptUnknownStep, ResolveNotAcceptedStep,
         SameIsFinal DEF durable
  <1>3. CASE RecoverMatched
    <2>1. fact \in Fact
      BY <1>3, MemoryFacts DEF RecoverMatched
    <2>2. PICK i \in Attempts : Write(RecordReturnedResult(Tx, i, fact, nf)) \/ UNCHANGED durable
      BY <1>3 DEF RecoverMatched, RecordMatched
    <2>. QED  BY <1>1, <2>1, <2>2, TxGood, MemoryFacts, RecordReturnedResultStep
  <1>4. CASE ApplyLateFacts
    <2>1. fact = NoFact => UNCHANGED durable
      BY <1>4 DEF ApplyLateFacts
    <2>2. Write(ReconcileBrokerFact(Tx, fact, nf)) \/ UNCHANGED durable
      BY <1>4 DEF ApplyLateFacts
    <2>3. CASE fact \in Fact
      BY <1>1, <2>2, <2>3, TxGood, MemoryFacts, ReconcileBrokerFactStep
    <2>4. CASE fact = NoFact
      BY <2>1, <2>4, SameIsFinal DEF durable
    <2>. QED  BY <2>3, <2>4, MemoryFacts
  <1>. QED  BY <1>2, <1>3, <1>4

LEMMA OtherStepsAreFinal ==
    ASSUME IInv,
           \/ BrokerNext \/ SubmitCall \/ CancelCall \/ Confirm \/ RefreshOrders
           \/ WindowIncomplete \/ RecoverNothing \/ RecoverUnreadable
           \/ \E f \in Observations \cup {NoFact} : RecoverOrders(f)
           \/ \E k \in 0..Requested : RecoverFills(k)
           \/ RecoverFillsUnreadable \/ RecoverUnavailableDone \/ Restart \/ Crash
           \/ UNCHANGED vars
    PROVE  Final
  <1>1. agg' = agg
    BY DEF BrokerNext, BrokerLateArrival, BrokerFill, BrokerStatus, SubmitCall, CancelCall,
       Confirm, RefreshOrders, WindowIncomplete, RecoverNothing, RecoverUnreadable,
       RecoverOrders, RecoverFills, RecoverFillsUnreadable, RecoverUnavailableDone, Restart,
       Crash, durable, vars
  <1>. QED  BY <1>1, SameIsFinal

\* A terminal order never leaves its state and no step drops a fill, whatever
\* the broker reports late, twice or out of order (_apply_fill,
\* _apply_terminal_fact, ORDER_TRANSITIONS).
THEOREM TerminalOrdersAreFinal == Spec => TerminalIsFinal
  <1>1. IInv /\ [Next]_vars => [Final]_vars
    <2> SUFFICES ASSUME IInv, [Next]_vars PROVE Final
      OBVIOUS
    <2>. QED
      BY RecordIsFinal, BeginIsFinal, RecoveryIsFinal, OtherStepsAreFinal, Zenon
         DEF Next, NormalNext, LiveNext, RecoverNext
  <1>2. [][Final]_vars => TerminalIsFinal
    BY PTL DEF Final, TerminalIsFinal
  <1>. QED  BY <1>1, <1>2, Invariant, PTL DEF Spec

-----------------------------------------------------------------------------
(* The fills of a settled order are the broker's, and a process that may   *)
(* execute knows every order the broker holds.                             *)

\* No outcome of attempt i has been recorded as unknown.
Fresh(a, i) == \A id \in a.seen : id[1] # i

\* What an event keeps that is not about the outcome of an attempt: the outcomes
\* seen and an error once raised; an acknowledgement comes with the broker id.
Quiet(a, b) ==
    /\ b.seen = a.seen
    /\ b.err = "" => a.err = ""
    /\ b.acked # 0 => a.acked # 0 \/ b.bid

LEMMA QuietRefl ==
    ASSUME NEW a
    PROVE  Quiet(a, a)
  BY DEF Quiet

LEMMA QuietTrans ==
    ASSUME NEW a, NEW b, NEW c, NEW S, Quiet(a, b), Quiet(b, c), Evolves(b, c, S)
    PROVE  Quiet(a, c)
  BY DEF Quiet, Evolves

LEMMA RaiseQuiet ==
    ASSUME NEW a \in AnyAggregate, NEW kind \in {"transition", "conflict"}
    PROVE  Quiet(a, Raise(a, kind))
  <1>1. /\ Raise(a, kind).seen = a.seen /\ Raise(a, kind).err = kind
        /\ Raise(a, kind).acked = a.acked
    BY DEF AnyAggregate, Raise
  <1>. QED  BY <1>1 DEF Quiet

LEMMA UpdatedQuiet ==
    ASSUME NEW a \in AnyAggregate, NEW target \in OrderState
    PROVE  /\ Quiet(a, Updated(a, target))
           /\ Updated(a, target).acked = a.acked
           /\ Updated(a, target).err = "" => Updated(a, target).state = target
  <1>1. /\ [a EXCEPT !.state = target].seen = a.seen
        /\ [a EXCEPT !.state = target].err = a.err
        /\ [a EXCEPT !.state = target].acked = a.acked
        /\ [a EXCEPT !.state = target].state = target
    BY DEF AnyAggregate
  <1>2. Quiet(a, [a EXCEPT !.state = target])
    BY <1>1 DEF Quiet
  <1>3. Raise(a, "transition").acked = a.acked /\ Raise(a, "transition").err # ""
    BY DEF AnyAggregate, Raise
  <1>. QED  BY <1>1, <1>2, <1>3, RaiseQuiet DEF Updated

\* Setting the other fields of an aggregate.
LEMMA FieldsQuiet ==
    ASSUME NEW a, NEW b \in AnyAggregate, Quiet(a, b), NEW k, NEW seq
    PROVE  /\ Quiet(a, [b EXCEPT !.bid = TRUE, !.acked = seq])
           /\ Quiet(a, [b EXCEPT !.unclear = seq])
           /\ Quiet(a, [b EXCEPT !.bid = TRUE])
           /\ Quiet(a, [b EXCEPT !.filled = k, !.bid = TRUE])
           /\ Quiet(a, [b EXCEPT !.filled = k, !.bid = TRUE, !.late = TRUE])
  BY DEF AnyAggregate, Quiet

LEMMA EventsQuiet ==
    ASSUME NEW a, WellFormed(a)
    PROVE  /\ \A seq \in Nat : Quiet(a, BrokerAcknowledged(a, seq))
           /\ \A seq \in Nat : Quiet(a, StatusUnknown(a, seq))
           /\ Quiet(a, CancelConfirmed(a))
           /\ Quiet(a, BrokerRejected(a))
           /\ Quiet(a, OrderExpired(a))
           /\ Quiet(a, CancelRequested(a))
           /\ Quiet(a, CancelNotAccepted(a))
           /\ Quiet(a, SubmitNotAccepted(a))
           /\ Quiet(a, UnknownResolvedNotAccepted(a))
           /\ Quiet(a, SubmitStarted(a))
  <1>1. a \in AnyAggregate /\ a.state \in OrderState
    BY AggregateTypes DEF WellFormed
  <1>2. \A to \in OrderState : Quiet(a, Updated(a, to)) /\ Updated(a, to) \in AnyAggregate
    BY <1>1, UpdatedQuiet, UpdatedType
  <1>3. Quiet(a, Raise(a, "transition"))
    BY <1>1, RaiseQuiet
  <1>4. ASSUME NEW seq \in Nat
        PROVE  Quiet(a, BrokerAcknowledged(a, seq)) /\ Quiet(a, StatusUnknown(a, seq))
    <2> DEFINE to == IF a.state \in TERMINAL_ORDER_STATES \cup OpenStates
                                    \cup {"CANCEL_REQUESTED"}
                     THEN a.state ELSE "ACKNOWLEDGED"
               b == Updated(a, to)
               unk == ToUnknown(a)
    <2>1. to \in OrderState
      BY <1>1 DEF OrderState
    <2>2. BrokerAcknowledged(a, seq) \in {a, [b EXCEPT !.bid = TRUE, !.acked = seq]}
      BY DEF BrokerAcknowledged
    <2>3. unk \in AnyAggregate /\ Quiet(a, unk)
      BY <1>1, <1>2 DEF ToUnknown, OrderState
    <2>4. StatusUnknown(a, seq) \in {a, [unk EXCEPT !.unclear = seq]}
      BY DEF StatusUnknown
    <2> HIDE DEF to
    <2>5. b \in AnyAggregate /\ Quiet(a, b)
      BY <1>2, <2>1
    <2> HIDE DEF b, unk
    <2>6. /\ Quiet(a, [b EXCEPT !.bid = TRUE, !.acked = seq])
          /\ Quiet(a, [unk EXCEPT !.unclear = seq]) /\ Quiet(a, a)
      BY <2>3, <2>5, FieldsQuiet, QuietRefl
    <2>. QED  BY <2>2, <2>4, <2>6, Zenon
  <1>5. Quiet(a, CancelConfirmed(a))
    <2> DEFINE b == Updated(a, IF a.state = "FILLED" THEN "FILLED" ELSE "CANCELLED")
    <2>1. b \in AnyAggregate /\ Quiet(a, b)
      BY <1>2 DEF OrderState
    <2>2. CancelConfirmed(a) \in {a, [b EXCEPT !.bid = TRUE]}
      BY DEF CancelConfirmed
    <2> HIDE DEF b
    <2>. QED  BY <2>1, <2>2, FieldsQuiet, QuietRefl
  <1>6. Quiet(a, BrokerRejected(a)) /\ Quiet(a, OrderExpired(a)) /\ Quiet(a, CancelRequested(a))
    BY <1>1, <1>2, <1>3, QuietRefl DEF BrokerRejected, OrderExpired, CancelRequested, OrderState
  <1>7. /\ Quiet(a, CancelNotAccepted(a)) /\ Quiet(a, SubmitNotAccepted(a))
        /\ Quiet(a, UnknownResolvedNotAccepted(a)) /\ Quiet(a, SubmitStarted(a))
    BY <1>2, <1>3 DEF CancelNotAccepted, SubmitNotAccepted, UnknownResolvedNotAccepted,
                      SubmitStarted, OrderState
  <1>. QED  BY <1>4, <1>5, <1>6, <1>7

\* Fills that are applied without an error are all retained.
LEMMA FillReportedExact ==
    ASSUME NEW a, WellFormed(a), NEW k \in 0..Requested
    PROVE  /\ Quiet(a, FillReported(a, k))
           /\ FillReported(a, k).err = "" => FillReported(a, k).filled = Larger(a.filled, k)
  <1>1. a \in AnyAggregate /\ a.state \in OrderState /\ a.filled \in Nat
    BY AggregateTypes DEF WellFormed
  <1>2. k \in Nat /\ ~(k > Requested) /\ (~(k <= a.filled) => Larger(a.filled, k) = k)
        /\ (k <= a.filled => Larger(a.filled, k) = a.filled)
    BY <1>1, RequestedNat DEF Larger
  <1>3. CASE a.err # ""
    BY <1>3, QuietRefl DEF FillReported
  <1>4. CASE k <= a.filled
    BY <1>2, <1>4, QuietRefl DEF FillReported
  <1>5. CASE ~(a.err # "" \/ k <= a.filled)
    <2> DEFINE to == IF k = Requested THEN "FILLED"
                     ELSE IF a.state = "CANCEL_REQUESTED" THEN "CANCEL_REQUESTED"
                     ELSE "PARTIALLY_FILLED"
               b == Updated(a, to)
               c == [b EXCEPT !.filled = k, !.bid = TRUE]
               d == [a EXCEPT !.filled = k, !.bid = TRUE, !.late = TRUE]
    <2>1. to \in OrderState
      BY DEF OrderState
    <2>2. FillReported(a, k) \in {Raise(a, "transition"), c, d}
      BY <1>5 DEF FillReported
    <2> HIDE DEF to
    <2>3. b \in AnyAggregate /\ Quiet(a, b)
      BY <1>1, <2>1, UpdatedType, UpdatedQuiet
    <2> HIDE DEF b
    <2>4. c.filled = k /\ Quiet(a, c)
      BY <2>3, FieldsQuiet DEF AnyAggregate
    <2>5. d.filled = k /\ Quiet(a, d)
      BY <1>1, QuietRefl, FieldsQuiet DEF AnyAggregate
    <2>6. Raise(a, "transition").err # "" /\ Quiet(a, Raise(a, "transition"))
      BY <1>1, RaiseType, RaiseQuiet
    <2> HIDE DEF c, d
    <2>. QED  BY <1>2, <1>5, <2>2, <2>4, <2>5, <2>6
  <1>. QED  BY <1>3, <1>4, <1>5

\* An outcome-unknown event: it is seen, and the first time it makes an order
\* that is not over UNKNOWN.
OutcomeStep(a, b, id) ==
    /\ b.seen \subseteq a.seen \cup {id}
    /\ b.err = "" => a.err = ""
    /\ b.acked # 0 => a.acked # 0
    /\ b.err = "" => b.state \in {a.state, "UNKNOWN"}
    /\ b.err = "" /\ id \notin a.seen /\ a.state \notin TERMINAL_ORDER_STATES =>
          b.state = "UNKNOWN"

LEMMA OutcomeUnknownSeen ==
    ASSUME NEW a, WellFormed(a), NEW id \in Attempts \X Diagnostics
    PROVE  /\ OutcomeStep(a, SubmitOutcomeUnknown(a, id), id)
           /\ OutcomeStep(a, CancelOutcomeUnknown(a, id), id)
  <1> SUFFICES ASSUME NEW b \in {SubmitOutcomeUnknown(a, id), CancelOutcomeUnknown(a, id)}
               PROVE  OutcomeStep(a, b, id)
    OBVIOUS
  <1>1. a \in AnyAggregate /\ a.state \in OrderState /\ "UNKNOWN" \in OrderState
    BY AggregateTypes DEF WellFormed, OrderState
  <1> DEFINE to == IF a.state \in TERMINAL_ORDER_STATES THEN a.state ELSE "UNKNOWN"
             c == IF b = SubmitOutcomeUnknown(a, id) THEN Updated(a, to)
                  ELSE IF a.state \in OpenStates \cup {"CANCEL_REQUESTED", "UNKNOWN"}
                  THEN Updated(a, "UNKNOWN") ELSE Raise(a, "transition")
             d == [c EXCEPT !.seen = @ \cup {id}]
  <1>2. b = IF a.err # "" \/ id \in a.seen THEN a ELSE d
    BY DEF SubmitOutcomeUnknown, CancelOutcomeUnknown, ToUnknown, Once
  <1>3. \A s \in {to, "UNKNOWN"} :
           /\ Updated(a, s) \in AnyAggregate /\ Quiet(a, Updated(a, s))
           /\ Updated(a, s).acked = a.acked
           /\ Updated(a, s).err = "" => Updated(a, s).state = s
    <2>1. to \in OrderState
      BY <1>1
    <2> HIDE DEF to
    <2> TAKE s \in {to, "UNKNOWN"}
    <2>2. s \in OrderState
      BY <1>1, <2>1
    <2>. QED  BY <1>1, <2>2, UpdatedType, UpdatedQuiet, Zenon
  <1>4. /\ Raise(a, "transition") \in AnyAggregate /\ Raise(a, "transition").err # ""
        /\ Raise(a, "transition").acked = a.acked /\ Quiet(a, Raise(a, "transition"))
    <2>1. Raise(a, "transition").acked = a.acked
      BY <1>1 DEF Raise, AnyAggregate
    <2>. QED  BY <1>1, <2>1, RaiseType, RaiseQuiet
  <1>5. /\ c \in AnyAggregate /\ Quiet(a, c) /\ c.acked = a.acked
        /\ c.err = "" =>
              c.state = IF a.state \in TERMINAL_ORDER_STATES /\ b = SubmitOutcomeUnknown(a, id)
                        THEN a.state ELSE "UNKNOWN"
    BY <1>3, <1>4
  <1>7. c.err = "" => c.state \in {a.state, "UNKNOWN"}
                      /\ (a.state \notin TERMINAL_ORDER_STATES => c.state = "UNKNOWN")
    BY <1>5
  <1> HIDE DEF c
  <1>6. d.seen = c.seen \cup {id} /\ d.err = c.err /\ d.acked = c.acked /\ d.state = c.state
    BY <1>5 DEF AnyAggregate
  <1> HIDE DEF d
  <1>. QED  BY <1>2, <1>5, <1>6, <1>7 DEF Quiet, OutcomeStep

\* An attempt that was never begun has no outcome, and an acknowledged order a
\* broker id.
Traced(t) == \A i \in Attempts : t.att[i].state = "NONE" => Fresh(t.agg, i)
Acknowledged(t) == t.agg.acked # 0 => t.agg.bid

\* A transaction keeps both, and an error once raised.
TxQuiet(t, u) ==
    /\ u.agg.err = "" => t.agg.err = ""
    /\ Traced(t) => Traced(u)
    /\ Acknowledged(t) => Acknowledged(u)

LEMMA TxQuietTrans ==
    ASSUME NEW t, NEW u, NEW v, TxQuiet(t, u), TxQuiet(u, v)
    PROVE  TxQuiet(t, v)
  BY DEF TxQuiet

LEMMA SetAggQuiet ==
    ASSUME NEW t, GoodTx(t), NEW a, NEW S, Quiet(t.agg, a), Evolves(t.agg, a, S)
    PROVE  /\ TxQuiet(t, [t EXCEPT !.agg = a])
           /\ [t EXCEPT !.agg = a].agg = a /\ [t EXCEPT !.agg = a].row = t.row
           /\ [t EXCEPT !.agg = a].att = t.att
  <1> DEFINE u == [t EXCEPT !.agg = a]
  <1>1. u.agg = a /\ u.row = t.row /\ u.att = t.att
    BY DEF GoodTx, TxType
  <1> HIDE DEF u
  <1>2. TxQuiet(t, u)
    BY <1>1 DEF TxQuiet, Traced, Fresh, Acknowledged, Quiet, Evolves
  <1>. QED  BY <1>1, <1>2 DEF u

LEMMA FailQuiet ==
    ASSUME NEW t, GoodTx(t), NEW kind \in {"transition", "conflict"}
    PROVE  TxQuiet(t, Fail(t, kind)) /\ Fail(t, kind).agg.err # ""
  <1> DEFINE a == Raise(t.agg, kind)
  <1>1. Quiet(t.agg, a) /\ Evolves(t.agg, a, {}) /\ a.err = kind
    BY RaiseQuiet, RaiseEvolves, RaiseType DEF GoodTx, WellFormed
  <1>2. Fail(t, kind) = IF t.agg.err = "" THEN [t EXCEPT !.agg = a] ELSE t
    BY DEF Fail
  <1> HIDE DEF a
  <1>3. TxQuiet(t, [t EXCEPT !.agg = a]) /\ [t EXCEPT !.agg = a].agg = a
    BY <1>1, SetAggQuiet
  <1>4. TxQuiet(t, t)
    BY DEF TxQuiet
  <1>. QED  BY <1>1, <1>2, <1>3, <1>4

LEMMA RecordBrokerOrderQuiet ==
    ASSUME NEW t, GoodTx(t), NEW f \in Fact
    PROVE  /\ TxQuiet(t, RecordBrokerOrder(t, f))
           /\ RecordBrokerOrder(t, f).agg.err = "" =>
                 RecordBrokerOrder(t, f).agg = t.agg /\ RecordBrokerOrder(t, f).row = f
  <1> SUFFICES ASSUME NEW u, u = RecordBrokerOrder(t, f)
               PROVE  TxQuiet(t, u) /\ (u.agg.err = "" => u.agg = t.agg /\ u.row = f)
    OBVIOUS
  <1> DEFINE v == [t EXCEPT !.row = f]
  <1>1. v.agg = t.agg /\ v.row = f /\ v.att = t.att
    BY DEF TxType, GoodTx
  <1>2. u \in {v, Fail(t, "conflict")}
    BY DEF RecordBrokerOrder
  <1> HIDE DEF v
  <1>3. TxQuiet(t, v)
    BY <1>1 DEF TxQuiet, Traced, Acknowledged
  <1>. QED  BY <1>1, <1>2, <1>3, FailQuiet

LEMMA CompleteAttemptQuiet ==
    ASSUME NEW t, GoodTx(t), NEW i \in Attempts, NEW f \in Fact
    PROVE  /\ TxQuiet(t, CompleteAttempt(t, i, f))
           /\ CompleteAttempt(t, i, f).agg.err = "" =>
                 CompleteAttempt(t, i, f).agg = t.agg /\ CompleteAttempt(t, i, f).row = t.row
  <1> SUFFICES ASSUME NEW u, u = CompleteAttempt(t, i, f)
               PROVE  TxQuiet(t, u) /\ (u.agg.err = "" => u.agg = t.agg /\ u.row = t.row)
    OBVIOUS
  <1> DEFINE r == [state |-> "RETURNED", resp |-> f]
             v == [t EXCEPT !.att[i] = r]
  <1>1. r.state = "RETURNED"
    OBVIOUS
  <1>2. u \in {v, t, Fail(t, "conflict")}
    BY DEF CompleteAttempt
  <1> HIDE DEF r
  <1>3. v.agg = t.agg /\ v.row = t.row /\ v.att = [t.att EXCEPT ![i] = r]
    BY DEF TxType, GoodTx
  <1>4. t.att \in [Attempts -> AttemptRow]
    BY DEF TxType, GoodTx
  <1> HIDE DEF v
  <1>5. \A j \in Attempts : v.att[j].state = "NONE" => t.att[j].state = "NONE"
    BY <1>1, <1>3, <1>4
  <1>6. TxQuiet(t, v) /\ TxQuiet(t, t)
    BY <1>3, <1>5 DEF TxQuiet, Traced, Acknowledged
  <1>. QED  BY <1>2, <1>3, <1>6, FailQuiet

\* The sequence of a broker fact is never the zero that stands for none.
LEMMA SequencePositive ==
    ASSUME NEW f \in Fact
    PROVE  _order_sequence(f) # 0
  <1>1. f.filled \in Nat /\ f.status \in Status
    BY RequestedNat DEF Fact
  <1>2. _STATUS_RANK(f.status) \in Nat /\ (f.status # "UNKNOWN" => _STATUS_RANK(f.status) > 0)
    BY <1>1 DEF _STATUS_RANK, Status, ActiveStatus, TerminalStatus
  <1>. QED  BY <1>1, <1>2 DEF _order_sequence

\* Economics that are applied without an error leave the order with its broker
\* id and exactly the larger of the two fill counts.
LEMMA ApplyBrokerEconomicsExact ==
    ASSUME NEW t, GoodTx(t), NEW f \in Fact, NEW k \in 0..Requested
    PROVE  /\ TxQuiet(t, ApplyBrokerEconomics(t, f, k))
           /\ ApplyBrokerEconomics(t, f, k).agg.err = "" /\ Acknowledged(t) =>
                 /\ ApplyBrokerEconomics(t, f, k).agg.filled = Larger(t.agg.filled, k)
                 /\ ApplyBrokerEconomics(t, f, k).row = t.row /\ ApplyBrokerEconomics(t, f, k).agg.bid
                 /\ ApplyBrokerEconomics(t, f, k).agg.seen = t.agg.seen
  <1> SUFFICES ASSUME NEW u, u = ApplyBrokerEconomics(t, f, k)
               PROVE  /\ TxQuiet(t, u)
                      /\ u.agg.err = "" /\ Acknowledged(t) =>
                            /\ u.agg.filled = Larger(t.agg.filled, k)
                            /\ u.row = t.row /\ u.agg.bid
                            /\ u.agg.seen = t.agg.seen
    OBVIOUS
  <1> DEFINE seq == _order_sequence(f)
             a == IF ~t.agg.bid \/ t.agg.state \notin TERMINAL_ORDER_STATES
                  THEN BrokerAcknowledged(t.agg, seq)
                  ELSE t.agg
             b == FillReported(a, k)
             v == [t EXCEPT !.agg = a]
  <1>1. seq \in Nat /\ seq # 0 /\ WellFormed(t.agg)
    BY SequenceType, SequencePositive DEF GoodTx
  <1> HIDE DEF seq
  <1>2. Evolves(t.agg, a, {}) /\ a.filled = t.agg.filled /\ Quiet(t.agg, a)
    BY <1>1, BrokerAcknowledgedEvolves, EvolvesRefl, FilledKept, EventsQuiet, QuietRefl
  <1>3. WellFormed(a)
    BY <1>2 DEF Evolves
  <1>4. a.err = "" /\ Acknowledged(t) => a.bid
    <2>1. CASE ~(~t.agg.bid \/ t.agg.state \notin TERMINAL_ORDER_STATES)
      BY <2>1
    <2>2. CASE ~t.agg.bid \/ t.agg.state \notin TERMINAL_ORDER_STATES
      <3> DEFINE to == IF t.agg.state \in TERMINAL_ORDER_STATES \cup OpenStates
                                          \cup {"CANCEL_REQUESTED"}
                       THEN t.agg.state ELSE "ACKNOWLEDGED"
                 w == Updated(t.agg, to)
                 x == [w EXCEPT !.bid = TRUE, !.acked = seq]
      <3>1. t.agg \in AnyAggregate /\ t.agg.state \in OrderState
        BY <1>1, AggregateTypes DEF WellFormed
      <3>2. to \in OrderState
        BY <3>1 DEF OrderState
      <3>3. a = IF t.agg.err # "" \/ seq = t.agg.acked THEN t.agg ELSE x
        BY <2>2 DEF BrokerAcknowledged
      <3> HIDE DEF to
      <3>4. w \in AnyAggregate
        BY <3>1, <3>2, UpdatedType
      <3> HIDE DEF w
      <3>5. x.bid
        BY <3>4 DEF AnyAggregate
      <3> HIDE DEF x, a
      <3>. QED  BY <1>1, <3>3, <3>5 DEF Acknowledged
    <2>. QED  BY <2>1, <2>2
  <1>5. u = IF FillSequenceRegressed(t.agg.filled, k) THEN Fail(v, "conflict")
            ELSE [t EXCEPT !.agg = b]
    BY DEF ApplyBrokerEconomics, seq
  <1> HIDE DEF a
  <1>6. Evolves(a, b, {"FILLED"}) /\ Quiet(a, b) /\ (b.err = "" => b.filled = Larger(a.filled, k))
    BY <1>3, FillReportedEvolves, FillReportedExact
  <1> HIDE DEF b
  <1>7. Quiet(t.agg, b) /\ Evolves(t.agg, b, {} \cup {"FILLED"})
    BY <1>1, <1>2, <1>6, QuietTrans, EvolvesTrans
  <1>8. /\ TxQuiet(t, [t EXCEPT !.agg = b])
        /\ [t EXCEPT !.agg = b].agg = b /\ [t EXCEPT !.agg = b].row = t.row
    BY <1>7, SetAggQuiet
  <1>9. TxQuiet(t, v) /\ v.agg = a
    BY <1>2, SetAggQuiet
  <1>10. GoodTx(v)
    <2>1. a \in AnyAggregate
      BY <1>3 DEF WellFormed
    <2>2. v \in TxType
      BY <2>1 DEF GoodTx, TxType
    <2>. QED  BY <1>3, <1>9, <2>2 DEF GoodTx
  <1> HIDE DEF v
  <1>11. TxQuiet(t, Fail(v, "conflict")) /\ Fail(v, "conflict").agg.err # ""
    BY <1>9, <1>10, FailQuiet, TxQuietTrans
  <1>12. b.err = "" /\ Acknowledged(t) =>
             b.filled = Larger(t.agg.filled, k) /\ b.bid /\ b.seen = t.agg.seen
    BY <1>2, <1>4, <1>6, <1>7 DEF Quiet, Evolves
  <1>13. CASE FillSequenceRegressed(t.agg.filled, k)
    BY <1>5, <1>11, <1>13
  <1>14. CASE ~FillSequenceRegressed(t.agg.filled, k)
    BY <1>5, <1>8, <1>12, <1>14
  <1>. QED  BY <1>13, <1>14

LEMMA ApplyTerminalFactQuiet ==
    ASSUME NEW t, GoodTx(t), NEW f \in Fact
    PROVE  /\ TxQuiet(t, ApplyTerminalFact(t, f))
           /\ ApplyTerminalFact(t, f).agg.filled = t.agg.filled
           /\ ApplyTerminalFact(t, f).row = t.row
  <1> SUFFICES ASSUME NEW u, u = ApplyTerminalFact(t, f)
               PROVE  TxQuiet(t, u) /\ u.agg.filled = t.agg.filled /\ u.row = t.row
    OBVIOUS
  <1>1. \A a \in {CancelConfirmed(t.agg), BrokerRejected(t.agg), OrderExpired(t.agg)} :
           Quiet(t.agg, a) /\ a.filled = t.agg.filled /\ \E S : Evolves(t.agg, a, S)
    BY EventsQuiet, FilledKept, TerminalEvolves DEF GoodTx
  <1>2. \/ u = t
        \/ \E a \in {CancelConfirmed(t.agg), BrokerRejected(t.agg), OrderExpired(t.agg)} :
              u = [t EXCEPT !.agg = a]
    BY DEF ApplyTerminalFact
  <1>3. TxQuiet(t, t)
    BY DEF TxQuiet
  <1>4. ASSUME NEW a \in {CancelConfirmed(t.agg), BrokerRejected(t.agg), OrderExpired(t.agg)},
               u = [t EXCEPT !.agg = a]
        PROVE  TxQuiet(t, u) /\ u.agg.filled = t.agg.filled /\ u.row = t.row
    <2>1. PICK S : Evolves(t.agg, a, S)
      BY <1>1
    <2>2. Quiet(t.agg, a) /\ a.filled = t.agg.filled
      BY <1>1
    <2>3. TxQuiet(t, u) /\ u.agg = a /\ u.row = t.row
      BY <1>4, <2>1, <2>2, SetAggQuiet
    <2>. QED  BY <2>2, <2>3
  <1>. QED  BY <1>2, <1>3, <1>4

LEMMA MarkAttemptUnknownQuiet ==
    ASSUME NEW t, GoodTx(t), NEW i \in Attempts, NEW d \in Diagnostics
    PROVE  /\ TxQuiet(t, MarkAttemptUnknown(t, i, d))
           /\ MarkAttemptUnknown(t, i, d).agg.filled = t.agg.filled
           /\ MarkAttemptUnknown(t, i, d).row = t.row
           /\ MarkAttemptUnknown(t, i, d).agg.err = "" =>
                 MarkAttemptUnknown(t, i, d).agg.state \in {t.agg.state, "UNKNOWN"}
           /\ /\ MarkAttemptUnknown(t, i, d).agg.err = ""
              /\ Fresh(t.agg, i) /\ t.agg.state \notin TERMINAL_ORDER_STATES
              =>
                 MarkAttemptUnknown(t, i, d).agg.state = "UNKNOWN"
  <1> SUFFICES ASSUME NEW u, u = MarkAttemptUnknown(t, i, d)
               PROVE  /\ TxQuiet(t, u) /\ u.agg.filled = t.agg.filled /\ u.row = t.row
                      /\ u.agg.err = "" => u.agg.state \in {t.agg.state, "UNKNOWN"}
                      /\ /\ u.agg.err = ""
                         /\ Fresh(t.agg, i) /\ t.agg.state \notin TERMINAL_ORDER_STATES
                         =>
                            u.agg.state = "UNKNOWN"
    OBVIOUS
  <1> DEFINE id == <<i, d>>
             a == IF i = 1 THEN SubmitOutcomeUnknown(t.agg, id)
                  ELSE CancelOutcomeUnknown(t.agg, id)
             r == [t.att[i] EXCEPT !.state = "UNKNOWN"]
  <1>1. id \in Attempts \X Diagnostics /\ id[1] = i /\ WellFormed(t.agg)
    BY DEF GoodTx
  <1>3. u = [t EXCEPT !.agg = a, !.att[i].state = "UNKNOWN"]
    BY DEF MarkAttemptUnknown
  <1>4. a.filled = t.agg.filled /\ Evolves(t.agg, a, {})
    BY <1>1, FilledKept, OutcomeUnknownEvolves
  <1>5. OutcomeStep(t.agg, a, id)
    BY <1>1, OutcomeUnknownSeen
  <1> HIDE DEF a, id
  <1>6. r.state = "UNKNOWN" /\ t.att \in [Attempts -> AttemptRow]
    BY DEF AttemptRow, TxType, GoodTx
  <1>7. u.agg = a /\ u.row = t.row /\ u.att = [t.att EXCEPT ![i] = r]
    BY <1>3 DEF TxType, GoodTx
  <1> HIDE DEF r
  <1>8. \A j \in Attempts : u.att[j].state = "NONE" => j # i /\ t.att[j].state = "NONE"
    BY <1>6, <1>7
  <1>9. Traced(t) => Traced(u)
    BY <1>1, <1>5, <1>7, <1>8 DEF Traced, Fresh, OutcomeStep
  <1>10. TxQuiet(t, u)
    BY <1>4, <1>5, <1>7, <1>9 DEF TxQuiet, Acknowledged, Evolves, OutcomeStep
  <1>11. Fresh(t.agg, i) => id \notin t.agg.seen
    BY <1>1 DEF Fresh
  <1>. QED  BY <1>4, <1>5, <1>7, <1>10, <1>11 DEF OutcomeStep

LEMMA ResolveNotAcceptedQuiet ==
    ASSUME NEW t, GoodTx(t), NEW i \in Attempts
    PROVE  /\ TxQuiet(t, ResolveNotAccepted(t, i))
           /\ ResolveNotAccepted(t, i).agg.filled = t.agg.filled
           /\ ResolveNotAccepted(t, i).row = t.row
           /\ ResolveNotAccepted(t, i).agg.err = "" =>
                 ResolveNotAccepted(t, i).agg.state = "ARMED" \/ ResolveNotAccepted(t, i).agg.bid
  <1> SUFFICES ASSUME NEW u, u = ResolveNotAccepted(t, i)
               PROVE  /\ TxQuiet(t, u) /\ u.agg.filled = t.agg.filled /\ u.row = t.row
                      /\ u.agg.err = "" => u.agg.state = "ARMED" \/ u.agg.bid
    OBVIOUS
  <1> DEFINE a == IF i > 1 THEN CancelNotAccepted(t.agg)
                  ELSE IF t.agg.state = "UNKNOWN" THEN UnknownResolvedNotAccepted(t.agg)
                  ELSE SubmitNotAccepted(t.agg)
             r == [t.att[i] EXCEPT !.state = "FAILED_LOCAL"]
  <1>1. u = [t EXCEPT !.agg = a, !.att[i].state = "FAILED_LOCAL"]
    BY DEF ResolveNotAccepted
  <1>2. a.filled = t.agg.filled /\ Quiet(t.agg, a) /\ (t.agg.bid => a.bid)
    BY FilledKept, EventsQuiet, CancelEvolves, SubmitNotAcceptedEvolves DEF GoodTx, Evolves
  <1>3. a.err = "" => a.state = "ARMED" \/ a.bid
    <2>1. t.agg \in AnyAggregate /\ WellFormed(t.agg)
      BY DEF GoodTx, WellFormed
    <2>2. Updated(t.agg, "ARMED").err = "" => Updated(t.agg, "ARMED").state = "ARMED"
      BY <2>1, UpdatedQuiet DEF OrderState
    <2>3. Raise(t.agg, "transition").err # ""
      BY <2>1, RaiseType
    <2>4. CASE i > 1
      <3>1. t.agg.state = "CANCEL_REQUESTED" => t.agg.bid
        BY <2>1 DEF WellFormed
      <3>2. t.agg.state # "CANCEL_REQUESTED" => a = Raise(t.agg, "transition")
        BY <2>4 DEF CancelNotAccepted
      <3> HIDE DEF a
      <3>. QED  BY <1>2, <2>3, <3>1, <3>2
    <2>5. CASE ~(i > 1)
      BY <2>2, <2>3, <2>5 DEF UnknownResolvedNotAccepted, SubmitNotAccepted
    <2>. QED  BY <2>4, <2>5
  <1> HIDE DEF a
  <1>4. r.state = "FAILED_LOCAL" /\ t.att \in [Attempts -> AttemptRow]
    BY DEF AttemptRow, TxType, GoodTx
  <1>5. u.agg = a /\ u.row = t.row /\ u.att = [t.att EXCEPT ![i] = r]
    BY <1>1 DEF TxType, GoodTx
  <1> HIDE DEF r
  <1>6. \A j \in Attempts : u.att[j].state = "NONE" => t.att[j].state = "NONE"
    BY <1>4, <1>5
  <1>7. TxQuiet(t, u)
    BY <1>2, <1>5, <1>6 DEF TxQuiet, Traced, Fresh, Acknowledged, Quiet
  <1>. QED  BY <1>2, <1>3, <1>5, <1>7

LEMMA SameCumulativeExact ==
    ASSUME NEW t, GoodTx(t), NEW f
    PROVE  /\ TxQuiet(t, SameCumulative(t, f))
           /\ SameCumulative(t, f).agg.err = "" => SameCumulative(t, f) = t /\ t.agg.filled = f.filled
  <1> SUFFICES ASSUME NEW u, u = SameCumulative(t, f)
               PROVE  TxQuiet(t, u) /\ (u.agg.err = "" => u = t /\ t.agg.filled = f.filled)
    OBVIOUS
  <1>1. TxQuiet(t, t)
    BY DEF TxQuiet
  <1>. QED  BY <1>1, FailQuiet DEF SameCumulative

LEMMA FillCount ==
    ASSUME NEW k \in 0..Requested
    PROVE  k \in Nat /\ k <= Requested
  BY RequestedNat

\* record_submit_result and record_cancel_result, when they commit: the fact is
\* recorded, and the retained fills are its cumulative shares; or fills are
\* missing, and then the outcome of a fresh attempt is UNKNOWN.
ResultStep(t, u, i, f, k) ==
    /\ TxQuiet(t, u) /\ u.agg.bid /\ u.row = f
    /\ k = f.filled => u.agg.filled = f.filled
    /\ Fresh(t.agg, i) /\ t.agg.state \notin TERMINAL_ORDER_STATES =>
          u.agg.filled = f.filled \/ u.agg.state = "UNKNOWN"

LEMMA RecordReturnedResultExact ==
    ASSUME NEW t, GoodTx(t), NEW i \in Attempts, NEW f \in Fact, NEW k \in 0..Requested,
           Acknowledged(t), RecordReturnedResult(t, i, f, k).agg.err = ""
    PROVE  ResultStep(t, RecordReturnedResult(t, i, f, k), i, f, k)
  <1> SUFFICES ASSUME NEW u, u = RecordReturnedResult(t, i, f, k), u.agg.err = ""
               PROVE  ResultStep(t, u, i, f, k)
    OBVIOUS
  <1> USE DEF ResultStep
  <1> DEFINE S == {"FILLED"}
             t0 == RecordBrokerOrder(t, f)
             t1 == CompleteAttempt(t0, i, f)
             t2 == ApplyBrokerEconomics(t1, f, k)
             t3 == ApplyTerminalFact(t2, f)
             t4 == SameCumulative(t3, f)
             m == Proven(t, k)
  <1>a. /\ t0 = RecordBrokerOrder(t, f) /\ t1 = CompleteAttempt(t0, i, f)
        /\ t2 = ApplyBrokerEconomics(t1, f, k) /\ t3 = ApplyTerminalFact(t2, f)
        /\ t4 = SameCumulative(t3, f) /\ m = Proven(t, k) /\ "FILLED" \in S
    OBVIOUS
  <1>5. /\ m > f.filled => u = Fail(t, "conflict")
        /\ \/ u = Fail(t, "conflict")
           \/ m < f.filled /\ u = MarkAttemptUnknown(t2, i, "BROKER_FILL_MISSING")
           \/ ~(m < f.filled) /\ \E d \in Diagnostics : u = MarkAttemptUnknown(t2, i, d)
           \/ u = t4
    BY Zenon DEF RecordReturnedResult, Diagnostics
  <1> HIDE DEF S, t0, t1, t2, t3, t4, m
  <1>0. TxStep(t, t0, f, k, S) /\ GoodTx(t0)
    BY <1>a, RecordBrokerOrderStep, TxStepGood
  <1>1. TxStep(t, t1, f, k, S) /\ GoodTx(t1)
    <2>1. TxStep(t0, t1, f, k, S)
      BY <1>0, <1>a, CompleteAttemptStep
    <2>. QED  BY <1>0, <2>1, TxStepTrans, TxStepGood
  <1>2. TxStep(t, t2, f, k, S) /\ GoodTx(t2)
    BY <1>1, <1>a, ApplyBrokerEconomicsStep, TxStepTrans, TxStepGood
  <1>3. GoodTx(t3) /\ TxStep(t2, t3, f, k, {f.status})
    BY <1>2, <1>a, ApplyTerminalFactStep, TxStepGood
  <1>4. t.agg.filled \in Nat /\ k \in Nat /\ f.filled \in Nat /\ f.filled <= Requested
        /\ m \in Nat /\ m = Larger(t.agg.filled, k) /\ t.agg.filled <= m /\ k <= m
    <2>1. t.agg.filled \in Nat
      BY AggregateTypes DEF GoodTx, WellFormed
    <2>2. f.filled \in Nat /\ f.filled <= Requested
      BY FactFilled
    <2>3. k \in Nat
      BY FillCount
    <2>4. m = Larger(t.agg.filled, k)
      BY <1>a DEF Proven
    <2>5. m \in Nat /\ t.agg.filled <= m /\ k <= m
      BY ONLY <2>1, <2>3, <2>4 DEF Larger
    <2>. QED  BY <2>1, <2>2, <2>3, <2>4, <2>5
  <1>6. u # Fail(t, "conflict")
    BY FailQuiet
  <1>7. /\ TxQuiet(t, t0) /\ (t0.agg.err = "" => t0.agg = t.agg /\ t0.row = f)
        /\ TxQuiet(t0, t1) /\ (t1.agg.err = "" => t1.agg = t0.agg /\ t1.row = t0.row)
    BY <1>0, <1>a, RecordBrokerOrderQuiet, CompleteAttemptQuiet, Zenon
  <1>8. /\ TxQuiet(t1, t2)
        /\ t2.agg.err = "" /\ Acknowledged(t1) =>
              /\ t2.agg.filled = Larger(t1.agg.filled, k) /\ t2.row = t1.row /\ t2.agg.bid
              /\ t2.agg.seen = t1.agg.seen
    BY <1>1, <1>a, ApplyBrokerEconomicsExact
  <1>9. TxQuiet(t2, t3) /\ t3.agg.filled = t2.agg.filled /\ t3.row = t2.row
    BY <1>2, <1>a, ApplyTerminalFactQuiet
  <1>10. TxQuiet(t3, t4) /\ (t4.agg.err = "" => t4 = t3 /\ t3.agg.filled = f.filled)
    BY <1>3, <1>a, SameCumulativeExact, Zenon
  <1>11. TxQuiet(t, t2)
    BY <1>7, <1>8, TxQuietTrans
  <1>12. ASSUME t2.agg.err = ""
         PROVE  /\ t2.agg.filled = m /\ t2.row = f /\ t2.agg.bid /\ t2.agg.seen = t.agg.seen
    <2>1. t1.agg.err = "" /\ t0.agg.err = ""
      BY <1>7, <1>8, <1>12 DEF TxQuiet
    <2>2. t1.agg = t.agg /\ t1.row = f
      BY <1>7, <2>1
    <2>3. Acknowledged(t1)
      BY <2>2 DEF Acknowledged
    <2>. QED  BY <1>4, <1>8, <1>12, <2>2, <2>3
  <1>13. CASE u = t4
    <2>1. u = t3 /\ u.agg.filled = f.filled /\ t2.agg.err = ""
      BY <1>9, <1>10, <1>13 DEF TxQuiet
    <2>2. u.row = f /\ u.agg.bid
      BY <1>3, <1>9, <1>12, <2>1 DEF TxStep, Evolves
    <2>3. TxQuiet(t, u)
      BY <1>9, <1>11, <2>1, TxQuietTrans
    <2>. QED  BY <2>1, <2>2, <2>3
  <1>14. ASSUME NEW d \in Diagnostics, u = MarkAttemptUnknown(t2, i, d)
         PROVE  /\ TxQuiet(t, u) /\ u.agg.bid /\ u.row = f /\ u.agg.filled = m
                /\ t2.agg.err = ""
                /\ Fresh(t2.agg, i) /\ t2.agg.state \notin TERMINAL_ORDER_STATES =>
                      u.agg.state = "UNKNOWN"
    <2>1. /\ TxQuiet(t2, u) /\ u.agg.filled = t2.agg.filled /\ u.row = t2.row
          /\ Fresh(t2.agg, i) /\ t2.agg.state \notin TERMINAL_ORDER_STATES =>
                u.agg.state = "UNKNOWN"
      <3> DEFINE v == MarkAttemptUnknown(t2, i, d)
      <3>1. /\ TxQuiet(t2, v) /\ v.agg.filled = t2.agg.filled /\ v.row = t2.row
            /\ v.agg.err = "" /\ Fresh(t2.agg, i) /\ t2.agg.state \notin TERMINAL_ORDER_STATES =>
                  v.agg.state = "UNKNOWN"
        BY <1>2, MarkAttemptUnknownQuiet
      <3>2. u = v
        BY <1>14
      <3> HIDE DEF v
      <3>. QED  BY <3>1, <3>2
    <2>2. t2.agg.err = ""
      BY <2>1 DEF TxQuiet
    <2>3. TxStep(t2, u, f, k, {})
      BY <1>2, <1>14, MarkAttemptUnknownStep
    <2>4. u.agg.bid
      BY <1>12, <2>2, <2>3 DEF TxStep, Evolves
    <2>. QED  BY <1>11, <1>12, <2>1, <2>2, <2>4, TxQuietTrans
  <1>15. CASE m < f.filled /\ u = MarkAttemptUnknown(t2, i, "BROKER_FILL_MISSING")
    <2>1. "BROKER_FILL_MISSING" \in Diagnostics
      BY DEF Diagnostics
    <2>2. k # f.filled
      <3>1. m < f.filled
        BY <1>15
      <3>. QED  BY ONLY <1>4, <3>1
    <2>3. ASSUME Fresh(t.agg, i), t.agg.state \notin TERMINAL_ORDER_STATES
          PROVE  u.agg.state = "UNKNOWN"
      <3>1. t2.agg.err = "" /\ t2.agg.filled = m /\ t2.agg.seen = t.agg.seen
        BY <1>12, <1>14, <1>15, <2>1
      <3>2. Fresh(t2.agg, i)
        BY <2>3, <3>1 DEF Fresh
      <3>3. t2.agg.state # "FILLED"
        <4>1. m # Requested
          <5>1. m < f.filled
            BY <1>15
          <5>. QED  BY ONLY <1>4, <5>1, RequestedNat
        <4>. QED  BY <1>2, <3>1, <4>1 DEF GoodTx, WellFormed
      <3>4. t2.agg.state \notin TERMINAL_ORDER_STATES
        BY <1>2, <2>3, <3>3 DEF TxStep, Evolves, S
      <3>. QED  BY <1>14, <1>15, <2>1, <3>2, <3>4
    <2>. QED  BY <1>14, <1>15, <2>1, <2>2, <2>3
  <1>16. CASE ~(m < f.filled) /\ \E d \in Diagnostics : u = MarkAttemptUnknown(t2, i, d)
    <2>1. m = f.filled
      <3>1. ~(m > f.filled)
        BY <1>5, <1>6
      <3>2. ~(m < f.filled)
        BY <1>16
      <3>. QED  BY ONLY <1>4, <3>1, <3>2
    <2>. QED  BY <1>14, <1>16, <2>1
  <1>. QED  BY <1>5, <1>6, <1>13, <1>15, <1>16

\* reconcile_broker_fact, when it commits, likewise.
LEMMA ReconcileBrokerFactExact ==
    ASSUME NEW t, GoodTx(t), NEW f \in Fact, NEW k \in 0..Requested,
           Acknowledged(t), ReconcileBrokerFact(t, f, k).agg.err = ""
    PROVE  /\ TxQuiet(t, ReconcileBrokerFact(t, f, k))
           /\ ReconcileBrokerFact(t, f, k).agg.bid
           /\ ReconcileBrokerFact(t, f, k).row = f
           /\ ReconcileBrokerFact(t, f, k).agg.filled = f.filled
  <1> SUFFICES ASSUME NEW u, u = ReconcileBrokerFact(t, f, k), u.agg.err = ""
               PROVE  TxQuiet(t, u) /\ u.agg.bid /\ u.row = f /\ u.agg.filled = f.filled
    OBVIOUS
  <1> DEFINE S == {"FILLED"}
             seq == _order_sequence(f)
             t0 == RecordBrokerOrder(t, f)
             t1 == ApplyBrokerEconomics(t0, f, k)
             a == StatusUnknown(t1.agg, seq)
             t2 == [t1 EXCEPT !.agg = a]
             t3 == ApplyTerminalFact(t1, f)
             t4 == IF f.status = "UNKNOWN" THEN t2 ELSE t3
  <1>0. GoodTx(t0)
    BY RecordBrokerOrderStep, TxStepGood
  <1>1. GoodTx(t1)
    BY <1>0, ApplyBrokerEconomicsStep, TxStepGood
  <1>2. TxQuiet(t, t0) /\ (t0.agg.err = "" => t0.agg = t.agg /\ t0.row = f)
    BY RecordBrokerOrderQuiet
  <1>3. /\ TxQuiet(t0, t1)
        /\ t1.agg.err = "" /\ Acknowledged(t0) => t1.row = t0.row /\ t1.agg.bid
    BY <1>0, ApplyBrokerEconomicsExact
  <1>4. u \in {Fail(t, "conflict"), SameCumulative(t4, f)}
    BY Zenon DEF ReconcileBrokerFact
  <1> HIDE DEF t0, t1
  <1>5. /\ Evolves(t1.agg, a, {}) /\ Quiet(t1.agg, a) /\ a.filled = t1.agg.filled
    BY <1>1, SequenceType, StatusUnknownEvolves, EventsQuiet, FilledKept DEF GoodTx
  <1> HIDE DEF a
  <1>6. TxQuiet(t1, t2) /\ t2.agg = a /\ t2.row = t1.row
    BY <1>1, <1>5, SetAggQuiet
  <1>7. TxStep(t1, t2, f, k, {})
    BY <1>1, <1>5, SetAgg
  <1>8. TxQuiet(t1, t3) /\ t3.row = t1.row
    BY <1>1, ApplyTerminalFactQuiet
  <1>9. TxStep(t1, t3, f, k, {f.status})
    BY <1>1, ApplyTerminalFactStep
  <1> HIDE DEF t2, t3
  <1>10. /\ GoodTx(t4) /\ TxQuiet(t1, t4) /\ t4.row = t1.row /\ (t1.agg.bid => t4.agg.bid)
    BY <1>6, <1>7, <1>8, <1>9, TxStepGood DEF TxStep, Evolves
  <1> HIDE DEF t4
  <1>11. u = SameCumulative(t4, f)
    BY <1>4, FailQuiet
  <1>12. u = t4 /\ t4.agg.filled = f.filled
    BY <1>10, <1>11, SameCumulativeExact
  <1>13. t1.agg.err = "" /\ t0.agg.err = ""
    BY <1>3, <1>10, <1>12 DEF TxQuiet
  <1>14. Acknowledged(t0) /\ t0.row = f
    BY <1>2, <1>13 DEF Acknowledged
  <1>15. TxQuiet(t, t1)
    BY <1>2, <1>3, TxQuietTrans
  <1>16. TxQuiet(t, u)
    BY <1>10, <1>12, <1>15, TxQuietTrans, Zenon
  <1>. QED  BY <1>3, <1>10, <1>12, <1>13, <1>14, <1>16

-----------------------------------------------------------------------------
(* The invariant of the accounts.                                          *)

\* The labels from the begin of an attempt to the record of its outcome.
CallSteps == {"submitting", "cancelling", "confirm", "returned", "refused", "lost"}

\* The durable tables agree with each other.
DurableInv ==
    /\ agg.state \notin UnresolvedStates => agg.filled = row.filled
    /\ agg.bid \/ agg.state \in {"NONE", "ARMED", "SUBMITTING", "UNKNOWN"}
    /\ Traced(Tx) /\ Acknowledged(Tx)

\* An attempt in hand was begun from a settled order, is pending and has no
\* outcome yet; only a process that may execute, or the sweep, has one.
StepInv ==
    /\ pc \in CallSteps =>
           /\ agg.filled = row.filled /\ agg.state \in {"SUBMITTING", "CANCEL_REQUESTED"}
           /\ Fresh(agg, cur)
    /\ pc = "armed" => att[1].state = "NONE"
    /\ pc \in CallSteps \cup {"armed", "open", "refresh"} => ready \/ who = "sweep"

\* The broker fills no order it does not have.
EmptyInv == broker.st = "NONE" => broker.filled = 0

AInv == IInv /\ DurableInv /\ StepInv /\ EmptyInv

LEMMA InitAInv == Init => AInv
  <1> SUFFICES ASSUME Init PROVE AInv
    OBVIOUS
  <1>1. IInv
    BY InitIInv
  <1>2. /\ agg = NoAggregate /\ row = NoFact /\ pc = "idle"
        /\ broker.st = "NONE" /\ broker.filled = 0
    BY DEF Init
  <1>3. NoAggregate.seen = {} /\ NoAggregate.acked = 0
    BY DEF NoAggregate
  <1>4. Traced(Tx) /\ Acknowledged(Tx)
    BY <1>1, <1>2, <1>3, TxGood DEF Traced, Fresh, Acknowledged
  <1>5. DurableInv
    BY <1>2, <1>4, NoAggregateFacts, NoFactFacts DEF DurableInv
  <1>6. StepInv /\ EmptyInv
    BY <1>2 DEF StepInv, CallSteps, EmptyInv
  <1>. QED  BY <1>1, <1>5, <1>6 DEF AInv

\* A transaction that keeps what the tables agree on.
LEMMA WriteDurable ==
    ASSUME AInv, NEW t, TxQuiet(Tx, t), Write(t),
           t.agg.state \notin UnresolvedStates => t.agg.filled = t.row.filled,
           t.agg.bid \/ t.agg.state \in {"NONE", "ARMED", "SUBMITTING", "UNKNOWN"}
    PROVE  DurableInv'
  <1>1. agg' = t.agg /\ row' = t.row /\ att' = t.att
    BY DEF Write
  <1>2. Tx'.agg = t.agg /\ Tx'.att = t.att
    BY <1>1 DEF Tx
  <1>3. Traced(t) /\ Acknowledged(t)
    BY DEF AInv, DurableInv, TxQuiet
  <1>4. Traced(Tx') /\ Acknowledged(Tx')
    BY <1>2, <1>3 DEF Traced, Acknowledged
  <1>5. Traced(Tx)' /\ Acknowledged(Tx)'
    BY <1>4 DEF Traced, Fresh, Acknowledged
  <1>. QED  BY <1>1, <1>5 DEF DurableInv

LEMMA SameDurable ==
    ASSUME AInv, UNCHANGED durable
    PROVE  DurableInv'
  <1>1. agg' = agg /\ row' = row /\ att' = att
    BY DEF durable
  <1>2. Traced(Tx)' /\ Acknowledged(Tx)'
    BY <1>1 DEF AInv, DurableInv, Tx, Traced, Fresh, Acknowledged
  <1>. QED  BY <1>1, <1>2 DEF AInv, DurableInv

LEMMA MarkDurable ==
    ASSUME AInv, NEW i \in Attempts, NEW d \in Diagnostics,
           MarkAttemptUnknown(Tx, i, d).agg.err = "", Write(MarkAttemptUnknown(Tx, i, d))
    PROVE  DurableInv'
  <1> DEFINE t == MarkAttemptUnknown(Tx, i, d)
  <1>1. GoodTx(Tx) /\ Tx.agg = agg /\ Tx.row = row
    BY TxGood DEF AInv
  <1>2. TxQuiet(Tx, t) /\ t.agg.filled = agg.filled /\ t.row = row
        /\ t.agg.state \in {agg.state, "UNKNOWN"}
    BY <1>1, MarkAttemptUnknownQuiet
  <1>3. TxStep(Tx, t, NoFact, 0, {})
    BY <1>1, MarkAttemptUnknownStep
  <1>4. Write(t)
    OBVIOUS
  <1> HIDE DEF t
  <1>5. agg.bid => t.agg.bid
    BY <1>1, <1>3 DEF TxStep, Evolves
  <1>. QED
    BY <1>2, <1>4, <1>5, WriteDurable DEF AInv, DurableInv, UnresolvedStates

\* An order goes back to ARMED, or to the open state it was cancelled from, only
\* when its fills are accounted for.
LEMMA ResolveDurable ==
    ASSUME AInv, NEW i \in Attempts, agg.filled = row.filled,
           ResolveNotAccepted(Tx, i).agg.err = "", Write(ResolveNotAccepted(Tx, i))
    PROVE  DurableInv'
  <1> DEFINE t == ResolveNotAccepted(Tx, i)
  <1>1. GoodTx(Tx) /\ Tx.agg = agg /\ Tx.row = row
    BY TxGood DEF AInv
  <1>2. TxQuiet(Tx, t) /\ t.agg.filled = agg.filled /\ t.row = row
        /\ (t.agg.state = "ARMED" \/ t.agg.bid)
    BY <1>1, ResolveNotAcceptedQuiet
  <1>3. Write(t)
    OBVIOUS
  <1> HIDE DEF t
  <1>. QED  BY <1>2, <1>3, WriteDurable

LEMMA ReconcileDurable ==
    ASSUME AInv, fact \in Fact, NEW k \in 0..Requested,
           ReconcileBrokerFact(Tx, fact, k).agg.err = "",
           Write(ReconcileBrokerFact(Tx, fact, k))
    PROVE  DurableInv'
  <1> DEFINE t == ReconcileBrokerFact(Tx, fact, k)
  <1>1. GoodTx(Tx) /\ Acknowledged(Tx)
    BY TxGood DEF AInv, DurableInv
  <1>2. TxQuiet(Tx, t) /\ t.agg.bid /\ t.row = fact /\ t.agg.filled = fact.filled
    BY <1>1, ReconcileBrokerFactExact
  <1>3. Write(t)
    OBVIOUS
  <1> HIDE DEF t
  <1>. QED  BY <1>2, <1>3, WriteDurable

\* Recovery records an answer only with all its fills; the controller also
\* without, but then the outcome of its attempt, still fresh, is UNKNOWN.
LEMMA ReturnedDurable ==
    ASSUME AInv, fact \in Fact, NEW i \in Attempts, NEW k \in 0..Requested,
           k = fact.filled \/ (pc \in CallSteps /\ cur = i),
           RecordReturnedResult(Tx, i, fact, k).agg.err = "",
           Write(RecordReturnedResult(Tx, i, fact, k))
    PROVE  DurableInv'
  <1> DEFINE t == RecordReturnedResult(Tx, i, fact, k)
  <1>1. GoodTx(Tx) /\ Acknowledged(Tx) /\ Tx.agg = agg
    BY TxGood DEF AInv, DurableInv
  <1>2. ResultStep(Tx, t, i, fact, k)
    BY <1>1, RecordReturnedResultExact
  <1>3. pc \in CallSteps => Fresh(agg, cur) /\ agg.state \notin TERMINAL_ORDER_STATES
    BY DEF AInv, StepInv, TERMINAL_ORDER_STATES
  <1>4. Write(t)
    OBVIOUS
  <1> HIDE DEF t
  <1>5. t.agg.filled = fact.filled \/ t.agg.state = "UNKNOWN"
    BY <1>1, <1>2, <1>3 DEF ResultStep
  <1>. QED  BY <1>2, <1>4, <1>5, WriteDurable DEF UnresolvedStates, ResultStep

LEMMA CommitAccounted ==
    ASSUME AInv, pc \in CallSteps \cup {"refresh"}, NEW t, CommitOrHalt(t),
           t.agg.err = "" /\ Write(t) => DurableInv'
    PROVE  DurableInv' /\ StepInv'
  <1>1. DurableInv'
    BY SameDurable DEF CommitOrHalt
  <1>2. pc' = "idle" \/ (pc' = "open" /\ who # "sweep" /\ UNCHANGED <<ready, who>>)
    BY DEF CommitOrHalt, AfterWrite, Idle
  <1>3. StepInv'
    BY <1>2 DEF AInv, StepInv, CallSteps
  <1>. QED  BY <1>1, <1>3

LEMMA RecordAccounted ==
    ASSUME AInv, RecordReturn \/ RefreshApply \/ RecordLost \/ RecordRefused
    PROVE  DurableInv' /\ StepInv'
  <1>0. cur \in Attempts /\ IInv
    BY MemoryFacts DEF AInv
  <1>1. CASE RecordReturn \/ RefreshApply
    <2>1. pc \in {"returned", "refresh"} /\ fact \in Fact
      BY <1>0, <1>1, MemoryFacts DEF RecordReturn, RefreshApply, IInv, ControlInv
    <2>2. PICK k \in 0..broker.filled :
              \/ pc = "returned" /\ CommitOrHalt(RecordReturnedResult(Tx, cur, fact, k))
              \/ pc = "refresh" /\ CommitOrHalt(ReconcileBrokerFact(Tx, fact, k))
      BY <1>1 DEF RecordReturn, RefreshApply
    <2>3. k \in 0..Requested
      BY <1>0, BrokerFacts, RequestedNat DEF IInv
    <2>4. CASE pc = "returned" /\ CommitOrHalt(RecordReturnedResult(Tx, cur, fact, k))
      <3> DEFINE t == RecordReturnedResult(Tx, cur, fact, k)
      <3>1. pc \in CallSteps
        BY <2>4 DEF CallSteps
      <3>2. t.agg.err = "" /\ Write(t) => DurableInv'
        BY <1>0, <2>1, <2>3, <3>1, ReturnedDurable
      <3> HIDE DEF t
      <3>3. CommitOrHalt(t)
        BY <2>4 DEF t
      <3>. QED  BY <3>1, <3>2, <3>3, CommitAccounted
    <2>5. CASE pc = "refresh" /\ CommitOrHalt(ReconcileBrokerFact(Tx, fact, k))
      <3> DEFINE t == ReconcileBrokerFact(Tx, fact, k)
      <3>1. t.agg.err = "" /\ Write(t) => DurableInv'
        BY <2>1, <2>3, ReconcileDurable
      <3>2. CommitOrHalt(t)
        BY <2>5
      <3> HIDE DEF t
      <3>. QED  BY <2>5, <3>1, <3>2, CommitAccounted
    <2>. QED  BY <2>2, <2>4, <2>5
  <1>2. CASE RecordLost \/ RecordRefused
    <2> DEFINE m == MarkAttemptUnknown(Tx, cur, "CALL_OUTCOME_UNKNOWN")
               n == ResolveNotAccepted(Tx, cur)
    <2>1. pc \in CallSteps /\ (CommitOrHalt(m) \/ CommitOrHalt(n))
      BY <1>2 DEF RecordLost, RecordRefused, CallSteps
    <2>2. agg.filled = row.filled
      BY <2>1 DEF AInv, StepInv
    <2>3. "CALL_OUTCOME_UNKNOWN" \in Diagnostics
      BY DEF Diagnostics
    <2>4. m.agg.err = "" /\ Write(m) => DurableInv'
      BY <1>0, <2>3, MarkDurable
    <2>5. n.agg.err = "" /\ Write(n) => DurableInv'
      BY <1>0, <2>2, ResolveDurable
    <2> HIDE DEF m, n
    <2>. QED  BY <2>1, <2>4, <2>5, CommitAccounted
  <1>. QED  BY <1>1, <1>2

\* The order in hand is a new one: its fills and its attempt are still to come.
LEMMA BeginAccounted ==
    ASSUME AInv, NewAggregate \/ SubmitBegin \/ DeadlineCancel \/ SweepBegin
    PROVE  DurableInv' /\ StepInv'
  <1>0. /\ IInv /\ GoodTx(Tx) /\ Tx.agg = agg /\ Tx.row = row /\ Tx.att = att /\ WellFormed(agg)
        /\ agg.state \notin UnresolvedStates => agg.filled = row.filled
        /\ Traced(Tx) /\ Acknowledged(Tx)
    BY TxGood DEF AInv, DurableInv, IInv, LedgerInv
  <1>1. CASE NewAggregate
    <2>1. /\ pc' = "armed" /\ ready' = ready /\ ready /\ agg' = ArmedAggregate
          /\ row' = row /\ att' = att /\ agg.state = "NONE"
      BY <1>1 DEF NewAggregate, Goto
    <2>2. att[1].state = "NONE" /\ row = NoFact
      BY <1>0, <2>1 DEF IInv, ControlInv
    <2>3. /\ ArmedAggregate.state = "ARMED" /\ ArmedAggregate.filled = 0
          /\ ArmedAggregate.seen = {} /\ ArmedAggregate.acked = 0
      BY DEF ArmedAggregate, NoAggregate
    <2>4. Traced(Tx)' /\ Acknowledged(Tx)'
      BY <2>1, <2>3 DEF Tx, Traced, Fresh, Acknowledged
    <2>5. DurableInv'
      BY <2>1, <2>2, <2>3, <2>4, NoFactFacts DEF DurableInv
    <2>. QED  BY <2>1, <2>2, <2>5 DEF StepInv, CallSteps
  <1>2. ASSUME NEW i \in Attempts, NEW a, NEW w, WellFormed(a), Quiet(agg, a),
               a.filled = agg.filled, agg.filled = row.filled, agg.bid => a.bid,
               a.state = "SUBMITTING" \/ (a.state = "CANCEL_REQUESTED" /\ a.bid),
               w = InsertAttempt([Tx EXCEPT !.agg = a], i), Write(w), att[i].state = "NONE",
               cur' = i, pc' \in CallSteps, ready' \/ who' = "sweep"
        PROVE  DurableInv' /\ StepInv'
    <2>1. /\ w.agg = a /\ w.row = row /\ w.att \in [Attempts -> AttemptRow]
          /\ w.att[i].state = "SUBMITTING" /\ \A j \in Attempts : j # i => w.att[j] = att[j]
      BY <1>0, <1>2, InsertAttemptType DEF WellFormed
    <2>2. agg' = a /\ row' = row /\ att' = w.att
      BY <1>2, <2>1 DEF Write
    <2>3. \A j \in Attempts : att'[j].state = "NONE" => att[j].state = "NONE"
      BY <2>1, <2>2
    <2>4. Traced(Tx)'
      BY <1>0, <1>2, <2>2, <2>3 DEF Tx, Traced, Fresh, Quiet
    <2>5. Acknowledged(Tx)'
      BY <1>0, <1>2, <2>2 DEF Tx, Acknowledged, Quiet
    <2>6. DurableInv'
      BY <1>2, <2>2, <2>4, <2>5 DEF DurableInv
    <2>7. Fresh(a, i)
      BY <1>0, <1>2 DEF Traced, Fresh, Quiet
    <2>8. Fresh(agg, cur)'
      BY <1>2, <2>2, <2>7 DEF Fresh
    <2>9. pc' # "armed"
      BY <1>2 DEF CallSteps
    <2>10. StepInv'
      BY <1>2, <2>2, <2>8, <2>9 DEF StepInv
    <2>. QED  BY <2>6, <2>10
  <1>3. CASE SubmitBegin
    <2> DEFINE a == SubmitStarted(agg)
               w == InsertAttempt([Tx EXCEPT !.agg = a], 1)
    <2>1. pc = "armed" /\ agg.state = "ARMED" /\ att[1].state = "NONE" /\ (ready \/ who = "sweep")
      BY <1>0, <1>3 DEF SubmitBegin, AInv, StepInv, IInv, ControlInv
    <2>2. /\ pc' = "submitting" /\ cur' = 1 /\ ready' = ready /\ who' = who /\ Write(w)
      BY <1>0, <1>3 DEF SubmitBegin, BeginSubmit
    <2>3. a = Updated(agg, "SUBMITTING") /\ "SUBMITTING" \in ORDER_TRANSITIONS(agg.state)
          /\ "SUBMITTING" \in OrderState /\ agg \in AnyAggregate
      BY <1>0, <2>1 DEF SubmitStarted, ORDER_TRANSITIONS, OrderState, WellFormed
    <2>7. w = InsertAttempt([Tx EXCEPT !.agg = a], 1)
      OBVIOUS
    <2> HIDE DEF a, w
    <2>4. a.state = "SUBMITTING" /\ a.filled = agg.filled /\ a.bid = agg.bid /\ a \in AnyAggregate
          /\ Quiet(agg, a)
      <3>1. /\ Updated(agg, "SUBMITTING") \in AnyAggregate
            /\ Updated(agg, "SUBMITTING").state = "SUBMITTING"
            /\ Updated(agg, "SUBMITTING").filled = agg.filled
            /\ Updated(agg, "SUBMITTING").bid = agg.bid
            /\ Quiet(agg, Updated(agg, "SUBMITTING"))
        BY <2>3, UpdatedType, UpdatedQuiet
      <3>. QED  BY <2>3, <3>1
    <2>5. WellFormed(a)
      BY <1>0, <2>1, <2>4 DEF WellFormed, TERMINAL_ORDER_STATES
    <2>6. 1 \in Attempts /\ pc' \in CallSteps
          /\ agg.filled = row.filled /\ (ready' \/ who' = "sweep")
      BY <1>0, <2>1, <2>2, AttemptsFacts DEF CallSteps, UnresolvedStates
    <2>. QED  BY <1>2, <2>1, <2>2, <2>4, <2>5, <2>6, <2>7
  <1>4. CASE DeadlineCancel \/ SweepBegin
    <2>1. /\ agg.state \in OpenStates /\ pc' = "cancelling" /\ (ready' \/ who' = "sweep")
      BY <1>0, <1>4 DEF DeadlineCancel, SweepBegin, SweepCandidate, AInv, StepInv, IInv,
                        ControlInv
    <2>2. PICK i \in Attempts : att[i].state = "NONE" /\ Write(BeginCancel(Tx, i)) /\ cur' = i
      BY <1>4 DEF DeadlineCancel, SweepBegin, NextAttempt
    <2> DEFINE a == CancelRequested(agg)
               w == InsertAttempt([Tx EXCEPT !.agg = a], i)
    <2>3. Write(w)
      BY <1>0, <2>2 DEF BeginCancel
    <2>4. agg.bid
      BY <1>0, <2>1 DEF WellFormed
    <2>5. Evolves(agg, a, {}) /\ a.filled = agg.filled /\ Quiet(agg, a)
      BY <1>0, CancelEvolves, FilledKept, EventsQuiet
    <2>6. a.state = "CANCEL_REQUESTED"
      <3>1. /\ "CANCEL_REQUESTED" \in ORDER_TRANSITIONS(agg.state)
            /\ "CANCEL_REQUESTED" \in OrderState
        <4>1. \A s \in OpenStates : "CANCEL_REQUESTED" \in ORDER_TRANSITIONS(s)
          BY ONLY DEF ORDER_TRANSITIONS, OpenStates
        <4>2. agg.state \in OpenStates
          BY <2>1
        <4>. QED  BY <4>1, <4>2 DEF OrderState
      <3>2. a = Updated(agg, "CANCEL_REQUESTED") /\ agg \in AnyAggregate
        BY <1>0, <2>4, Zenon DEF CancelRequested, WellFormed
      <3> HIDE DEF a
      <3>. QED  BY <3>1, <3>2, UpdatedType
    <2>7. WellFormed(a) /\ a.bid
      BY <2>4, <2>5 DEF Evolves
    <2>8. w = InsertAttempt([Tx EXCEPT !.agg = a], i)
      OBVIOUS
    <2> HIDE DEF a, w
    <2>9. agg.filled = row.filled
      BY <1>0, <2>1 DEF UnresolvedStates
    <2>10. pc' \in CallSteps
      BY <2>1 DEF CallSteps
    <2>. QED  BY <1>2, <2>1, <2>2, <2>3, <2>5, <2>6, <2>7, <2>8, <2>9, <2>10
  <1>. QED  BY <1>1, <1>3, <1>4

LEMMA RecoveryAccounted ==
    ASSUME AInv,
           RecoverUnavailableAttempt \/ RecoverUnproven \/ RecoverMatched \/ ApplyLateFacts
    PROVE  DurableInv' /\ StepInv'
  <1>0. IInv /\ nf \in 0..Requested /\ fact \in Fact \cup {NoFact} /\ 1 \in Attempts
    BY MemoryFacts, AttemptsFacts DEF AInv
  <1>1. StepInv'
    <2>1. pc' \in {"idle", "unreadable", "recover"}
      BY DEF RecoverUnavailableAttempt, RecoverUnproven, RecoverMatched, ApplyLateFacts,
             MarkOrHalt, ProveNotAccepted, RecordMatched, Visited, Idle
    <2>. QED  BY <2>1 DEF StepInv, CallSteps
  <1>2. CASE RecoverUnavailableAttempt \/ RecoverUnproven
    <2>1. PICK i \in Attempts :
              \/ \E d \in Diagnostics : /\ MarkAttemptUnknown(Tx, i, d).agg.err = ""
                                        /\ Write(MarkAttemptUnknown(Tx, i, d))
              \/ ProveNotAccepted
              \/ UNCHANGED durable
      BY <1>2 DEF RecoverUnavailableAttempt, RecoverUnproven, MarkOrHalt, Diagnostics
    <2>2. CASE ProveNotAccepted
      <3>1. broker.filled = 0
        BY <2>2 DEF ProveNotAccepted, AbsenceProvable, AInv, EmptyInv
      <3>2. agg.filled \in Nat /\ row.filled \in Nat
        <4>1. agg \in AnyAggregate /\ row \in Fact \cup {NoFact}
          BY <1>0 DEF IInv, LedgerInv, WellFormed
        <4>. QED  BY <4>1, AggregateTypes, FactFilled
      <3>3. agg.filled <= 0 /\ row.filled <= 0
        BY <1>0, <3>1 DEF IInv, LedgerInv
      <3>4. agg.filled = row.filled
        BY ONLY <3>2, <3>3
      <3>. QED  BY <1>0, <1>1, <2>2, <3>4, ResolveDurable DEF ProveNotAccepted
    <2>. QED  BY <1>1, <2>1, <2>2, MarkDurable, SameDurable
  <1>3. CASE RecoverMatched
    <2>1. fact \in Fact
      BY <1>0, <1>3 DEF RecoverMatched
    <2>2. PICK i \in Attempts :
              \/ /\ nf = fact.filled
                 /\ RecordReturnedResult(Tx, i, fact, nf).agg.err = ""
                 /\ Write(RecordReturnedResult(Tx, i, fact, nf))
              \/ UNCHANGED durable
      BY <1>3 DEF RecoverMatched, RecordMatched
    <2>. QED  BY <1>0, <1>1, <2>1, <2>2, ReturnedDurable, SameDurable
  <1>4. CASE ApplyLateFacts
    <2>1. \/ UNCHANGED durable
          \/ /\ fact \in Fact /\ ReconcileBrokerFact(Tx, fact, nf).agg.err = ""
             /\ Write(ReconcileBrokerFact(Tx, fact, nf))
      BY <1>0, <1>4 DEF ApplyLateFacts
    <2>. QED  BY <1>0, <1>1, <2>1, ReconcileDurable, SameDurable
  <1>. QED  BY <1>2, <1>3, <1>4

\* The steps that leave the ledger alone.
LEMMA OtherStepsAccounted ==
    ASSUME AInv,
           \/ BrokerNext \/ SubmitCall \/ CancelCall \/ Confirm \/ RefreshOrders
           \/ WindowIncomplete \/ RecoverNothing \/ RecoverUnreadable
           \/ \E f \in Observations \cup {NoFact} : RecoverOrders(f)
           \/ \E k \in 0..Requested : RecoverFills(k)
           \/ RecoverFillsUnreadable \/ RecoverUnavailableDone \/ Restart \/ Crash
           \/ UNCHANGED vars
    PROVE  DurableInv' /\ StepInv'
  <1>1. UNCHANGED durable
    BY DEF BrokerNext, BrokerLateArrival, BrokerFill, BrokerStatus, SubmitCall, CancelCall,
       Confirm, RefreshOrders, WindowIncomplete, RecoverNothing, RecoverUnreadable,
       RecoverOrders, RecoverFills, RecoverFillsUnreadable, RecoverUnavailableDone, Restart,
       Crash, durable, vars
  <1>2. \/ pc' \in {"idle", "unreadable", "queryFills", "recover"}
        \/ UNCHANGED <<pc, cur, ready, who>>
        \/ pc \in CallSteps /\ pc' \in CallSteps /\ UNCHANGED <<cur, ready, who>>
        \/ pc = "open" /\ pc' = "refresh" /\ UNCHANGED <<ready, who>>
    BY DEF BrokerNext, BrokerLateArrival, BrokerFill, BrokerStatus, SubmitCall, CancelCall,
       Confirm, RefreshOrders, WindowIncomplete, RecoverNothing, RecoverUnreadable,
       RecoverOrders, RecoverFills, RecoverFillsUnreadable, RecoverUnavailableDone, Restart,
       Crash, Idle, Goto, memory, vars, CallSteps
  <1>3. agg' = agg /\ row' = row /\ att' = att
    BY <1>1 DEF durable
  <1>4. StepInv'
    BY <1>2, <1>3 DEF AInv, StepInv, CallSteps, Fresh
  <1>. QED  BY <1>1, <1>4, SameDurable

LEMMA EmptyStays ==
    ASSUME AInv, [Next]_vars
    PROVE  EmptyInv'
  <1>1. /\ broker.st = "NONE" => broker.filled = 0
        /\ broker \in [st : Status \cup {"NONE"}, filled : 0..Requested, n : Nat,
                       inflight : BOOLEAN]
    BY DEF AInv, EmptyInv, IInv, BrokerType
  <1>2. CASE BrokerLateArrival \/ SubmitCall \/ CancelCall
    <2>1. broker' \in {broker, Accept(broker), [broker EXCEPT !.inflight = FALSE],
                       [broker EXCEPT !.inflight = TRUE], AcceptCancel(broker)}
      BY <1>2 DEF BrokerLateArrival, SubmitCall, CancelCall
    <2>2. /\ Accept(broker).st = "PENDING_NEW"
          /\ \A x \in BOOLEAN : /\ [broker EXCEPT !.inflight = x].st = broker.st
                                /\ [broker EXCEPT !.inflight = x].filled = broker.filled
          /\ AcceptCancel(broker) = broker \/ AcceptCancel(broker).st = "PENDING_CANCEL"
      BY <1>1 DEF Accept, AcceptCancel
    <2>. QED  BY <1>1, <2>1, <2>2 DEF EmptyInv
  <1>3. CASE BrokerFill
    <2>1. /\ broker.st \in Working \cup {"CANCELLED"}
          /\ broker'.st \in {broker.st, "FILLED", "PARTIALLY_FILLED"}
      BY <1>1, <1>3 DEF BrokerFill
    <2>. QED  BY <2>1 DEF EmptyInv, Working, ActiveStatus
  <1>4. CASE BrokerStatus
    BY <1>1, <1>4 DEF BrokerStatus, Move, EmptyInv
  <1>5. CASE UNCHANGED broker
    BY <1>1, <1>5 DEF EmptyInv
  <1>6. \/ BrokerLateArrival \/ SubmitCall \/ CancelCall \/ BrokerFill \/ BrokerStatus
        \/ UNCHANGED broker
    BY DEF Next, NormalNext, BrokerNext, LiveNext, RecoverNext, NewAggregate, SubmitBegin,
       Confirm, RecordReturn, RecordRefused, RecordLost, RefreshOrders, RefreshApply,
       DeadlineCancel, WindowIncomplete, SweepBegin, RecoverNothing, RecoverUnreadable,
       RecoverOrders, RecoverFills, RecoverFillsUnreadable, RecoverUnavailableAttempt,
       RecoverUnavailableDone, RecoverUnproven, RecoverMatched, ApplyLateFacts, Restart,
       Crash, vars
  <1>. QED  BY <1>2, <1>3, <1>4, <1>5, <1>6

LEMMA AccountsInductive == AInv /\ [Next]_vars => AInv'
  <1> SUFFICES ASSUME AInv, [Next]_vars PROVE AInv'
    OBVIOUS
  <1>1. IInv'
    BY Inductive DEF AInv
  <1>2. DurableInv' /\ StepInv'
    BY RecordAccounted, BeginAccounted, RecoveryAccounted, OtherStepsAccounted, Zenon
       DEF Next, NormalNext, LiveNext, RecoverNext
  <1>. QED  BY <1>1, <1>2, EmptyStays DEF AInv

LEMMA Accounts == Spec => []AInv
  <1>. QED  BY InitAInv, AccountsInductive, PTL DEF Spec

\* No fill is lost, counted twice or invented: whatever was queried twice, out of
\* date or before a crash, the ledger never runs ahead of the broker, and an
\* order that is not unresolved holds exactly the fills of the last recorded
\* broker fact (the cumulative checks of _record_returned_result and
\* reconcile_broker_fact).
THEOREM FillsStayAccounted == Spec => []FillsAccounted
  <1>1. AInv => FillsAccounted
    BY DEF AInv, DurableInv, IInv, LedgerInv, FillsAccounted
  <1>. QED  BY <1>1, Accounts, PTL

\* The step makes no process ready that does not know the broker's order.
ReadyKnows ==
    ~ready /\ ready' => (broker.st # "NONE" \/ broker.inflight => agg'.bid)

\* Only the end of a recovery makes the process ready, and only over a settled
\* order.
LEMMA ReadyIsSettled ==
    ASSUME AInv, [Next]_vars, ~ready, ready'
    PROVE  agg'.state \notin UnresolvedStates /\ broker' = broker
  <1>1. CASE RecoverNothing \/ RecoverUnavailableDone
    <2>1. /\ UNCHANGED <<durable, broker>> /\ ready' \in {Clean(Tx, FALSE), Clean(Tx, blocked)}
      BY <1>1 DEF RecoverNothing, RecoverUnavailableDone, Idle
    <2>. QED  BY <2>1, TxGood DEF Clean, AInv, durable
  <1>2. CASE ApplyLateFacts
    <2> DEFINE t == ReconcileBrokerFact(Tx, fact, nf)
    <2>1. /\ UNCHANGED broker
          /\ \/ UNCHANGED durable /\ \E b : ready' = Clean(Tx, b)
             \/ Write(t) /\ \E b : ready' = Clean(t, b)
      BY <1>2 DEF ApplyLateFacts, Idle
    <2> HIDE DEF t
    <2>. QED  BY <2>1, TxGood DEF Clean, AInv, durable, Write
  <1>3. CASE RecordReturn \/ RefreshApply \/ RecordLost \/ RecordRefused
    <2>1. pc \in CallSteps \cup {"refresh"} /\ \E t : CommitOrHalt(t)
      BY <1>3 DEF RecordReturn, RefreshApply, RecordLost, RecordRefused, CallSteps
    <2>2. who = "sweep"
      BY <2>1 DEF AInv, StepInv
    <2>. QED  BY <2>1, <2>2 DEF CommitOrHalt, AfterWrite, Idle
  <1>4. CASE UNCHANGED ready \/ ready' = FALSE
    BY <1>4
  <1>5. \/ RecoverNothing \/ RecoverUnavailableDone \/ ApplyLateFacts
        \/ RecordReturn \/ RefreshApply \/ RecordLost \/ RecordRefused
        \/ UNCHANGED ready \/ ready' = FALSE
    BY DEF Next, NormalNext, BrokerNext, BrokerLateArrival, BrokerFill, BrokerStatus, LiveNext,
       RecoverNext, NewAggregate, SubmitBegin, SubmitCall, CancelCall, Confirm, RefreshOrders,
       DeadlineCancel, WindowIncomplete, SweepBegin, RecoverUnreadable, RecoverOrders,
       RecoverFills, RecoverFillsUnreadable, RecoverUnavailableAttempt, RecoverUnproven,
       RecoverMatched, MarkOrHalt, ProveNotAccepted, RecordMatched, Visited, Restart, Crash,
       Idle, Goto, memory, vars
  <1>. QED  BY <1>1, <1>2, <1>3, <1>4, <1>5

\* Recovery lets the process become ready only when the ledger knows the broker
\* order of everything the broker holds or may still receive
\* (RecoveryReport.halt_required).
THEOREM ReadyProcessKnowsOrder == Spec => ReadyKnowsBrokerOrder
  <1>1. AInv /\ [Next]_vars => ReadyKnows
    <2> SUFFICES ASSUME AInv, [Next]_vars, ~ready, ready', broker.st # "NONE" \/ broker.inflight
                 PROVE  agg'.bid
      BY DEF ReadyKnows
    <2>1. AInv'
      BY AccountsInductive
    <2>2. agg'.state \notin UnresolvedStates /\ broker' = broker
      BY ReadyIsSettled
    <2>. QED  BY <2>1, <2>2 DEF AInv, DurableInv, UnresolvedStates, IInv, LedgerInv, NeverDisowned
  <1>2. [][ReadyKnows]_vars => ReadyKnowsBrokerOrder
    BY PTL DEF ReadyKnows, ReadyKnowsBrokerOrder
  <1>3. AInv /\ [Next]_vars => [ReadyKnows]_vars
    BY <1>1
  <1>. QED  BY <1>2, <1>3, Accounts, PTL DEF Spec

=============================================================================
