---------------------------- MODULE OrderLedger ----------------------------
(***************************************************************************)
(* One economic order, end to end: the durable ledger (repositories.py,    *)
(* production_repository.py), the live controller that submits, polls and  *)
(* cancels it (live_controller.py), the operator's cancel-only sweep       *)
(* (cancel_only.py), startup recovery (recovery.py,                        *)
(* production_recovery.py), crashes between any two transactions, and the  *)
(* broker, which is external and moves on its own.                         *)
(*                                                                         *)
(* Durable state: agg (execution_intents), row (broker_orders), att        *)
(* (broker_order_attempts with their broker_responses).  Everything else   *)
(* but the broker is memory and is lost by a crash.                        *)
(***************************************************************************)
EXTENDS OrderAggregate

CONSTANTS
    MaxAttempts,     \* bound on broker attempts: 1 submit + MaxAttempts-1 cancels
    BrokerStatuses   \* the canonical statuses this broker reports

ASSUME MaxAttemptsAssumption == MaxAttempts \in Nat \ {0}

VARIABLES
    agg,       \* the persisted OrderAggregate
    row,       \* the broker_orders row: the last recorded broker fact
    att,       \* attempt number -> state and recorded broker response
    broker,    \* the broker's own order: status, fills, orders accepted, request in flight
    pc,        \* where the single writer process is
    ready,     \* recovery passed and the process may execute
    who,       \* on whose behalf a cancel runs: live controller or sweep
    cur,       \* attempt in hand
    fact,      \* BrokerOrderFact in hand
    nf,        \* fills in hand (a prefix of the broker's fills)
    todo,      \* pending attempts recovery still has to visit
    blocked    \* recovery has recorded a blocker

durable == <<agg, row, att>>
memory == <<pc, ready, who, cur, fact, nf, todo, blocked>>
vars == <<agg, row, att, broker, pc, ready, who, cur, fact, nf, todo, blocked>>

Attempts == 1..MaxAttempts

\* Canonical BrokerOrderStatus values.
ActiveStatus == {"PENDING_NEW", "ACKNOWLEDGED", "PARTIALLY_FILLED"}
TerminalStatus == {"FILLED", "CANCELLED", "REJECTED", "EXPIRED"}
Status == ActiveStatus \cup TerminalStatus \cup {"PENDING_CANCEL", "UNKNOWN"}

Fact == [status : Status, filled : 0..Requested]
NoFact == [status |-> "NONE", filled |-> 0]

_STATUS_RANK(s) ==
    CASE s = "UNKNOWN" -> 0           [] s = "PENDING_NEW" -> 10
      [] s = "ACKNOWLEDGED" -> 20     [] s = "PARTIALLY_FILLED" -> 30
      [] s = "PENDING_CANCEL" -> 40   [] s = "FILLED" -> 60
      [] OTHER -> 50

\* ProductionXtQuantBroker._order_sequence, on fill units of one share.
_order_sequence(f) ==
    f.filled * 100 + (IF f.status = "UNKNOWN" THEN 1 ELSE _STATUS_RANK(f.status))

Diagnostics == {"CALL_OUTCOME_UNKNOWN", "BROKER_FILL_MISSING",
                "BROKER_STATUS_UNKNOWN", "CANCEL_ACCEPTANCE_UNPROVEN",
                "BROKER_ACCEPTANCE_UNPROVEN", "BROKER_RECOVERY_UNAVAILABLE"}

-----------------------------------------------------------------------------
(* The repository.  A transaction is a record of the durable tables; its   *)
(* agg.err # "" is an exception, on which Database.transaction rolls back. *)

Tx == [agg |-> agg, row |-> row, att |-> att]

Fail(t, kind) == IF t.agg.err = "" THEN [t EXCEPT !.agg = Raise(@, kind)] ELSE t

Larger(m, n) == IF m > n THEN m ELSE n

\* _proven_cumulative_shares
Proven(t, k) == Larger(t.agg.filled, k)

\* _validate_fact: the conditions that concern status and cumulative shares.
FactContradicts(f) ==
    \/ f.status = "FILLED" /\ f.filled # Requested
    \/ f.status = "PARTIALLY_FILLED" /\ f.filled \in {0, Requested}

\* _record_broker_order refuses regressing or ambiguous broker truth.
Regresses(f, old) ==
    \/ f.filled < old.filled
    \/ old.status \in TerminalStatus /\ f.status # old.status
    \/ /\ "UNKNOWN" \notin {old.status, f.status}
       /\ _STATUS_RANK(f.status) < _STATUS_RANK(old.status)
    \/ _order_sequence(f) < _order_sequence(old)
    \/ _order_sequence(f) = _order_sequence(old) /\ f # old

RecordBrokerOrder(t, f) ==
    IF t.row # NoFact /\ Regresses(f, t.row) THEN Fail(t, "conflict")
    ELSE [t EXCEPT !.row = f]

\* _complete_attempt_idempotently
CompleteAttempt(t, i, f) ==
    IF t.att[i].resp = NoFact
    THEN [t EXCEPT !.att[i] = [state |-> "RETURNED", resp |-> f]]
    ELSE IF t.att[i].resp = f THEN t
    ELSE Fail(t, "conflict")

\* _record_fill: a new fill must follow every recorded fill of the order.
FillSequenceRegressed(n, k) ==
    \E m \in 2..Requested : m > n /\ m <= k /\ FillSeq[m] <= FillSeq[m-1]

\* _apply_broker_economics: acknowledge, then record and apply the fills.
ApplyBrokerEconomics(t, f, k) ==
    LET a == IF ~t.agg.bid \/ t.agg.state \notin TERMINAL_ORDER_STATES
             THEN BrokerAcknowledged(t.agg, _order_sequence(f))
             ELSE t.agg
    IN  IF FillSequenceRegressed(t.agg.filled, k)
        THEN Fail([t EXCEPT !.agg = a], "conflict")
        ELSE [t EXCEPT !.agg = FillReported(a, k)]

\* mark_attempt_unknown: the event id is (attempt, diagnostic).
MarkAttemptUnknown(t, i, diagnostic) ==
    LET id == <<i, diagnostic>>
    IN  [t EXCEPT !.agg = IF i = 1 THEN SubmitOutcomeUnknown(@, id)
                          ELSE CancelOutcomeUnknown(@, id),
                  !.att[i].state = "UNKNOWN"]

\* Mutant: an order whose cancel is pending counts as cancelled.
PendingCancelIsCancelled(t, f) ==
    IF f.status \in {"PENDING_CANCEL", "CANCELLED"}
    THEN [t EXCEPT !.agg = CancelConfirmed(@)] ELSE t

\* _apply_terminal_fact
ApplyTerminalFact(t, f) ==
    IF t.agg.state = f.status THEN t
    ELSE CASE f.status = "REJECTED"  -> [t EXCEPT !.agg = BrokerRejected(@)]
           [] f.status = "EXPIRED"   -> [t EXCEPT !.agg = OrderExpired(@)]
           [] f.status = "CANCELLED" -> [t EXCEPT !.agg = CancelConfirmed(@)]
           [] OTHER -> t

\* The closing check of both entry points below.
SameCumulative(t, f) ==
    IF t.agg.filled = f.filled THEN t ELSE Fail(t, "conflict")

\* _record_returned_result, behind record_submit_result (i = 1) and
\* record_cancel_result (i > 1).
RecordReturnedResult(t, i, f, k) ==
    LET t1 == CompleteAttempt(RecordBrokerOrder(t, f), i, f)
        t2 == ApplyBrokerEconomics(t1, f, k)
    IN  IF FactContradicts(f) \/ Proven(t, k) > f.filled THEN Fail(t, "conflict")
        ELSE IF Proven(t, k) < f.filled
        THEN MarkAttemptUnknown(t2, i, "BROKER_FILL_MISSING")
        ELSE IF f.status = "UNKNOWN"
        THEN MarkAttemptUnknown(t2, i, "BROKER_STATUS_UNKNOWN")
        ELSE IF i > 1 /\ f.status \notin TerminalStatus
        THEN MarkAttemptUnknown(t2, i, "CANCEL_ACCEPTANCE_UNPROVEN")
        ELSE SameCumulative(ApplyTerminalFact(t2, f), f)

\* Mutant: the status is applied without fills that prove it.
ReconcileUnprovenFact(t, f, k) ==
    IF FactContradicts(f) THEN Fail(t, "conflict")
    ELSE ApplyTerminalFact(ApplyBrokerEconomics(RecordBrokerOrder(t, f), f, k), f)

\* reconcile_broker_fact
ReconcileBrokerFact(t, f, k) ==
    LET t1 == ApplyBrokerEconomics(RecordBrokerOrder(t, f), f, k)
    IN  IF FactContradicts(f) \/ Proven(t, k) # f.filled THEN Fail(t, "conflict")
        ELSE SameCumulative(
               IF f.status = "UNKNOWN"
               THEN [t1 EXCEPT !.agg = StatusUnknown(@, _order_sequence(f))]
               ELSE ApplyTerminalFact(t1, f), f)

\* begin_submit and begin_cancel: event, attempt and command in one transaction.
InsertAttempt(t, i) == [t EXCEPT !.att[i] = [state |-> "SUBMITTING", resp |-> NoFact]]
BeginSubmit(t) == InsertAttempt([t EXCEPT !.agg = SubmitStarted(@)], 1)
BeginCancel(t, i) == InsertAttempt([t EXCEPT !.agg = CancelRequested(@)], i)

\* resolve_submit_not_accepted and resolve_cancel_not_accepted
ResolveNotAccepted(t, i) ==
    [t EXCEPT !.agg = IF i > 1 THEN CancelNotAccepted(@)
                      ELSE IF @.state = "UNKNOWN" THEN UnknownResolvedNotAccepted(@)
                      ELSE SubmitNotAccepted(@),
              !.att[i].state = "FAILED_LOCAL"]

Write(t) == agg' = t.agg /\ row' = t.row /\ att' = t.att

\* _next_attempt_number
NextAttempt(i) == att[i].state = "NONE" /\ \A j \in Attempts : j < i => att[j].state # "NONE"

\* Mutant: recovery forgets the attempts already marked UNKNOWN.
OnlySubmittingAttempts == {i \in Attempts : att[i].state = "SUBMITTING"}

PendingAttempts == {i \in Attempts : att[i].state \in {"SUBMITTING", "UNKNOWN"}}

-----------------------------------------------------------------------------
(* The broker (external).                                                  *)

\* What a query may say of the order: its state, or an uninterpretable status.
Observations ==
    IF broker.st = "NONE" THEN {}
    ELSE {[status |-> s, filled |-> broker.filled] :
            s \in {broker.st} \cup ({"UNKNOWN"} \cap BrokerStatuses)}

Truth == [status |-> broker.st, filled |-> broker.filled]

Working == ActiveStatus \cup {"PENDING_CANCEL"}

Accept(b) == [b EXCEPT !.st = "PENDING_NEW", !.n = @ + 1, !.inflight = FALSE]

AcceptCancel(b) == IF b.st \in ActiveStatus THEN [b EXCEPT !.st = "PENDING_CANCEL"] ELSE b

\* A request whose call timed out may still arrive, or be lost.
BrokerLateArrival ==
    /\ broker.inflight
    /\ broker' \in {Accept(broker), [broker EXCEPT !.inflight = FALSE]}
    /\ UNCHANGED <<durable, memory>>

\* One more unit is executed; it may reach a CANCELLED order late.
BrokerFill ==
    /\ broker.st \in Working \cup {"CANCELLED"}
    /\ broker.filled < Requested
    /\ broker' = [broker EXCEPT
           !.filled = @ + 1,
           !.st = IF @ = "CANCELLED" THEN @
                  ELSE IF broker.filled + 1 = Requested THEN "FILLED"
                  ELSE IF @ = "PENDING_CANCEL" THEN @ ELSE "PARTIALLY_FILLED"]
    /\ UNCHANGED <<durable, memory>>

\* Status changes the broker makes by itself, cancels from elsewhere included.
Move(from, to) ==
    /\ broker.st \in from
    /\ to \in BrokerStatuses
    /\ broker' = [broker EXCEPT !.st = to]

BrokerStatus ==
    /\ \/ Move({"PENDING_NEW"}, "ACKNOWLEDGED")
       \/ Move({"PENDING_NEW"}, "REJECTED")
       \/ Move(ActiveStatus, "PENDING_CANCEL")
       \/ Move(Working, "EXPIRED")
       \/ Move({"PENDING_CANCEL"}, "CANCELLED")
       \/ broker.filled = 0 /\ Move({"PENDING_CANCEL"}, "ACKNOWLEDGED")
       \/ broker.filled > 0 /\ Move({"PENDING_CANCEL"}, "PARTIALLY_FILLED")
    /\ UNCHANGED <<durable, memory>>

-----------------------------------------------------------------------------
(* The process.                                                            *)

\* Give up the call stack.  An exception that leaves execute, a control or
\* startup halts the daemon, which then needs a new recovery.
Idle(r) ==
    /\ pc' = "idle" /\ ready' = r
    /\ who' = "live" /\ cur' = 1 /\ fact' = NoFact /\ nf' = 0
    /\ todo' = {} /\ blocked' = FALSE

Goto(l) == pc' = l /\ UNCHANGED <<ready, who, cur, fact, nf, todo, blocked>>

\* A process exit, a lost writer lease or an uncaught error: memory is gone.
\* The single cancel the controller may still send after losing its lease
\* leaves no durable trace; BrokerStatus covers its effect at the broker.
Crash ==
    /\ pc # "idle"
    /\ Idle(FALSE)
    /\ UNCHANGED <<durable, broker>>

Restart ==
    /\ pc = "idle" /\ ready
    /\ Idle(FALSE)
    /\ UNCHANGED <<durable, broker>>

\* LiveExecutionController.execute, an order the ledger has never seen.  An
\* order already in the ledger is only reported, never submitted again.
NewAggregate ==
    /\ pc = "idle" /\ ready
    /\ agg.state = "NONE"
    /\ agg' = ArmedAggregate
    /\ Goto("armed")
    /\ UNCHANGED <<row, att, broker>>

SubmitBegin ==
    /\ pc = "armed"
    /\ Write(BeginSubmit(Tx))
    /\ pc' = "submitting" /\ cur' = 1
    /\ UNCHANGED <<ready, who, fact, nf, todo, blocked, broker>>

\* Mutant: a call that timed out is repeated.
SubmitCallRetries ==
    /\ pc = "submitting"
    /\ \/ Goto("confirm") /\ broker' = Accept(broker)
       \/ Goto("submitting") /\ broker' = [broker EXCEPT !.inflight = TRUE]
    /\ UNCHANGED <<durable>>

\* submit_order: order_stock accepts, rejects explicitly, or fails in a way
\* that proves nothing (the order may exist, be on its way, or not exist).
SubmitCall ==
    /\ pc = "submitting"
    /\ \/ Goto("confirm") /\ broker' = Accept(broker)
       \/ Goto("refused") /\ UNCHANGED broker
       \/ /\ Goto("lost")
          /\ broker' \in {Accept(broker), [broker EXCEPT !.inflight = TRUE], broker}
    /\ UNCHANGED <<durable>>

CancelCall ==
    /\ pc = "cancelling"
    /\ \/ (Goto("confirm") \/ Goto("lost")) /\ broker' \in {AcceptCancel(broker), broker}
       \/ Goto("refused") /\ UNCHANGED broker
    /\ UNCHANGED <<durable>>

\* The confirmation query inside submit_order and cancel_order.
Confirm ==
    /\ pc = "confirm"
    /\ \/ /\ fact' \in Observations
          /\ pc' = "returned"
          /\ UNCHANGED <<ready, who, cur, nf, todo, blocked>>
       \/ Goto("lost")
    /\ UNCHANGED <<durable, broker>>

\* Where the controller or the sweep goes once an outcome is committed.
AfterWrite(t) ==
    IF who = "sweep" THEN Idle(ready)
    ELSE IF t.agg.state \in OpenStates /\ cur = 1
    THEN /\ pc' = "open" /\ fact' = NoFact /\ nf' = 0
         /\ UNCHANGED <<ready, who, cur, todo, blocked>>
    ELSE Idle(t.agg.state # "UNKNOWN")

\* Mutant: an exception does not roll the transaction back.
CommitAlways(t) == Write(t) /\ AfterWrite(t)

CommitOrHalt(t) ==
    IF t.agg.err = "" THEN Write(t) /\ AfterWrite(t)
    ELSE UNCHANGED durable /\ Idle(FALSE)

\* _submit_live, _cancel_live, cancel_system_orders: fetch the fills, record.
RecordReturn ==
    /\ pc = "returned"
    /\ \E k \in 0..broker.filled : CommitOrHalt(RecordReturnedResult(Tx, cur, fact, k))
    /\ UNCHANGED <<broker>>

\* An explicit refusal; the sweep treats every failed call as unknown.
RecordRefused ==
    /\ pc = "refused"
    /\ CommitOrHalt(IF who = "sweep"
                    THEN MarkAttemptUnknown(Tx, cur, "CALL_OUTCOME_UNKNOWN")
                    ELSE ResolveNotAccepted(Tx, cur))
    /\ UNCHANGED <<broker>>

\* Mutant: a lost call is taken for a refusal.
LostIsRefused ==
    /\ pc = "lost"
    /\ CommitOrHalt(ResolveNotAccepted(Tx, cur))
    /\ UNCHANGED <<broker>>

RecordLost ==
    /\ pc = "lost"
    /\ CommitOrHalt(MarkAttemptUnknown(Tx, cur, "CALL_OUTCOME_UNKNOWN"))
    /\ UNCHANGED <<broker>>

\* _refresh_open_order: orders first, fills second.
RefreshOrders ==
    /\ pc = "open"
    /\ fact' \in Observations
    /\ pc' = "refresh"
    /\ UNCHANGED <<durable, ready, who, cur, nf, todo, blocked, broker>>

RefreshApply ==
    /\ pc = "refresh"
    /\ \E k \in 0..broker.filled : CommitOrHalt(ReconcileBrokerFact(Tx, fact, k))
    /\ UNCHANGED <<broker>>

\* _finish_open_order: at the deadline cancel once, or leave the order open
\* when it is too late even for that.
DeadlineCancel ==
    /\ pc = "open"
    /\ \E i \in Attempts :
          NextAttempt(i) /\ Write(BeginCancel(Tx, i)) /\ cur' = i
    /\ pc' = "cancelling"
    /\ UNCHANGED <<ready, who, fact, nf, todo, blocked, broker>>

WindowIncomplete ==
    /\ pc = "open"
    /\ Idle(ready)
    /\ UNCHANGED <<durable, broker>>

\* _candidates and _current_broker_order of the cancel-only capability.
SweepCandidate ==
    /\ agg.state \in OpenStates
    /\ row.status \in ActiveStatus
    /\ broker.st \in ActiveStatus
    /\ broker.filled >= row.filled
    /\ _order_sequence(Truth) >= _order_sequence(row)

SweepBegin ==
    /\ pc = "idle"
    /\ SweepCandidate
    /\ \E i \in Attempts :
          NextAttempt(i) /\ Write(BeginCancel(Tx, i)) /\ cur' = i
    /\ pc' = "cancelling" /\ who' = "sweep"
    /\ UNCHANGED <<ready, fact, nf, todo, blocked, broker>>

-----------------------------------------------------------------------------
(* Startup recovery.                                                       *)

\* Mutant: only blockers keep the process from becoming ready.
CleanWithoutBlockers(t, b) == ~b

\* RecoveryReport.halt_required, as far as this order decides it.
Clean(t, b) == ~b /\ t.agg.state \notin UnresolvedStates

RecoverNothing ==
    /\ pc = "idle" /\ ~ready
    /\ PendingAttempts = {} /\ row = NoFact
    /\ Idle(Clean(Tx, FALSE))
    /\ UNCHANGED <<durable, broker>>

NeedsRecovery == pc = "idle" /\ ~ready /\ (PendingAttempts # {} \/ row # NoFact)

\* query_orders fails, or the broker is not readable.
RecoverUnreadable ==
    /\ NeedsRecovery
    /\ pc' = "unreadable" /\ todo' = PendingAttempts /\ blocked' = (PendingAttempts # {})
    /\ UNCHANGED <<durable, ready, who, cur, fact, nf, broker>>

\* query_orders returns the order, or does not list it.
RecoverOrders(f) ==
    /\ NeedsRecovery
    /\ f \in Observations \cup {NoFact}
    /\ pc' = "queryFills" /\ todo' = PendingAttempts /\ fact' = f
    /\ UNCHANGED <<durable, ready, who, cur, nf, blocked, broker>>

\* query_fills answers later than query_orders, or fails: then the recovery
\* is unavailable.
RecoverFills(k) ==
    /\ pc = "queryFills"
    /\ k <= broker.filled
    /\ nf' = k /\ pc' = "recover"
    /\ UNCHANGED <<durable, ready, who, cur, fact, todo, blocked, broker>>

RecoverFillsUnreadable ==
    /\ pc = "queryFills"
    /\ pc' = "unreadable" /\ fact' = NoFact /\ blocked' = (todo # {})
    /\ UNCHANGED <<durable, ready, who, cur, nf, todo, broker>>

\* The pending attempts are visited in the order they were started.
FirstPending(i) == i \in todo /\ \A j \in todo : i <= j

Visited(i, b) ==
    /\ todo' = todo \ {i} /\ blocked' = b
    /\ UNCHANGED <<pc, ready, who, cur, fact, nf>>

\* RecoveryService._mark_attempts_unknown: an exception here leaves recover().
MarkOrHalt(i, diagnostic) ==
    LET t == MarkAttemptUnknown(Tx, i, diagnostic)
    IN  IF t.agg.err = "" THEN Write(t) /\ Visited(i, blocked)
        ELSE UNCHANGED durable /\ Idle(FALSE)

RecoverUnavailableAttempt ==
    /\ pc = "unreadable"
    /\ \E i \in Attempts : FirstPending(i) /\ MarkOrHalt(i, "BROKER_RECOVERY_UNAVAILABLE")
    /\ UNCHANGED <<broker>>

RecoverUnavailableDone ==
    /\ pc = "unreadable" /\ todo = {}
    /\ Idle(Clean(Tx, blocked))
    /\ UNCHANGED <<durable, broker>>

\* prove_order_not_accepted: an adapter may prove that the durable command was
\* never accepted, which is possible only once it can no longer arrive.
AbsenceProvable == broker.st = "NONE" /\ ~broker.inflight

\* The pending attempt has no order at the broker.
ProveNotAccepted ==
    LET t == ResolveNotAccepted(Tx, 1)
    IN  AbsenceProvable /\ t.agg.err = "" /\ Write(t) /\ Visited(1, blocked)

RecoverUnproven ==
    /\ pc = "recover" /\ fact = NoFact
    /\ \E i \in Attempts :
          /\ FirstPending(i)
          /\ (i = 1 /\ ProveNotAccepted) \/ MarkOrHalt(i, "BROKER_ACCEPTANCE_UNPROVEN")
    /\ UNCHANGED <<broker>>

\* The pending attempt has an order: _broker_evidence_matches, then record.
\* PersistenceConflict is caught and blocks; a DomainTransitionError is not.
RecordMatched(i) ==
    LET t == RecordReturnedResult(Tx, i, fact, nf)
    IN  IF nf # fact.filled \/ t.agg.err = "conflict" THEN UNCHANGED durable /\ Visited(i, TRUE)
        ELSE IF t.agg.err = "" THEN Write(t) /\ Visited(i, blocked)
        ELSE UNCHANGED durable /\ Idle(FALSE)

RecoverMatched ==
    /\ pc = "recover" /\ fact # NoFact
    /\ \E i \in Attempts : FirstPending(i) /\ RecordMatched(i)
    /\ UNCHANGED <<broker>>

\* _apply_late_facts, then the report.
ApplyLateFacts ==
    /\ pc = "recover" /\ todo = {}
    /\ LET t == ReconcileBrokerFact(Tx, fact, nf)
           unmapped == row = NoFact /\ (fact # NoFact \/ nf > 0)
       IN  IF row = NoFact \/ fact = NoFact
           THEN UNCHANGED durable /\ Idle(Clean(Tx, blocked \/ unmapped))
           ELSE IF t.agg.err # ""
           THEN UNCHANGED durable /\ Idle(FALSE)
           ELSE Write(t) /\ Idle(Clean(t, blocked \/ t.agg.late))
    /\ UNCHANGED <<broker>>

-----------------------------------------------------------------------------
Init ==
    /\ agg = NoAggregate /\ row = NoFact
    /\ att = [i \in Attempts |-> [state |-> "NONE", resp |-> NoFact]]
    /\ broker = [st |-> "NONE", filled |-> 0, n |-> 0, inflight |-> FALSE]
    /\ pc = "idle" /\ ready = FALSE /\ who = "live" /\ cur = 1
    /\ fact = NoFact /\ nf = 0 /\ todo = {} /\ blocked = FALSE

BrokerNext == BrokerLateArrival \/ BrokerFill \/ BrokerStatus

LiveNext ==
    \/ NewAggregate \/ SubmitBegin \/ SubmitCall \/ CancelCall \/ Confirm
    \/ RecordReturn \/ RecordRefused \/ RecordLost
    \/ RefreshOrders \/ RefreshApply \/ DeadlineCancel \/ WindowIncomplete
    \/ SweepBegin

RecoverNext ==
    \/ RecoverNothing \/ RecoverUnreadable
    \/ \E f \in Observations \cup {NoFact} : RecoverOrders(f)
    \/ \E k \in 0..Requested : RecoverFills(k)
    \/ RecoverFillsUnreadable
    \/ RecoverUnavailableAttempt \/ RecoverUnavailableDone
    \/ RecoverUnproven \/ RecoverMatched \/ ApplyLateFacts

NormalNext == BrokerNext \/ LiveNext \/ RecoverNext \/ Restart

Next == NormalNext \/ Crash

Spec == Init /\ [][Next]_vars

\* Fairness.  The single-threaded process keeps running and an operator
\* restarts it (each start runs recovery); crashes stop at some point; and a
\* broker that is asked again and again is sometimes readable and answers
\* both queries with the true state of the order.
TruthfulOrders == RecoverOrders(Truth)
TruthfulFills == fact = Truth /\ RecoverFills(broker.filled)

Fairness ==
    /\ WF_vars(LiveNext \/ RecoverNext \/ Restart)
    /\ SF_vars(TruthfulOrders) /\ SF_vars(TruthfulFills)
    /\ <>[][NormalNext]_vars

FairSpec == Spec /\ Fairness

-----------------------------------------------------------------------------
(* Properties.                                                             *)

Memory ==
    /\ pc \in {"idle", "armed", "submitting", "cancelling", "confirm", "returned",
               "refused", "lost", "open", "refresh", "unreadable", "queryFills",
               "recover"}
    /\ ready \in BOOLEAN /\ who \in {"live", "sweep"} /\ cur \in Attempts
    /\ fact \in Fact \cup {NoFact} /\ nf \in 0..Requested
    /\ todo \in SUBSET Attempts /\ blocked \in BOOLEAN

Aggregate ==
    [state : OrderState, bid : BOOLEAN, filled : 0..Requested, late : BOOLEAN,
     seen : SUBSET (Attempts \X Diagnostics), acked : Nat, unclear : Nat, err : {""}]

AttemptRow ==
    [state : {"NONE", "SUBMITTING", "RETURNED", "UNKNOWN", "FAILED_LOCAL"},
     resp : Fact \cup {NoFact}]

\* Types: no aggregate with a raised error is ever durable, and the retained
\* fills never exceed the request.
TypeOK ==
    /\ agg \in Aggregate
    /\ row \in Fact \cup {NoFact}
    /\ att \in [Attempts -> AttemptRow]
    /\ broker \in [st : Status \cup {"NONE"}, filled : 0..Requested, n : Nat,
                   inflight : BOOLEAN]
    /\ Memory

\* However submits, crashes, lost answers, late arrivals and recoveries
\* interleave, the broker never holds two orders for one economic order
\* (find_economic_order in LiveExecutionController.execute).
OneBrokerOrder == broker.n + (IF broker.inflight THEN 1 ELSE 0) <= 1

\* While the broker holds the order, or may still receive it, the ledger has
\* a durable attempt for it and never says "not submitted": an order is
\* returned to ARMED only by proof that it was not accepted
\* (resolve_submit_not_accepted).
NeverDisowned ==
    broker.st # "NONE" \/ broker.inflight =>
        att[1].state # "NONE" /\ agg.state \notin {"NONE", "ARMED"}

\* No fill is lost, counted twice or invented, whatever is queried twice, out
\* of date or after a crash: the ledger never runs ahead of the broker, and an
\* order that is not unresolved holds exactly the fills of the last recorded
\* broker fact (the cumulative checks of _record_returned_result and
\* reconcile_broker_fact).
FillsAccounted ==
    /\ agg.filled <= broker.filled /\ row.filled <= broker.filled
    /\ agg.state \notin UnresolvedStates => agg.filled = row.filled

\* A terminal state in the ledger is the broker's: CANCELLED, REJECTED and
\* EXPIRED only when the broker says exactly that, FILLED only when every
\* share was executed.
TerminalIsBrokerTruth ==
    /\ agg.state \in {"CANCELLED", "REJECTED", "EXPIRED"} => broker.st = agg.state
    /\ agg.state = "FILLED" => broker.filled = Requested

\* The invariants OrderAggregate.__post_init__ enforces hold of every state
\* that is ever persisted, so loading an aggregate never fails.
AggregateConsistent ==
    /\ agg.state = "FILLED" => agg.filled = Requested
    /\ agg.state = "PARTIALLY_FILLED" => agg.filled > 0 /\ agg.filled < Requested

\* A terminal order never leaves its state, and no step ever drops a fill.
TerminalIsFinal ==
    [][/\ agg.state \in TERMINAL_ORDER_STATES => agg'.state = agg.state
       /\ agg'.filled >= agg.filled]_vars

\* Recovery lets the process become ready only when the ledger knows every
\* order the broker holds or may still receive.
ReadyKnowsBrokerOrder ==
    [][~ready /\ ready' => (broker.st # "NONE" \/ broker.inflight => agg'.bid)]_vars

\* Once the order is over at the broker the ledger ends up terminal too: an
\* order never stays SUBMITTING, CANCEL_REQUESTED or UNKNOWN for ever.
LedgerCatchesUp ==
    broker.st \in TerminalStatus ~> agg.state \in TERMINAL_ORDER_STATES

\* docs/RISK_AND_SAFETY.md: after an unknown cancel outcome the order is no
\* longer a cancel-only candidate, so it is never cancelled again blindly.
NoSecondCancelWhileUnknown ==
    [][\A i, j \in Attempts :
         i > 1 /\ att[i].state = "UNKNOWN" /\ att'[i].state = "UNKNOWN"
           => ~(att[j].state = "NONE" /\ att'[j].state = "SUBMITTING")]_vars

\* docs/RECOVERY.md: a cancel of unknown outcome keeps the system UNKNOWN and
\* halted while all that is known is that the order is still active, so
\* startup never becomes ready with such a cancel.
ReadyMeansCancelResolved ==
    [][~ready /\ ready' => agg'.state \in TERMINAL_ORDER_STATES
                            \/ \A i \in PendingAttempts' : i = 1]_vars

\* docs/EXECUTION.md: after an active or insufficient cancel answer the system
\* stays UNKNOWN and recovers by querying the broker.  So once the broker says
\* CANCELLED a start passes recovery, unless a late fill needs investigation.
CancelledOrderRecovers ==
    broker.st = "CANCELLED" ~> ready \/ agg.late

\* docs/RECOVERY.md: fills the ledger misses are queried from the broker and
\* filled in, so a fully executed order ends with all its fills in the ledger.
FillsReachLedger ==
    broker.st = "FILLED" ~> agg.filled = Requested

=============================================================================
