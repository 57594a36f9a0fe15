---------------------------- MODULE LiveExecution ----------------------------
(***************************************************************************)
(* LiveExecutionController.execute (execution/live_controller.py): the     *)
(* planned orders of one decision, SELL before BUY, each submitted through *)
(* a BrokerWriteCapability (risk/capability.py), polled until its window   *)
(* ends and then cancelled, under three monotonic deadlines and the lease  *)
(* guard.  The process may crash and be restarted, the lease may be lost   *)
(* at any moment, and a broker call may fail with an unknown outcome.      *)
(*                                                                         *)
(* What the ledger does with each broker fact is OrderLedger's subject;    *)
(* here an order is its ledger state and the broker's truth about it.      *)
(***************************************************************************)
EXTENDS Integers, Sequences, FiniteSets

CONSTANTS
    Plan,           \* sides of the planned orders, as the planner sorts them
    LatestSubmit,   \* ExecutionDeadlines.latest_new_submit
    LatestCancel,   \* ExecutionDeadlines.latest_cancel_initiation
    Completion,     \* ExecutionDeadlines.absolute_completion
    Window,         \* sell_window = buy_window
    MinLife,        \* minimum_order_lifetime
    Poll,           \* poll_interval
    MaxTime,        \* bound on the monotonic clock
    Provider,       \* "production": the context provider of _capability;
                    \* "any": a provider that may grant or deny
    ClockAdvances,  \* two readings of the wall clock differ
    Faults          \* crashes, lost leases and failing calls happen

DeadlineAssumption ==
    /\ {LatestSubmit, LatestCancel, Completion, MaxTime} \subseteq Nat
    /\ LatestSubmit <= LatestCancel /\ LatestCancel <= Completion /\ Completion <= MaxTime
WindowAssumption == {MinLife, Window, Poll} \subseteq Nat \ {0} /\ MinLife <= Window
PlanAssumption == Plan \in Seq({"SELL", "BUY"})
ProviderAssumption ==
    Provider \in {"production", "any"} /\ ClockAdvances \in BOOLEAN /\ Faults \in BOOLEAN

Orders == DOMAIN Plan
OPEN_STATES == {"ACKNOWLEDGED", "PARTIALLY_FILLED"}
Unresolved == {"SUBMITTING", "CANCEL_REQUESTED", "UNKNOWN"}

VARIABLES
    ledger,      \* order -> state of its aggregate, "NONE" before append_intent
    broker,      \* order -> the broker's truth
    mono,        \* monotonic clock
    lease,       \* the WriterLease is still this process's
    pc,          \* step of execute
    cur,         \* planned order in hand
    start,       \* submitted_monotonic of the order in hand
    wake,        \* end of the sleep in progress
    incomplete,  \* incomplete_sell
    unknown,     \* unresolved_unknown
    prior,       \* open state of the order before its cancel
    guarded,     \* the guard has passed since the last effect
    late         \* history: submits that reached the broker after the lease loss

orderVars == <<ledger, broker>>
loopVars == <<cur, start, wake, incomplete, unknown, prior>>
vars == <<orderVars, mono, lease, pc, loopVars, guarded, late>>

-----------------------------------------------------------------------------
(* BrokerWriteCapability: every write builds a context and checks it.      *)

Count(states) == Cardinality({i \in Orders : ledger[i] \in states})

\* ExecutionRiskGate.evaluate as the provider calls it: anything unresolved
\* in the ledger halts.  A SHRINK is no authorization for the command either
\* (RISK_GATE_QUANTITY_MISMATCH).
GateAction(ctx) == IF ctx.unresolved + ctx.submitting > 0 THEN "HALT" ELSE ctx.gate

\* _Authorizer.authorize.  healthy stands for mode, compliance, arm lease,
\* runtime state, broker health, session, market, identities and frequency.
Authorized(op, ctx) ==
    /\ ctx.healthy /\ ~ctx.future
    /\ ctx.unresolved = 0 /\ ctx.submitting = 0
    /\ op = "SUBMIT" => GateAction(ctx) = "ALLOW"

\* context_provider: now is read first, snapshot, health and quote after it;
\* the counts are read from the ledger.
ProductionContext(op) ==
    [healthy |-> TRUE, gate |-> "ALLOW", future |-> ClockAdvances,
     unresolved |-> Count({"CANCEL_REQUESTED", "UNKNOWN"}),
     submitting |-> Count({"SUBMITTING"})]

AnyContext(h) ==
    [healthy |-> h, gate |-> "ALLOW", future |-> FALSE, unresolved |-> 0, submitting |-> 0]

Contexts(op) ==
    IF Provider = "production" THEN {ProductionContext(op)} ELSE {AnyContext(h) : h \in BOOLEAN}

Granted(op) == \E ctx \in Contexts(op) : Authorized(op, ctx)
Denied(op) == \E ctx \in Contexts(op) : ~Authorized(op, ctx)

-----------------------------------------------------------------------------
(* The lease guard.                                                        *)

\* The steps that begin with a guard, and those whose guard knows an order.
SubmitSteps == {"begin", "call", "denied", "failed", "record"}
OpenSteps == {"wait", "refresh", "reconcile",
              "begin_cancel", "cancel", "cancel_denied", "cancel_failed", "cancel_record"}
GuardSteps == SubmitSteps \cup OpenSteps

Guard ==
    /\ pc \in GuardSteps /\ ~guarded /\ lease
    /\ guarded' = TRUE
    /\ UNCHANGED <<orderVars, mono, lease, pc, loopVars, late>>

Cancellable(b) == b \in {"open", "partial"}

\* A lost lease: at most one cancel at the broker, nothing in the ledger.
GuardFails ==
    /\ pc \in GuardSteps /\ ~guarded /\ ~lease
    /\ \/ UNCHANGED broker
       \/ /\ pc \in OpenSteps /\ mono < LatestCancel
          /\ Granted("CANCEL") /\ Cancellable(broker[cur])
          /\ broker' = [broker EXCEPT ![cur] = "cancelled"]
    /\ pc' = "down"
    /\ UNCHANGED <<ledger, mono, lease, loopVars, guarded, late>>

\* A transaction or broker call between two guards.
Effect == guarded /\ guarded' = FALSE

Set(s) == ledger' = [ledger EXCEPT ![cur] = s]

-----------------------------------------------------------------------------
(* execute: the head of the loop.                                          *)

\* The head of the loop, with the i-th planned order in hand if there is one.
AtHead(i) == pc' = IF i <= Len(Plan) THEN "loop" ELSE "done"

Construct ==
    /\ pc = "construct"
    /\ IF Provider = "any" \/ Authorized("CONSTRUCT", ProductionContext("CONSTRUCT"))
       THEN AtHead(cur) ELSE pc' = "halted"
    /\ UNCHANGED <<orderVars, mono, lease, loopVars, guarded, late>>

BlockedBySell == Plan[cur] = "BUY" /\ incomplete

Blocked == unknown \/ BlockedBySell

NextOrder ==
    /\ cur' = cur + 1 /\ AtHead(cur + 1)
    /\ UNCHANGED <<mono, lease, start, wake, prior, guarded, late>>

SkipBlocked ==
    /\ pc = "loop" /\ Blocked
    /\ NextOrder /\ UNCHANGED <<orderVars, incomplete, unknown>>

\* incomplete_sell after a SELL in state s: the last SELL decides.
SellFlag(s) == IF Plan[cur] = "SELL" THEN s # "FILLED" ELSE incomplete

SkipExisting ==
    /\ pc = "loop" /\ ~Blocked /\ ledger[cur] # "NONE"
    /\ unknown' = (ledger[cur] = "UNKNOWN") /\ incomplete' = SellFlag(ledger[cur])
    /\ NextOrder /\ UNCHANGED orderVars

SafeToStart == mono < LatestSubmit /\ mono + Window <= LatestCancel

\* BLOCKED_BY_GLOBAL_EXECUTION_DEADLINE, or no shares for the current facts.
SkipUnsafe ==
    /\ pc = "loop" /\ ~Blocked /\ ledger[cur] = "NONE"
    /\ ~SafeToStart \/ Faults
    /\ incomplete' = (incomplete \/ Plan[cur] = "SELL")
    /\ NextOrder /\ UNCHANGED <<orderVars, unknown>>

Size ==
    /\ pc = "loop" /\ ~Blocked /\ ledger[cur] = "NONE" /\ SafeToStart
    /\ pc' = "create"
    /\ UNCHANGED <<orderVars, mono, lease, loopVars, guarded, late>>

\* _new_aggregate: one transaction that no guard precedes.
Create ==
    /\ pc = "create"
    /\ start' = mono
    /\ Set("ARMED") /\ pc' = "begin" /\ guarded' = FALSE
    /\ UNCHANGED <<broker, mono, lease, cur, wake, incomplete, unknown, prior, late>>

-----------------------------------------------------------------------------
(* _submit_live.                                                           *)

Step(from, to) ==
    pc = from /\ pc' = to /\ Effect /\ UNCHANGED <<mono, lease, loopVars>>

BeginSubmit == Step("begin", "call") /\ Set("SUBMITTING") /\ UNCHANGED <<broker, late>>

SubmitDenied ==
    Step("call", "denied") /\ Denied("SUBMIT") /\ UNCHANGED <<orderVars, late>>

\* The order reaches the broker; the answer may be lost.
SubmitSent ==
    /\ \/ Step("call", "record")
       \/ Faults /\ Step("call", "failed")
    /\ Granted("SUBMIT")
    /\ broker' = [broker EXCEPT ![cur] = "open"]
    /\ late' = IF lease THEN late ELSE late + 1
    /\ UNCHANGED ledger

SubmitLost ==
    /\ Faults /\ Step("call", "failed") /\ Granted("SUBMIT")
    /\ UNCHANGED <<orderVars, late>>

\* After the order: outcome, flags and the next planned order.
Finish(s) ==
    /\ unknown' = (s = "UNKNOWN") /\ incomplete' = SellFlag(s)
    /\ cur' = cur + 1 /\ AtHead(cur + 1)
    /\ UNCHANGED <<start, wake, prior>>

ResolveNotAccepted ==
    /\ pc = "denied" /\ Effect
    /\ Set("ARMED") /\ Finish("ARMED")
    /\ UNCHANGED <<broker, mono, lease, late>>

\* Mutant: a failed call counts as not accepted.
UnknownIsNotAccepted ==
    /\ pc = "failed" /\ Effect
    /\ Set("ARMED") /\ Finish("ARMED")
    /\ UNCHANGED <<broker, mono, lease, late>>

MarkUnknown ==
    /\ pc = "failed" /\ Effect
    /\ Set("UNKNOWN") /\ Finish("UNKNOWN")
    /\ UNCHANGED <<broker, mono, lease, late>>

\* What the ledger makes of the broker's truth.
Projected(b) ==
    CASE b = "open" -> "ACKNOWLEDGED" [] b = "partial" -> "PARTIALLY_FILLED"
      [] b = "filled" -> "FILLED" [] b = "cancelled" -> "CANCELLED"
      [] b = "rejected" -> "REJECTED" [] OTHER -> "ARMED"

RecordSubmit ==
    /\ pc = "record" /\ Effect
    /\ Set(Projected(broker[cur]))
    /\ IF Projected(broker[cur]) \in OPEN_STATES THEN pc' = "wait" /\ UNCHANGED loopVars
       ELSE Finish(Projected(broker[cur]))
    /\ UNCHANGED <<broker, mono, lease, late>>

-----------------------------------------------------------------------------
(* _wait_until_deadline and _finish_open_order.                            *)

Min2(a, b) == IF a <= b THEN a ELSE b

OrderDeadline == Min2(start + Window, LatestCancel)

Waiting(to) == pc' = to /\ Effect /\ UNCHANGED <<orderVars, mono, lease, late>>

Sleep(until, to) == wake' = until /\ UNCHANGED <<cur, start, incomplete, unknown, prior>>
                    /\ Waiting(to)

PollOrder ==
    /\ pc = "wait" /\ guarded /\ mono < OrderDeadline /\ mono < Completion
    /\ Sleep(Min2(mono + Poll, OrderDeadline), "refresh")

\* Mutant: the order is waited for until it is done.
WaitsForTerminal ==
    /\ pc = "wait" /\ guarded /\ Projected(broker[cur]) \notin OPEN_STATES
    /\ UNCHANGED loopVars /\ Waiting("finish")

WindowEnds ==
    /\ pc = "wait" /\ guarded /\ (mono >= OrderDeadline \/ mono >= Completion)
    /\ UNCHANGED loopVars /\ Waiting("finish")

\* query_orders: the order may not be there (yet).
Refresh ==
    /\ pc = "refresh" /\ guarded /\ mono >= wake
    /\ UNCHANGED loopVars
    /\ \/ Waiting("reconcile")
       \/ Faults /\ Waiting("wait")

Reconcile ==
    /\ pc = "reconcile" /\ Effect
    /\ Set(Projected(broker[cur]))
    /\ IF Projected(broker[cur]) \in OPEN_STATES
       THEN pc' = "wait" /\ UNCHANGED loopVars
       ELSE Finish(Projected(broker[cur]))
    /\ UNCHANGED <<broker, mono, lease, late>>

Idle == UNCHANGED <<orderVars, mono, lease, guarded, late>>

MayCancel == mono < LatestCancel /\ mono < Completion

\* The wait for minimum_order_lifetime before the cancel is never entered: the
\* window is not shorter, so an order that young is past LatestCancel.
DecideCancel ==
    /\ pc = "finish"
    /\ IF MayCancel THEN pc' = "begin_cancel" /\ UNCHANGED loopVars
       ELSE Finish(ledger[cur])   \* EXECUTION_WINDOW_INCOMPLETE
    /\ Idle

-----------------------------------------------------------------------------
(* _cancel_live.                                                           *)

BeginCancel ==
    /\ pc = "begin_cancel" /\ pc' = "cancel" /\ Effect
    /\ prior' = ledger[cur] /\ Set("CANCEL_REQUESTED")
    /\ UNCHANGED <<broker, mono, lease, cur, start, wake, incomplete, unknown, late>>

CancelDenied ==
    Step("cancel", "cancel_denied") /\ Denied("CANCEL") /\ UNCHANGED <<orderVars, late>>

CancelSent ==
    /\ \/ Step("cancel", "cancel_record")
       \/ Faults /\ Step("cancel", "cancel_failed")
    /\ Granted("CANCEL")
    /\ broker' = [broker EXCEPT ![cur] = IF Cancellable(@) THEN "cancelled" ELSE @]
    /\ UNCHANGED <<ledger, late>>

CancelLost ==
    /\ Faults /\ Step("cancel", "cancel_failed") /\ Granted("CANCEL")
    /\ UNCHANGED <<orderVars, late>>

\* resolve_cancel_not_accepted: back to the open state it had.
CancelNotAccepted ==
    /\ pc = "cancel_denied" /\ Effect
    /\ Set(prior) /\ Finish(prior)
    /\ UNCHANGED <<broker, mono, lease, late>>

CancelUnknown ==
    /\ pc = "cancel_failed" /\ Effect
    /\ Set("UNKNOWN") /\ Finish("UNKNOWN")
    /\ UNCHANGED <<broker, mono, lease, late>>

RecordCancel ==
    /\ pc = "cancel_record" /\ Effect
    /\ Set(Projected(broker[cur])) /\ Finish(Projected(broker[cur]))
    /\ UNCHANGED <<broker, mono, lease, late>>

-----------------------------------------------------------------------------
(* The world.                                                              *)

Tick ==
    /\ mono < MaxTime /\ mono' = mono + 1
    /\ UNCHANGED <<orderVars, lease, pc, loopVars, guarded, late>>

BrokerMoves ==
    /\ \E i \in Orders :
          \E b \in (CASE broker[i] = "open" -> {"partial", "filled", "rejected"}
                      [] broker[i] = "partial" -> {"filled"} [] OTHER -> {}) :
             broker' = [broker EXCEPT ![i] = b]
    /\ UNCHANGED <<ledger, mono, lease, pc, loopVars, guarded, late>>

LeaseLost ==
    /\ Faults /\ lease
    /\ lease' = FALSE
    /\ UNCHANGED <<orderVars, mono, pc, loopVars, guarded, late>>

Crash ==
    /\ Faults /\ pc # "down"
    /\ pc' = "down"
    /\ UNCHANGED <<orderVars, mono, lease, loopVars, guarded, late>>

\* A new process: startup recovery has asked the broker about every order
\* and is clean; the execution of the session has not been recorded.
Restart ==
    /\ pc = "down"
    /\ ledger' = [i \in Orders |-> IF ledger[i] = "NONE" THEN "NONE" ELSE Projected(broker[i])]
    /\ lease' = TRUE /\ late' = 0
    /\ pc' = "construct" /\ cur' = 1 /\ start' = 0 /\ wake' = 0
    /\ incomplete' = FALSE /\ unknown' = FALSE /\ prior' = "ACKNOWLEDGED" /\ guarded' = FALSE
    /\ UNCHANGED <<broker, mono>>

Init ==
    /\ ledger = [i \in Orders |-> "NONE"] /\ broker = [i \in Orders |-> "none"]
    /\ mono = 0 /\ lease = TRUE /\ pc = "construct"
    /\ cur = 1 /\ start = 0 /\ wake = 0 /\ incomplete = FALSE /\ unknown = FALSE
    /\ prior = "ACKNOWLEDGED" /\ guarded = FALSE /\ late = 0

Controller ==
    \/ Construct \/ Guard \/ GuardFails
    \/ SkipBlocked \/ SkipExisting \/ SkipUnsafe \/ Size \/ Create
    \/ BeginSubmit \/ SubmitDenied \/ SubmitSent \/ SubmitLost
    \/ ResolveNotAccepted \/ MarkUnknown \/ RecordSubmit
    \/ PollOrder \/ WindowEnds \/ Refresh \/ Reconcile \/ DecideCancel
    \/ BeginCancel \/ CancelDenied \/ CancelSent \/ CancelLost
    \/ CancelNotAccepted \/ CancelUnknown \/ RecordCancel

Next == Controller \/ Tick \/ BrokerMoves \/ LeaseLost \/ Crash \/ Restart

Spec == Init /\ [][Next]_vars

\* Fairness: the process runs, its sleeps end because time passes.
FairSpec == Spec /\ WF_vars(Controller) /\ WF_vars(Tick)

-----------------------------------------------------------------------------
(* Properties.                                                             *)

LedgerStates == {"NONE", "ARMED", "FILLED", "CANCELLED", "REJECTED"} \cup OPEN_STATES \cup Unresolved

TypeOK ==
    /\ ledger \in [Orders -> LedgerStates]
    /\ broker \in [Orders -> {"none", "open", "partial", "filled", "cancelled", "rejected"}]
    /\ mono \in 0..MaxTime /\ start \in 0..MaxTime /\ wake \in 0..MaxTime
    /\ pc \in GuardSteps \cup {"construct", "halted", "loop", "create", "finish", "done", "down"}
    /\ cur \in 1..(Len(Plan) + 1) /\ late \in 0..Len(Plan)
    /\ prior \in OPEN_STATES /\ {lease, incomplete, unknown, guarded} \subseteq BOOLEAN

\* No new risk behind an unknown outcome: when a submit is about to be sent,
\* every other order of the plan has a proven state, and the ledger has never
\* forgotten an order that the broker works.
SubmitsAlone ==
    /\ pc = "call" => \A i \in Orders \ {cur} : ledger[i] \notin Unresolved
    /\ \A i \in Orders : broker[i] # "none" => ledger[i] \notin {"NONE", "ARMED"}

\* After the lease is lost at most the one submit already past its guard
\* reaches the broker, and the ledger says SUBMITTING for it.
LossStopsSubmits ==
    late <= 1 /\ (late = 1 => pc = "down" \/ (pc \in {"record", "failed"} /\ ~guarded))

\* No new risk behind an unknown outcome, across crashes and re-execution: when a submit is
\* sent every other order of the plan has a proven state; and after the lease is lost at most
\* the one submit already past its guard still reaches the broker (live_controller.py _submit).
SubmitsAreSafe == TypeOK /\ SubmitsAlone /\ LossStopsSubmits

\* Whatever the broker does, execute comes to an end.
ExecutionEnds == pc = "loop" ~> pc \in {"done", "down", "halted"}

\* docs/EXECUTION.md: latest_new_submit is the last moment new broker risk is
\* created.
SubmitFence == [][\A i \in Orders : broker[i] = "none" /\ broker'[i] = "open"
                     => mono < LatestSubmit]_vars

\* docs/EXECUTION.md: before every commit of state the lease is checked.
GuardedCommits == [][ledger' # ledger /\ pc # "down" => guarded]_vars

\* live_controller.py: a BUY is BLOCKED_BY_INCOMPLETE_SELL_REDUCTION.
SellsBeforeBuys ==
    \A i \in Orders : pc = "create" /\ Plan[cur] = "BUY" /\ i < cur /\ Plan[i] = "SELL"
        => ledger[i] = "FILLED"

\* With healthy facts a submitting order reaches the broker.
SubmittingOrderIsSent == \A i \in Orders : ledger[i] = "SUBMITTING" ~> broker[i] # "none"

\* With healthy facts the capability can be constructed.
CapabilityIsConstructed == pc = "construct" ~> pc = "loop"

=============================================================================
